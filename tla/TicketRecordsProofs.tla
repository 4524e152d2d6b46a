------------------------ MODULE TicketRecordsProofs ------------------------
(***************************************************************************)
(* Proofs about what TicketService records: the legality of the changes in *)
(* the history, the results of runs, the audit trail and the notifications.*)
(***************************************************************************)
EXTENDS TicketServiceProofs

-----------------------------------------------------------------------------
(* Every change is legal from the status its session read *)

\* The status after the first n rows of the history h was v.
StatusWas(h, n, v) ==
  \E i \in DOMAIN h :
    /\ i \in 1..n /\ h[i].to = v /\ v # None
    /\ \A j \in (i + 1)..n : h[j].to = None

\* A session that is about to decide holds the status that the ticket had
\* when it read the row, so does every change that was recorded, and before
\* the ticket exists nobody works on it.
ReadInv ==
  /\ \A s \in Sessions : At(s, "loaded") =>
       /\ session[s].since <= Len(events)
       /\ StatusWas(events, session[s].since, session[s].seen.status)
  /\ \A j \in DOMAIN events : events[j].to # None /\ events[j].type # "created" =>
       /\ can_transition(events[j].from, events[j].to)
       /\ events[j].since <= Len(events)
       /\ StatusWas(events, events[j].since, events[j].from)
  /\ status # None => StatusWas(events, Len(events), status)
  /\ status = None => queue = {} /\ \A s \in Sessions : At(s, "idle")

LegalInv == TypeInv /\ ReadInv

\* A session that decides after a step either did so before it, or has just
\* read the row as it is.
LEMMA StepLoads ==
  ASSUME TypeInv, [Next]_vars, NEW s \in Sessions, At(s, "loaded")'
  PROVE  \/ session'[s] = session[s]
         \/ /\ session'[s].seen = Row /\ session'[s].since = Len(events)
            /\ UNCHANGED <<status, events>>
            /\ status # None \/ queue # {}
<1> USE DEF TypeInv
<1>1. ASSUME NEW t \in Sessions, NEW v, session' = [session EXCEPT ![t] = v],
             v.pc # "loaded"
      PROVE  session'[s] = session[s]
  BY <1>1 DEF TypeOK, At
<1>2. /\ \A t \in Sessions : Finished(t).pc # "loaded"
      /\ Fresh.pc # "loaded"
      /\ \A t \in Sessions : Committed(t).pc # "loaded"
  BY DEF Finished, Fresh, Committed, TypeOK, Session
<1>3. ASSUME NEW t \in Sessions, Notify(t)
      PROVE  session'[s] = session[s]
  <2>1. session[t] \in Session
    BY DEF TypeOK
  <2>2. CASE refresh_ticket(t)
    <3> DEFINE v == [session[t] EXCEPT !.pc = "refreshed", !.seen = Row]
    <3>1. session' = [session EXCEPT ![t] = v] /\ v.pc # "loaded"
      BY <2>1, <2>2 DEF refresh_ticket, Session
    <3> QED
      BY <1>1, <3>1
  <2>3. CASE record_delivery(t)
    <3> DEFINE v == [session[t] EXCEPT !.pc = "recorded", !.delivery = Len(deliveries) + 1]
    <3>1. v.pc # "loaded"
      BY <2>1 DEF Session
    <3>2. \/ session' = [session EXCEPT ![t] = v]
          \/ session' = [session EXCEPT ![t] = Finished(t)]
      BY <2>3 DEF record_delivery
    <3> QED
      BY <1>1, <1>2, <3>1, <3>2
  <2>4. CASE dispatch_delivery(t)
    BY <1>1, <1>2, <2>4 DEF dispatch_delivery
  <2> QED
    BY <1>3, <2>2, <2>3, <2>4 DEF Notify
<1>4. ASSUME NEW q \in Requests, NEW op, NEW arg, load_ticket(q, op, arg)
      PROVE  \/ session'[s] = session[s]
             \/ /\ session'[s].seen = Row /\ session'[s].since = Len(events)
                /\ UNCHANGED <<status, events>>
                /\ status # None \/ queue # {}
  <2> DEFINE v == [Fresh EXCEPT !.pc = "loaded", !.op = op, !.arg = arg,
                                !.seen = Row, !.since = Len(events)]
  <2>1. /\ session' = [session EXCEPT ![q] = v]
        /\ v.seen = Row /\ v.since = Len(events)
        /\ UNCHANGED <<status, events>> /\ status # None
    BY <1>4 DEF load_ticket, Fresh, ticketVars, tableVars
  <2> QED
    BY <2>1 DEF TypeOK
<1>5. ASSUME NEW w \in Workers, NEW r \in Requests, receive_run(w, r)
      PROVE  \/ session'[s] = session[s]
             \/ /\ session'[s].seen = Row /\ session'[s].since = Len(events)
                /\ UNCHANGED <<status, events>>
                /\ status # None \/ queue # {}
  <2> DEFINE v == [Fresh EXCEPT !.pc = "loaded", !.op = "execute", !.run = r,
                                !.seen = Row, !.since = Len(events)]
  <2>1. /\ session' = [session EXCEPT ![w] = v]
        /\ v.seen = Row /\ v.since = Len(events)
        /\ UNCHANGED <<status, events>> /\ queue # {}
    BY <1>5 DEF receive_run, Fresh, ticketVars, tableVars
  <2> QED
    BY <2>1 DEF TypeOK
<1>6. ASSUME NEW q \in Requests, RequestStep(q) \/ abort_request(q)
      PROVE  session'[s] = session[s]
  <2>1. q \in Sessions
    BY DEF Sessions
  <2>2. CASE approve(q)
    BY <1>1, <1>2, <2>1, <2>2 DEF approve
  <2>3. CASE start_run(q)
    <3>1. /\ session' = [session EXCEPT ![q] = [session[q] EXCEPT !.pc = "started"]]
          /\ [session[q] EXCEPT !.pc = "started"].pc # "loaded"
      BY <2>1, <2>3 DEF start_run, TypeOK, Session
    <3> QED
      BY <1>1, <2>1, <3>1
  <2>4. CASE refuse(q) \/ reject(q) \/ edit_draft(q) \/ dispatch_run(q) \/ abort_request(q)
    <3>1. session' = [session EXCEPT ![q] = Finished(q)]
      BY <2>4 DEF refuse, reject, edit_draft, dispatch_run, abort_request
    <3> QED
      BY <1>1, <1>2, <2>1, <3>1
  <2> QED
    BY <1>3, <1>6, <2>1, <2>2, <2>3, <2>4 DEF RequestStep
<1>7. ASSUME NEW w \in Workers, WorkerStep(w) \/ WorkerFault(w)
      PROVE  session'[s] = session[s]
  <2>1. w \in Sessions
    BY DEF Sessions
  <2>2. ASSUME NEW result \in WorkflowResult, complete_run(w, result)
        PROVE  session'[s] = session[s]
    <3>1. session' = [session EXCEPT ![w] = AfterRun(w, result.outcome)]
      BY <2>2 DEF complete_run
    <3>2. [session[w] EXCEPT !.pc = "completed"].pc # "loaded"
      BY <2>1 DEF TypeOK, Session
    <3>3. AfterRun(w, result.outcome).pc # "loaded"
      BY <1>2, <2>1, <3>2 DEF AfterRun
    <3> QED
      BY <1>1, <2>1, <3>1, <3>3
  <2>3. CASE \/ (\E why \in {"workflow", "transition"} : fail_run(w, why))
             \/ refresh_run(w) \/ fail_late(w) \/ abandon_run(w)
    BY <1>1, <1>2, <2>1, <2>3 DEF fail_run, refresh_run, fail_late, abandon_run, AfterCommit
  <2>4. CASE ack_run(w) \/ kill_child(w) \/ crash_worker(w)
    BY <1>1, <1>2, <2>1, <2>4 DEF ack_run, kill_child, crash_worker
  <2> QED
    BY <1>3, <1>7, <2>1, <2>2, <2>3, <2>4 DEF WorkerStep, WorkerFault
<1>8. CASE UNCHANGED session
  BY <1>8
<1> QED
  BY <1>4, <1>5, <1>6, <1>7, <1>8 DEF Next, vars, create_ticket, upsert_config

\* A status change is made by a session that was about to decide, legally
\* from the status it had read.
LEMMA StepChanges ==
  ASSUME TypeInv, [Next]_vars, NEW e, events' = Append(events, e),
         e.to # None, e.type # "created"
  PROVE  \E s \in Sessions :
           /\ At(s, "loaded")
           /\ e.from = session[s].seen.status /\ e.since = session[s].since
           /\ can_transition(e.from, e.to)
<1> USE DEF TypeInv
<1>1. Len(events) \in Nat /\ events' # events /\ events'[Len(events) + 1] = e
  BY DEF TypeOK
<1>2. ASSUME NEW q \in Requests, approve(q) \/ reject(q)
      PROVE  /\ q \in Sessions /\ At(q, "loaded")
             /\ e.from = session[q].seen.status /\ e.since = session[q].since
             /\ can_transition(e.from, e.to)
  <2>1. PICK type, to, text :
          /\ events' = Append(events, Event(q, type, to, text))
          /\ to \in {"approved", "rejected"}
          /\ can_transition(session[q].seen.status, to)
    BY <1>2 DEF approve, reject
  <2>2. Event(q, type, to, text) = e
    BY <1>1, <2>1 DEF TypeOK
  <2>3. e.from = session[q].seen.status /\ e.to = to /\ e.since = session[q].since
    BY <2>1, <2>2, ConstantsAssumption DEF Event, TicketStatus
  <2> QED
    BY <1>2, <2>1, <2>3 DEF approve, reject, Sessions
<1>3. ASSUME NEW w \in Workers, NEW result \in WorkflowResult, complete_run(w, result)
      PROVE  /\ w \in Sessions /\ At(w, "loaded")
             /\ e.from = session[w].seen.status /\ e.since = session[w].since
             /\ can_transition(e.from, e.to)
  <2>1. Event(w, "agent_run", result.outcome, None) = e
    BY <1>1, <1>3 DEF TypeOK, complete_run
  <2>2. result.outcome # None
    BY ConstantsAssumption DEF WorkflowResult
  <2>3. /\ e.from = session[w].seen.status /\ e.to = result.outcome
        /\ e.since = session[w].since
    BY <2>1, <2>2 DEF Event
  <2> QED
    BY <1>3, <2>3 DEF complete_run, Sessions
<1>4. ASSUME NEW q \in Requests, edit_draft(q)
      PROVE  FALSE
  <2>1. Event(q, "edited", None, session[q].arg) = e
    BY <1>1, <1>4 DEF TypeOK, edit_draft
  <2> QED
    BY <2>1 DEF Event
<1>5. ASSUME create_ticket
      PROVE  FALSE
  <2>1. [type |-> "created", from |-> None, to |-> "new", text |-> None,
         run |-> None, since |-> 0] = e
    BY <1>1, <1>5 DEF TypeOK, create_ticket
  <2> QED
    BY <2>1
<1>6. ASSUME NEW s \in Sessions, Notify(s)
      PROVE  FALSE
  BY <1>1, <1>6 DEF Notify, refresh_ticket, record_delivery, dispatch_delivery, tableVars
<1>7. ASSUME NEW q \in Requests, RequestStep(q)
      PROVE  approve(q) \/ reject(q)
  BY <1>1, <1>4, <1>6, <1>7
     DEF RequestStep, refuse, start_run, dispatch_run, tableVars, Sessions
<1>8. ASSUME NEW w \in Workers, WorkerStep(w)
      PROVE  \E result \in WorkflowResult : complete_run(w, result)
  BY <1>1, <1>6, <1>8 DEF WorkerStep, fail_run, refresh_run, ack_run, tableVars, Sessions
<1>9. ASSUME NEW q \in Requests,
             \/ \E op \in {"approve", "reject", "edit", "run"} :
                  \E arg \in Body(op) : load_ticket(q, op, arg)
             \/ abort_request(q)
      PROVE  FALSE
  BY <1>1, <1>9 DEF load_ticket, abort_request, tableVars
<1>10. ASSUME NEW w \in Workers,
              (\E r \in Requests : receive_run(w, r)) \/ WorkerFault(w)
       PROVE  FALSE
  BY <1>1, <1>10
     DEF receive_run, WorkerFault, fail_late, abandon_run, kill_child, crash_worker, tableVars
<1>11. CASE upsert_config \/ UNCHANGED vars
  BY <1>1, <1>11 DEF upsert_config, vars, tableVars
<1> QED
  BY <1>2, <1>3, <1>5, <1>7, <1>8, <1>9, <1>10, <1>11 DEF Next

LEMMA LegalInit == Init => LegalInv
<1> SUFFICES ASSUME Init PROVE ReadInv
  BY TypeInit DEF LegalInv
<1> QED
  BY DEF Init, ReadInv, At, Fresh

\* The past does not change: appending a row leaves earlier statuses alone.
LEMMA PastKept ==
  ASSUME NEW h \in Seq(TicketEvent), NEW e \in TicketEvent,
         NEW n \in Nat, n <= Len(h), NEW v, StatusWas(h, n, v)
  PROVE  n <= Len(Append(h, e)) /\ StatusWas(Append(h, e), n, v)
<1> DEFINE g == Append(h, e)
<1>1. /\ Len(h) \in Nat /\ Len(g) = Len(h) + 1
      /\ DOMAIN h = 1..Len(h) /\ DOMAIN g = 1..(Len(h) + 1)
      /\ \A k \in 1..Len(h) : g[k] = h[k]
  OBVIOUS
<1> HIDE DEF g
<1>2. PICK i \in 1..Len(h) :
        /\ i \in 1..n /\ h[i].to = v /\ v # None
        /\ \A j \in (i + 1)..n : h[j].to = None
  BY <1>1 DEF StatusWas
<1>3. /\ i \in DOMAIN g /\ g[i].to = v
      /\ \A j \in (i + 1)..n : g[j].to = None
  BY <1>1, <1>2
<1>4. StatusWas(g, n, v)
  BY <1>2, <1>3 DEF StatusWas
<1> QED
  BY <1>1, <1>4 DEF g

\* The present: a change becomes the status, any other row leaves it alone.
LEMMA PresentKept ==
  ASSUME NEW h \in Seq(TicketEvent), NEW e \in TicketEvent, NEW v,
         e.to = None => v # None /\ StatusWas(h, Len(h), v),
         e.to # None => v = e.to
  PROVE  StatusWas(Append(h, e), Len(Append(h, e)), v)
<1> DEFINE g == Append(h, e)
           n == Len(h)
<1>1. /\ n \in Nat /\ Len(g) = n + 1
      /\ DOMAIN h = 1..n /\ DOMAIN g = 1..(n + 1)
      /\ \A k \in 1..n : g[k] = h[k]
      /\ g[n + 1] = e
  OBVIOUS
<1> HIDE DEF g, n
<1>2. CASE e.to = None
  <2>1. PICK i \in 1..n : h[i].to = v /\ v # None /\ \A j \in (i + 1)..n : h[j].to = None
    BY <1>1, <1>2 DEF StatusWas, n
  <2>2. \A j \in (i + 1)..(n + 1) : g[j].to = None
    BY <1>1, <1>2, <2>1
  <2>3. i \in DOMAIN g /\ i \in 1..(n + 1) /\ g[i].to = v
    BY <1>1, <2>1
  <2>4. StatusWas(g, Len(g), v)
    BY <1>1, <2>1, <2>2, <2>3 DEF StatusWas
  <2> QED
    BY <2>4 DEF g
<1>3. CASE e.to # None
  <2>1. n + 1 \in DOMAIN g /\ n + 1 \in 1..(n + 1) /\ (n + 2)..(n + 1) = {}
    BY <1>1
  <2>2. StatusWas(g, Len(g), v)
    BY <1>1, <1>3, <2>1 DEF StatusWas
  <2> QED
    BY <2>2 DEF g
<1> QED
  BY <1>2, <1>3

\* Nobody can start to work on a ticket before it is created.
LEMMA NobodyEarly ==
  ASSUME TypeInv, [Next]_vars, status' = None,
         status = None => queue = {} /\ \A s \in Sessions : At(s, "idle")
  PROVE  queue' = {} /\ \A s \in Sessions : At(s, "idle")'
<1>1. status = None
  BY StepWrites DEF Writes
<1>2. queue = {} /\ \A s \in Sessions : session[s].pc = "idle"
  BY <1>1 DEF At
<1>3. ~create_ticket
  BY ConstantsAssumption DEF create_ticket, TicketStatus
<1>4. \A s \in Sessions : ~Notify(s)
  BY <1>2 DEF Notify, refresh_ticket, record_delivery, dispatch_delivery, At
<1>5. ASSUME NEW q \in Requests,
             \/ \E op \in {"approve", "reject", "edit", "run"} :
                  \E arg \in Body(op) : load_ticket(q, op, arg)
             \/ RequestStep(q)
             \/ abort_request(q)
      PROVE  FALSE
  BY <1>1, <1>2, <1>4, <1>5
     DEF load_ticket, RequestStep, abort_request, refuse, approve, reject, edit_draft,
         start_run, dispatch_run, At, Sessions
<1>6. ASSUME NEW w \in Workers,
             \/ \E r \in Requests : receive_run(w, r)
             \/ WorkerStep(w) \/ WorkerFault(w)
      PROVE  FALSE
  BY <1>2, <1>4, <1>6
     DEF receive_run, WorkerStep, complete_run, fail_run, refresh_run, ack_run, WorkerFault,
         fail_late, abandon_run, kill_child, crash_worker, AfterCommit, At, Sessions
<1>7. CASE upsert_config \/ UNCHANGED vars
  BY <1>2, <1>7 DEF upsert_config, vars, At
<1> QED
  BY <1>3, <1>5, <1>6, <1>7 DEF Next

LEMMA LegalStep == LegalInv /\ [Next]_vars => LegalInv'
<1> SUFFICES ASSUME LegalInv, [Next]_vars PROVE ReadInv'
  BY TypeStep DEF LegalInv
<1> USE DEF LegalInv
<1>t. events \in Seq(TicketEvent) /\ Len(events) \in Nat
  BY DEF TypeInv, TypeOK
<1>p. ASSUME NEW n \in Nat, n <= Len(events), NEW v, StatusWas(events, n, v)
      PROVE  n <= Len(events') /\ StatusWas(events', n, v)
  BY <1>t, <1>p, PastKept, StepWrites DEF Writes
<1>1. status' # None => StatusWas(events', Len(events'), status')
  <2>1. CASE UNCHANGED <<status, final_response, events>>
    BY <2>1 DEF ReadInv
  <2>2. ASSUME NEW e \in TicketEvent, Writes(e), status' # None
        PROVE  StatusWas(events', Len(events'), status')
    <3>1. /\ e.to = None => status' # None /\ StatusWas(events, Len(events), status')
          /\ e.to # None => status' = e.to
      BY <2>2 DEF Writes, ReadInv
    <3> QED
      BY <1>t, <2>2, <3>1, PresentKept DEF Writes
  <2> QED
    BY <2>1, <2>2, StepWrites
<1>2. status' = None => queue' = {} /\ \A s \in Sessions : At(s, "idle")'
  BY NobodyEarly DEF ReadInv
<1>3. ASSUME NEW s \in Sessions, At(s, "loaded")'
      PROVE  /\ session'[s].since <= Len(events')
             /\ StatusWas(events', session'[s].since, session'[s].seen.status)
  <2>1. CASE session'[s] = session[s]
    <3>1. session[s].since \in Nat
      BY DEF TypeInv, TypeOK, Session
    <3>2. /\ session[s].since <= Len(events)
          /\ StatusWas(events, session[s].since, session[s].seen.status)
      BY <1>3, <2>1 DEF ReadInv, At
    <3> QED
      BY <1>p, <2>1, <3>1, <3>2
  <2>2. CASE session'[s] # session[s]
    <3>1. /\ session'[s].seen = Row /\ session'[s].since = Len(events)
          /\ UNCHANGED <<status, events>>
          /\ status # None \/ queue # {}
      BY <1>3, <2>2, StepLoads
    <3>2. StatusWas(events, Len(events), status)
      BY <3>1 DEF ReadInv
    <3> QED
      BY <1>t, <3>1, <3>2 DEF Row
  <2> QED
    BY <2>1, <2>2
<1>4. ASSUME NEW j \in DOMAIN events', events'[j].to # None, events'[j].type # "created"
      PROVE  /\ can_transition(events'[j].from, events'[j].to)
             /\ events'[j].since <= Len(events')
             /\ StatusWas(events', events'[j].since, events'[j].from)
  <2>1. ASSUME j \in DOMAIN events, events'[j] = events[j]
        PROVE  /\ can_transition(events'[j].from, events'[j].to)
               /\ events'[j].since <= Len(events')
               /\ StatusWas(events', events'[j].since, events'[j].from)
    <3>0. events[j] \in TicketEvent
      BY <1>t, <2>1
    <3>1. events[j].since \in Nat
      BY <3>0 DEF TicketEvent
    <3>2. /\ can_transition(events[j].from, events[j].to)
          /\ events[j].since <= Len(events)
          /\ StatusWas(events, events[j].since, events[j].from)
      BY <1>4, <2>1 DEF ReadInv
    <3> QED
      BY <1>p, <2>1, <3>1, <3>2
  <2>2. ASSUME NEW e \in TicketEvent, events' = Append(events, e), events'[j] = e
        PROVE  /\ can_transition(e.from, e.to)
               /\ e.since <= Len(events')
               /\ StatusWas(events', e.since, e.from)
    <3>1. PICK s \in Sessions :
            /\ At(s, "loaded")
            /\ e.from = session[s].seen.status /\ e.since = session[s].since
            /\ can_transition(e.from, e.to)
      BY <1>4, <2>2, StepChanges
    <3>2. e.since <= Len(events) /\ StatusWas(events, e.since, e.from)
      BY <3>1 DEF ReadInv
    <3>3. e.since \in Nat
      BY DEF TicketEvent
    <3> QED
      BY <1>p, <3>1, <3>2, <3>3
  <2>3. CASE UNCHANGED events
    BY <1>4, <2>1, <2>3
  <2>4. ASSUME NEW e \in TicketEvent, events' = Append(events, e)
        PROVE  \/ j \in DOMAIN events /\ events'[j] = events[j]
               \/ events'[j] = e
    BY <1>t, <1>4, <2>4
  <2> QED
    BY <2>1, <2>2, <2>3, <2>4, StepWrites DEF Writes
<1> QED
  BY <1>1, <1>2, <1>3, <1>4 DEF ReadInv

\* Every recorded change is a legal move from the status the ticket had when
\* the session that made it read the row (models.ticket_states, enforced by
\* each handler on its own, possibly stale, copy).
THEOREM ChangesLegalCorrect == Spec => []ChangesLegalWhenRead
<1>1. LegalInv => ChangesLegalWhenRead
  BY DEF LegalInv, ReadInv, StatusWas, ChangesLegalWhenRead, LastChange
<1> QED
  BY LegalInit, LegalStep, <1>1, PTL DEF Spec

-----------------------------------------------------------------------------
(* What a step records *)

\* The audit rows that a history row of the run r, or of none, comes with.
AuditRows(e, r) == {Audit(a, r, Len(events) + 1) : a \in AuditOf(e)}

\* A handler creates, approves, rejects or edits.
RecordsDecision(e) ==
  /\ e.type # "agent_run"
  /\ events' = Append(events, e)
  /\ audit_logs' = audit_logs \cup AuditRows(e, None)
  /\ UNCHANGED agent_runs

\* A task commits the results of its run.
RecordsRun(e) ==
  /\ e.type = "agent_run"
  /\ e.to \in {"waiting_approval", "escalated"}
  /\ \E w \in Workers : ~At(w, "idle") /\ session[w].run = e.run
  /\ events' = Append(events, e)
  /\ audit_logs' = audit_logs \cup AuditRows(e, e.run)
  /\ agent_runs' = [agent_runs EXCEPT ![e.run].status = "completed",
                                      ![e.run].outcome = e.to]

\* A handler starts the run q.
RecordsStart(q) ==
  /\ At(q, "loaded") /\ At(q, "started")'
  /\ agent_runs' = [agent_runs EXCEPT ![q].status = "running"]
  /\ audit_logs' = audit_logs \cup {Audit("agent_run_started", q, 0)}
  /\ UNCHANGED events

\* A task marks its run failed.
RecordsFailure(w, why) ==
  /\ ~At(w, "idle")
  /\ agent_runs' = RunFailed(session[w].run, why)
  /\ UNCHANGED <<events, audit_logs>>

LEMMA StepRecords ==
  ASSUME TypeInv, [Next]_vars
  PROVE  \/ UNCHANGED tableVars
         \/ \E e \in TicketEvent : RecordsDecision(e) \/ RecordsRun(e)
         \/ \E q \in Requests : RecordsStart(q)
         \/ \E w \in Workers, why \in {"workflow", "transition", "late"} : RecordsFailure(w, why)
<1> USE DEF TypeInv
<1>1. CASE create_ticket
  <2> DEFINE e == [type |-> "created", from |-> None, to |-> "new", text |-> None,
                   run |-> None, since |-> 0]
  <2>1. e \in TicketEvent
    BY DEF TicketEvent, TicketStatus, Replies
  <2>2. AuditRows(e, None) = {Audit("ticket_created", None, Len(events) + 1)}
    BY DEF AuditRows, AuditOf
  <2>3. RecordsDecision(e)
    BY <1>1, <2>2 DEF create_ticket, RecordsDecision
  <2> QED
    BY <2>1, <2>3
<1>2. ASSUME NEW q \in Requests, RequestStep(q)
      PROVE  \/ UNCHANGED tableVars
             \/ \E e \in TicketEvent : RecordsDecision(e)
             \/ RecordsStart(q)
  <2>q. q \in Sessions
    BY DEF Sessions
  <2>1. CASE approve(q)
    <3> DEFINE e == Event(q, "approved", "approved", FinalText(q))
    <3>1. FinalText(q) \in Texts
      BY <2>1, FinalTextType DEF approve
    <3>2. e \in TicketEvent
      BY <2>q, <3>1, EventType DEF TicketStatus, Replies
    <3>3. e.type = "approved"
      BY DEF Event
    <3>4. AuditRows(e, None) = {Audit("response_approved", None, Len(events) + 1)}
      BY <3>3 DEF AuditRows, AuditOf
    <3>5. RecordsDecision(e)
      BY <2>1, <3>3, <3>4 DEF approve, RecordsDecision
    <3> QED
      BY <3>2, <3>5
  <2>2. CASE reject(q)
    <3> DEFINE e == Event(q, "rejected", "rejected", None)
    <3>1. e \in TicketEvent
      BY <2>q, EventType DEF TicketStatus, Replies
    <3>2. e.type = "rejected"
      BY DEF Event
    <3>3. AuditRows(e, None) = {Audit("response_rejected", None, Len(events) + 1)}
      BY <3>2 DEF AuditRows, AuditOf
    <3>4. RecordsDecision(e)
      BY <2>2, <3>2, <3>3 DEF reject, RecordsDecision
    <3> QED
      BY <3>1, <3>4
  <2>3. CASE edit_draft(q)
    <3> DEFINE e == Event(q, "edited", None, session[q].arg)
    <3>1. e \in TicketEvent
      BY <2>q, EventType DEF TypeOK, Session
    <3>2. e.type = "edited"
      BY DEF Event
    <3>3. AuditRows(e, None) = {}
      BY <3>2 DEF AuditRows, AuditOf
    <3>4. RecordsDecision(e)
      BY <2>3, <3>2, <3>3 DEF edit_draft, RecordsDecision
    <3> QED
      BY <3>1, <3>4
  <2>4. CASE start_run(q)
    BY <2>4, <2>q DEF start_run, RecordsStart, At, TypeOK, Session
  <2>5. CASE refuse(q) \/ dispatch_run(q) \/ Notify(q)
    BY <2>5 DEF refuse, dispatch_run, Notify, refresh_ticket, record_delivery,
                dispatch_delivery
  <2> QED
    BY <1>2, <2>1, <2>2, <2>3, <2>4, <2>5 DEF RequestStep
<1>3. ASSUME NEW w \in Workers, NEW result \in WorkflowResult, complete_run(w, result)
      PROVE  \E e \in TicketEvent : RecordsRun(e)
  <2> DEFINE e == Event(w, "agent_run", result.outcome, None)
  <2>w. w \in Sessions
    BY DEF Sessions
  <2>1. result.outcome \in {"waiting_approval", "escalated"}
    BY DEF WorkflowResult
  <2>2. e \in TicketEvent
    BY <2>w, <2>1, EventType DEF TicketStatus, Replies
  <2>3. e.type = "agent_run" /\ e.to = result.outcome /\ e.run = session[w].run
    BY DEF Event
  <2>4. AuditOf(e) = RunAudits(result.outcome)
    BY <2>3 DEF AuditOf, RunAudits
  <2>5. audit_logs' = audit_logs \cup AuditRows(e, e.run)
    BY <1>3, <2>3, <2>4 DEF complete_run, AuditRows
  <2>6. ~At(w, "idle")
    BY <1>3 DEF complete_run, At
  <2>7. agent_runs' = [agent_runs EXCEPT ![e.run].status = "completed",
                                         ![e.run].outcome = e.to]
    BY <1>3, <2>3 DEF complete_run
  <2>8. events' = Append(events, e)
    BY <1>3 DEF complete_run
  <2> HIDE DEF e
  <2>9. RecordsRun(e)
    BY <2>1, <2>3, <2>5, <2>6, <2>7, <2>8 DEF RecordsRun
  <2> QED
    BY <2>2, <2>9
<1>4. ASSUME NEW w \in Workers,
             (\E why \in {"workflow", "transition"} : fail_run(w, why)) \/ fail_late(w)
      PROVE  \E why \in {"workflow", "transition", "late"} : RecordsFailure(w, why)
  BY <1>4 DEF fail_run, fail_late, AfterCommit, RecordsFailure, At
<1>5. ASSUME NEW w \in Workers,
             \/ \E r \in Requests : receive_run(w, r)
             \/ refresh_run(w) \/ abandon_run(w)
             \/ Notify(w) \/ ack_run(w) \/ kill_child(w) \/ crash_worker(w)
      PROVE  UNCHANGED tableVars
  BY <1>5 DEF receive_run, Notify, refresh_ticket, record_delivery, dispatch_delivery,
              refresh_run, abandon_run, ack_run, kill_child, crash_worker
<1>6. ASSUME NEW q \in Requests,
             \/ \E op \in {"approve", "reject", "edit", "run"} :
                  \E arg \in Body(op) : load_ticket(q, op, arg)
             \/ abort_request(q)
      PROVE  UNCHANGED tableVars
  BY <1>6 DEF load_ticket, abort_request
<1>7. CASE upsert_config \/ UNCHANGED vars
  BY <1>7 DEF upsert_config, vars
<1> QED
  BY <1>1, <1>2, <1>3, <1>4, <1>5, <1>6, <1>7 DEF Next, WorkerStep, WorkerFault

-----------------------------------------------------------------------------
(* A run's results appear all or not at all *)

\* The history rows of the run r.
Steps(r) == {i \in DOMAIN events : events[i].type = "agent_run" /\ events[i].run = r}

LEMMA AtomicStep == TypeInv /\ RunsAtomic /\ [Next]_vars => RunsAtomic'
<1> SUFFICES ASSUME TypeInv, RunsAtomic, [Next]_vars, NEW r \in Requests
             PROVE  /\ agent_runs'[r].outcome # None <=> Steps(r)' # {}
                    /\ agent_runs'[r].status = "completed" => agent_runs'[r].outcome # None
                    /\ \A i \in Steps(r)' :
                         (\A j \in Steps(r)' : j <= i) => events'[i].to = agent_runs'[r].outcome
  BY DEF RunsAtomic, Steps
<1>1. /\ agent_runs \in [Requests -> AgentRun]
      /\ events \in Seq(TicketEvent)
  BY DEF TypeInv, TypeOK
<1>2. /\ agent_runs[r].outcome # None <=> Steps(r) # {}
      /\ agent_runs[r].status = "completed" => agent_runs[r].outcome # None
      /\ \A i \in Steps(r) :
           (\A j \in Steps(r) : j <= i) => events[i].to = agent_runs[r].outcome
  BY DEF RunsAtomic, Steps
<1>3. ASSUME UNCHANGED events,
             agent_runs'[r].outcome = agent_runs[r].outcome,
             agent_runs'[r].status = "completed" => agent_runs[r].status = "completed"
      PROVE  /\ agent_runs'[r].outcome # None <=> Steps(r)' # {}
             /\ agent_runs'[r].status = "completed" => agent_runs'[r].outcome # None
             /\ \A i \in Steps(r)' :
                  (\A j \in Steps(r)' : j <= i) => events'[i].to = agent_runs'[r].outcome
  BY <1>2, <1>3 DEF Steps
<1>4. CASE UNCHANGED tableVars
  BY <1>3, <1>4 DEF tableVars
<1>5. ASSUME NEW e \in TicketEvent, events' = Append(events, e)
      PROVE  /\ Steps(r)' = IF e.type = "agent_run" /\ e.run = r
                            THEN Steps(r) \cup {Len(events) + 1} ELSE Steps(r)
             /\ \A i \in Steps(r) : events'[i] = events[i] /\ i < Len(events) + 1
             /\ Len(events) \in Nat /\ events'[Len(events) + 1] = e
  <2>1. /\ DOMAIN events = 1..Len(events) /\ DOMAIN events' = 1..(Len(events) + 1)
        /\ Len(events) \in Nat
        /\ \A i \in 1..Len(events) : events'[i] = events[i]
        /\ events'[Len(events) + 1] = e
    BY <1>1, <1>5
  <2> QED
    BY <2>1 DEF Steps
<1>6. ASSUME NEW e \in TicketEvent, RecordsDecision(e)
      PROVE  /\ agent_runs'[r].outcome # None <=> Steps(r)' # {}
             /\ agent_runs'[r].status = "completed" => agent_runs'[r].outcome # None
             /\ \A i \in Steps(r)' :
                  (\A j \in Steps(r)' : j <= i) => events'[i].to = agent_runs'[r].outcome
  <2>1. UNCHANGED agent_runs /\ Steps(r)' = Steps(r)
        /\ \A i \in Steps(r) : events'[i] = events[i]
    BY <1>5, <1>6 DEF RecordsDecision
  <2> QED
    BY <1>2, <2>1
<1>7. ASSUME NEW e \in TicketEvent, RecordsRun(e)
      PROVE  /\ agent_runs'[r].outcome # None <=> Steps(r)' # {}
             /\ agent_runs'[r].status = "completed" => agent_runs'[r].outcome # None
             /\ \A i \in Steps(r)' :
                  (\A j \in Steps(r)' : j <= i) => events'[i].to = agent_runs'[r].outcome
  <2>1. /\ e.type = "agent_run" /\ events' = Append(events, e)
        /\ agent_runs' = [agent_runs EXCEPT ![e.run].status = "completed",
                                            ![e.run].outcome = e.to]
        /\ e.to # None
    BY <1>7, ConstantsAssumption DEF RecordsRun
  <2>2. CASE e.run = r
    <3>1. agent_runs'[r].outcome = e.to /\ agent_runs'[r].outcome # None
      BY <1>1, <2>1, <2>2 DEF AgentRun
    <3>2. Steps(r)' = Steps(r) \cup {Len(events) + 1}
      BY <1>5, <2>1, <2>2
    <3>3. \A i \in Steps(r) : ~(Len(events) + 1 <= i)
      <4>1. Steps(r) \subseteq 1..Len(events) /\ Len(events) \in Nat
        BY <1>1 DEF Steps
      <4> QED
        BY <4>1
    <3> QED
      BY <1>5, <2>1, <3>1, <3>2, <3>3
  <2>3. CASE e.run # r
    <3>1. agent_runs'[r] = agent_runs[r]
      BY <1>1, <2>1, <2>3
    <3>2. Steps(r)' = Steps(r) /\ \A i \in Steps(r) : events'[i] = events[i]
      BY <1>5, <2>1, <2>3
    <3> QED
      BY <1>2, <3>1, <3>2
  <2> QED
    BY <2>2, <2>3
<1>8. ASSUME NEW q \in Requests, RecordsStart(q)
      PROVE  /\ UNCHANGED events
             /\ agent_runs'[r].outcome = agent_runs[r].outcome
             /\ agent_runs'[r].status = "completed" => agent_runs[r].status = "completed"
  BY <1>1, <1>8 DEF RecordsStart, AgentRun
<1>9. ASSUME NEW w \in Workers, NEW why, RecordsFailure(w, why)
      PROVE  /\ UNCHANGED events
             /\ agent_runs'[r].outcome = agent_runs[r].outcome
             /\ agent_runs'[r].status = "completed" => agent_runs[r].status = "completed"
  BY <1>1, <1>9 DEF RecordsFailure, RunFailed, AgentRun
<1> QED
  BY <1>3, <1>4, <1>6, <1>7, <1>8, <1>9, StepRecords

\* A run has an outcome exactly when the history has a change made by it, and
\* the last of those made that outcome, whatever fails after the commit and
\* however often the broker redelivers (execute_run, commit then except).
THEOREM RunsAtomicCorrect == Spec => []RunsAtomic
<1>1. Init => RunsAtomic
  BY DEF Init, RunsAtomic
<1>2. TypeInv /\ RunsAtomic /\ [Next]_vars => (TypeInv /\ RunsAtomic)'
  BY TypeStep, AtomicStep
<1> QED
  BY <1>1, <1>2, TypeInit, PTL DEF Spec

-----------------------------------------------------------------------------
(* History and audit trail tell the same story *)

\* Every message, every handler that is about to publish one and every task
\* is about a run whose row exists.
HeldInv ==
  /\ \A r \in queue : agent_runs[r].status # "absent"
  /\ \A q \in Requests : At(q, "started") => agent_runs[q].status # "absent"
  /\ \A w \in Workers : ~At(w, "idle") => agent_runs[session[w].run].status # "absent"

AuditInv == TypeInv /\ HeldInv /\ AuditMatchesHistory

\* Where the messages and the tasks of a step come from.
LEMMA StepHolds ==
  ASSUME TypeInv, [Next]_vars
  PROVE  /\ \A r \in queue' :
              \/ r \in queue
              \/ r \in Requests /\ At(r, "started")
              \/ \E w \in Workers : ~At(w, "idle") /\ session[w].run = r
         /\ \A q \in Requests : At(q, "started")' =>
              At(q, "started") \/ agent_runs'[q].status = "running"
         /\ \A w \in Workers : ~At(w, "idle")' =>
              \/ ~At(w, "idle") /\ session'[w].run = session[w].run
              \/ session'[w].run \in queue
<1> DEFINE Q == \A r \in queue' :
                  \/ r \in queue
                  \/ r \in Requests /\ At(r, "started")
                  \/ \E w \in Workers : ~At(w, "idle") /\ session[w].run = r
           S == \A q \in Requests : At(q, "started")' =>
                  At(q, "started") \/ agent_runs'[q].status = "running"
           W == \A w \in Workers : ~At(w, "idle")' =>
                  \/ ~At(w, "idle") /\ session'[w].run = session[w].run
                  \/ session'[w].run \in queue
<1>t. /\ session \in [Sessions -> Session]
      /\ agent_runs \in [Requests -> AgentRun]
      /\ Requests \subseteq Sessions /\ Workers \subseteq Sessions
      /\ Requests \cap Workers = {}
  BY ConstantsAssumption DEF TypeInv, TypeOK, Sessions
<1>s. ASSUME NEW t \in Sessions, NEW v, session' = [session EXCEPT ![t] = v],
             v.pc # "started" \/ (t \in Requests /\ agent_runs'[t].status = "running"),
             t \in Workers /\ v.pc # "idle" =>
               \/ ~At(t, "idle") /\ v.run = session[t].run
               \/ v.run \in queue
      PROVE  S /\ W
  BY <1>t, <1>s DEF At
<1>f. \A t \in Sessions :
        /\ Finished(t).pc # "started" /\ Committed(t).pc # "started"
        /\ t \in Workers => Finished(t).run = session[t].run
        /\ Committed(t).run = session[t].run
  BY <1>t DEF Finished, Committed, Fresh, Session
<1>c. Fresh.pc = "idle"
  BY DEF Fresh
<1>1. ASSUME NEW t \in Sessions, Notify(t)
      PROVE  Q /\ S /\ W
  <2>0. session[t] \in Session
    BY <1>t
  <2>1. CASE refresh_ticket(t)
    <3> DEFINE v == [session[t] EXCEPT !.pc = "refreshed", !.seen = Row]
    <3>1. /\ session' = [session EXCEPT ![t] = v]
          /\ v.pc # "started" /\ v.run = session[t].run
          /\ ~At(t, "idle") /\ UNCHANGED queue
      BY <2>0, <2>1 DEF refresh_ticket, Session, At
    <3> HIDE DEF v
    <3> QED
      BY <1>s, <3>1
  <2>2. CASE record_delivery(t)
    <3> DEFINE v == [session[t] EXCEPT !.pc = "recorded", !.delivery = Len(deliveries) + 1]
    <3>1. /\ \/ session' = [session EXCEPT ![t] = v]
             \/ session' = [session EXCEPT ![t] = Finished(t)]
          /\ ~At(t, "idle") /\ UNCHANGED queue
      BY <2>2 DEF record_delivery, At
    <3>2. v.pc # "started" /\ v.run = session[t].run
      BY <2>0 DEF Session
    <3> HIDE DEF v
    <3> QED
      BY <1>f, <1>s, <3>1, <3>2
  <2>3. CASE dispatch_delivery(t)
    <3>1. /\ session' = [session EXCEPT ![t] = Finished(t)]
          /\ ~At(t, "idle") /\ UNCHANGED queue
      BY <2>3 DEF dispatch_delivery, At
    <3> QED
      BY <1>f, <1>s, <3>1
  <2> QED
    BY <1>1, <2>1, <2>2, <2>3 DEF Notify
<1>2. ASSUME NEW q \in Requests, NEW op, NEW arg, load_ticket(q, op, arg)
      PROVE  Q /\ S /\ W
  <2> DEFINE v == [Fresh EXCEPT !.pc = "loaded", !.op = op, !.arg = arg,
                                !.seen = Row, !.since = Len(events)]
  <2>1. session' = [session EXCEPT ![q] = v] /\ v.pc = "loaded" /\ UNCHANGED queue
    BY <1>2 DEF load_ticket, Fresh
  <2> HIDE DEF v
  <2> QED
    BY <1>s, <1>t, <2>1
<1>3. ASSUME NEW w \in Workers, NEW r \in Requests, receive_run(w, r)
      PROVE  Q /\ S /\ W
  <2> DEFINE v == [Fresh EXCEPT !.pc = "loaded", !.op = "execute", !.run = r,
                                !.seen = Row, !.since = Len(events)]
  <2>1. /\ session' = [session EXCEPT ![w] = v] /\ v.pc = "loaded" /\ v.run = r
        /\ r \in queue /\ queue' = queue \ {r}
    BY <1>3 DEF receive_run, Fresh
  <2> HIDE DEF v
  <2> QED
    BY <1>s, <1>t, <2>1
<1>4. ASSUME NEW q \in Requests, RequestStep(q) \/ abort_request(q)
      PROVE  Q /\ S /\ W
  <2>q. q \in Sessions /\ q \notin Workers
    BY <1>t
  <2>1. CASE approve(q)
    <3>1. session' = [session EXCEPT ![q] = Committed(q)] /\ UNCHANGED queue
      BY <2>1 DEF approve
    <3> QED
      BY <1>f, <1>s, <2>q, <3>1
  <2>2. CASE start_run(q)
    <3>1. /\ session' = [session EXCEPT ![q] = [session[q] EXCEPT !.pc = "started"]]
          /\ UNCHANGED queue
      BY <1>t, <2>2 DEF start_run
    <3>2. agent_runs'[q].status = "running"
      BY <1>t, <2>2 DEF start_run, AgentRun
    <3> QED
      BY <1>s, <2>q, <3>1, <3>2
  <2>3. CASE refuse(q) \/ reject(q) \/ edit_draft(q) \/ abort_request(q)
    <3>1. session' = [session EXCEPT ![q] = Finished(q)] /\ UNCHANGED queue
      BY <2>3 DEF refuse, reject, edit_draft, abort_request
    <3> QED
      BY <1>f, <1>s, <2>q, <3>1
  <2>4. CASE dispatch_run(q)
    <3>1. /\ session' = [session EXCEPT ![q] = Finished(q)]
          /\ At(q, "started") /\ queue' = queue \cup {q}
      BY <2>4 DEF dispatch_run
    <3>2. Q
      BY <3>1
    <3> QED
      BY <1>f, <1>s, <2>q, <3>1, <3>2
  <2> QED
    BY <1>1, <1>4, <2>q, <2>1, <2>2, <2>3, <2>4 DEF RequestStep
<1>5. ASSUME NEW w \in Workers, WorkerStep(w) \/ WorkerFault(w)
      PROVE  Q /\ S /\ W
  <2>w. w \in Sessions
    BY <1>t
  <2>1. ASSUME NEW result \in WorkflowResult, complete_run(w, result)
        PROVE  Q /\ S /\ W
    <3>1. /\ session' = [session EXCEPT ![w] = AfterRun(w, result.outcome)]
          /\ ~At(w, "idle") /\ UNCHANGED queue
      BY <2>1 DEF complete_run, At
    <3>2. LET v == [session[w] EXCEPT !.pc = "completed"]
          IN  v.pc # "started" /\ v.run = session[w].run
      BY <1>t, <2>w DEF Session
    <3>3. /\ AfterRun(w, result.outcome).pc # "started"
          /\ AfterRun(w, result.outcome).run = session[w].run
      BY <1>f, <2>w, <3>2 DEF AfterRun
    <3> QED
      BY <1>s, <2>w, <3>1, <3>3
  <2>2. CASE \/ (\E why \in {"workflow", "transition"} : fail_run(w, why))
             \/ refresh_run(w) \/ fail_late(w) \/ abandon_run(w)
    <3>1. /\ session' = [session EXCEPT ![w] = Finished(w)]
          /\ ~At(w, "idle") /\ UNCHANGED queue
      BY <2>2 DEF fail_run, refresh_run, fail_late, abandon_run, AfterCommit, At
    <3> QED
      BY <1>f, <1>s, <2>w, <3>1
  <2>3. CASE ack_run(w) \/ kill_child(w) \/ crash_worker(w)
    <3>1. /\ session' = [session EXCEPT ![w] = Fresh]
          /\ ~At(w, "idle") /\ queue' \subseteq queue \cup {session[w].run}
      BY <2>3 DEF ack_run, kill_child, crash_worker, At
    <3>2. Q
      BY <3>1
    <3> QED
      BY <1>c, <1>s, <2>w, <3>1, <3>2
  <2> QED
    BY <1>1, <1>5, <2>w, <2>1, <2>2, <2>3 DEF WorkerStep, WorkerFault
<1>6. CASE create_ticket \/ upsert_config \/ UNCHANGED vars
  BY <1>6 DEF create_ticket, upsert_config, vars, At
<1> QED
  BY <1>2, <1>3, <1>4, <1>5, <1>6 DEF Next

\* A run whose row exists keeps it.
LEMMA RunsStay ==
  ASSUME TypeInv, [Next]_vars, NEW r \in Requests, agent_runs[r].status # "absent"
  PROVE  agent_runs'[r].status # "absent"
<1>1. agent_runs \in [Requests -> AgentRun]
  BY DEF TypeInv, TypeOK
<1>2. CASE UNCHANGED agent_runs
  BY <1>2
<1>3. ASSUME NEW e \in TicketEvent, RecordsRun(e)
      PROVE  agent_runs'[r].status # "absent"
  BY <1>1, <1>3 DEF RecordsRun, AgentRun
<1>4. ASSUME NEW q \in Requests, RecordsStart(q)
      PROVE  agent_runs'[r].status # "absent"
  BY <1>1, <1>4 DEF RecordsStart, AgentRun
<1>5. ASSUME NEW w \in Workers, NEW why, RecordsFailure(w, why)
      PROVE  agent_runs'[r].status # "absent"
  BY <1>1, <1>5 DEF RecordsFailure, RunFailed, AgentRun
<1> QED
  BY <1>2, <1>3, <1>4, <1>5, StepRecords DEF tableVars, RecordsDecision

LEMMA HeldStep == TypeInv /\ HeldInv /\ [Next]_vars => HeldInv'
<1> SUFFICES ASSUME TypeInv, HeldInv, [Next]_vars PROVE HeldInv'
  OBVIOUS
<1>1. /\ queue \subseteq Requests /\ queue' \subseteq Requests
      /\ \A w \in Workers : ~At(w, "idle") => session[w].run \in Requests
      /\ \A w \in Workers : ~At(w, "idle")' => session'[w].run \in Requests
  BY TypeStep DEF TypeInv, TypeOK, WorkersHoldRuns, At
<1>2. ASSUME NEW r \in queue'
      PROVE  agent_runs'[r].status # "absent"
  BY <1>1, StepHolds, RunsStay DEF HeldInv
<1>3. ASSUME NEW q \in Requests, At(q, "started")'
      PROVE  agent_runs'[q].status # "absent"
  BY <1>3, StepHolds, RunsStay DEF HeldInv
<1>4. ASSUME NEW w \in Workers, ~At(w, "idle")'
      PROVE  agent_runs'[session'[w].run].status # "absent"
  BY <1>1, <1>4, StepHolds, RunsStay DEF HeldInv
<1> QED
  BY <1>2, <1>3, <1>4 DEF HeldInv

\* What the audit rows of a history row look like.
LEMMA AuditRowsAt ==
  ASSUME NEW e, NEW r
  PROVE  /\ \A a \in AuditRows(e, r) : a.at = Len(events) + 1
         /\ {a.event : a \in AuditRows(e, r)} = AuditOf(e)
<1>1. \A a \in AuditRows(e, r) : a.at = Len(events) + 1 /\ a.event \in AuditOf(e)
  BY DEF AuditRows, Audit
<1>2. ASSUME NEW k \in AuditOf(e)
      PROVE  \E a \in AuditRows(e, r) : a.event = k
  <2>1. Audit(k, r, Len(events) + 1) \in AuditRows(e, r)
    BY DEF AuditRows
  <2> QED
    BY <2>1 DEF Audit
<1> QED
  BY <1>1, <1>2

\* A history row comes with exactly its audit rows.
LEMMA AuditAppend ==
  ASSUME TypeInv, AuditMatchesHistory, NEW e \in TicketEvent, NEW r \in Requests \cup {None},
         events' = Append(events, e),
         audit_logs' = audit_logs \cup AuditRows(e, r)
  PROVE  /\ \A i \in DOMAIN events' :
              {a.event : a \in {b \in audit_logs' : b.at = i}} = AuditOf(events'[i])
         /\ \A a \in audit_logs' : a.at = 0 \/ a.at \in DOMAIN events'
         /\ \A q \in Requests :
              Audit("agent_run_started", q, 0) \in audit_logs'
                <=> Audit("agent_run_started", q, 0) \in audit_logs
<1> DEFINE n == Len(events)
           new == AuditRows(e, r)
<1>1. /\ n \in Nat /\ DOMAIN events = 1..n /\ DOMAIN events' = 1..(n + 1)
      /\ \A i \in 1..n : events'[i] = events[i]
      /\ events'[n + 1] = e
  BY DEF TypeInv, TypeOK
<1>2. /\ \A a \in new : a.at = n + 1
      /\ {a.event : a \in new} = AuditOf(e)
  BY AuditRowsAt
<1>3. \A a \in audit_logs : a.at = 0 \/ a.at \in 1..n
  BY <1>1 DEF AuditMatchesHistory
<1> HIDE DEF n, new
<1>4. audit_logs' = audit_logs \cup new
  BY DEF new
<1>5. ASSUME NEW i \in 1..(n + 1)
      PROVE  {a.event : a \in {b \in audit_logs' : b.at = i}} = AuditOf(events'[i])
  <2>1. CASE i = n + 1
    <3>1. {b \in audit_logs' : b.at = i} = new
      BY <1>1, <1>2, <1>3, <1>4, <2>1
    <3> QED
      BY <1>1, <1>2, <2>1, <3>1
  <2>2. CASE i \in 1..n
    <3>1. {b \in audit_logs' : b.at = i} = {b \in audit_logs : b.at = i}
      BY <1>1, <1>2, <1>4, <2>2
    <3>2. {a.event : a \in {b \in audit_logs : b.at = i}} = AuditOf(events[i])
      BY <1>1, <2>2 DEF AuditMatchesHistory
    <3> QED
      BY <1>1, <2>2, <3>1, <3>2
  <2> QED
    BY <1>1, <2>1, <2>2
<1>6. \A a \in audit_logs' : a.at = 0 \/ a.at \in 1..(n + 1)
  BY <1>1, <1>2, <1>3, <1>4
<1>7. \A q \in Requests : Audit("agent_run_started", q, 0) \notin new
  BY <1>1, <1>2 DEF Audit
<1> QED
  BY <1>1, <1>4, <1>5, <1>6, <1>7

LEMMA AuditStep == AuditInv /\ [Next]_vars => AuditInv'
<1> SUFFICES ASSUME AuditInv, [Next]_vars PROVE AuditMatchesHistory'
  BY TypeStep, HeldStep DEF AuditInv
<1> USE DEF AuditInv
<1>t. /\ agent_runs \in [Requests -> AgentRun]
      /\ \A w \in Workers : ~At(w, "idle") =>
           session[w].run \in Requests /\ agent_runs[session[w].run].status # "absent"
  BY DEF TypeInv, TypeOK, WorkersHoldRuns, At, HeldInv
<1>1. CASE UNCHANGED tableVars
  BY <1>1 DEF tableVars, AuditMatchesHistory
<1>2. ASSUME NEW e \in TicketEvent, RecordsDecision(e)
      PROVE  AuditMatchesHistory'
  <2>1. /\ events' = Append(events, e) /\ UNCHANGED agent_runs
        /\ audit_logs' = audit_logs \cup AuditRows(e, None)
    BY <1>2 DEF RecordsDecision
  <2>2. \A q \in Requests :
          agent_runs'[q].status # "absent" <=> Audit("agent_run_started", q, 0) \in audit_logs
    BY <2>1 DEF AuditMatchesHistory
  <2> QED
    BY <2>1, <2>2, AuditAppend DEF AuditMatchesHistory
<1>3. ASSUME NEW e \in TicketEvent, RecordsRun(e)
      PROVE  AuditMatchesHistory'
  <2>1. /\ events' = Append(events, e)
        /\ audit_logs' = audit_logs \cup AuditRows(e, e.run)
        /\ agent_runs' = [agent_runs EXCEPT ![e.run].status = "completed",
                                            ![e.run].outcome = e.to]
        /\ e.run \in Requests /\ agent_runs[e.run].status # "absent"
    BY <1>t, <1>3 DEF RecordsRun
  <2>2. \A q \in Requests :
          agent_runs'[q].status # "absent" <=> agent_runs[q].status # "absent"
    BY <1>t, <2>1 DEF AgentRun
  <2>3. \A q \in Requests :
          agent_runs'[q].status # "absent" <=> Audit("agent_run_started", q, 0) \in audit_logs
    BY <2>2 DEF AuditMatchesHistory
  <2> QED
    BY <2>1, <2>3, AuditAppend DEF AuditMatchesHistory
<1>4. ASSUME NEW q \in Requests, RecordsStart(q)
      PROVE  AuditMatchesHistory'
  <2> DEFINE new == Audit("agent_run_started", q, 0)
  <2>1. /\ audit_logs' = audit_logs \cup {new} /\ UNCHANGED events
        /\ agent_runs' = [agent_runs EXCEPT ![q].status = "running"]
    BY <1>4 DEF RecordsStart
  <2>2. new.at = 0
    BY DEF Audit
  <2>3. \A r \in Requests : Audit("agent_run_started", r, 0) = new => r = q
    BY DEF Audit
  <2>4. \A r \in Requests :
          agent_runs'[r].status # "absent" <=> r = q \/ agent_runs[r].status # "absent"
    BY <1>t, <2>1 DEF AgentRun
  <2>5. \A i \in DOMAIN events : {b \in audit_logs' : b.at = i} = {b \in audit_logs : b.at = i}
    <3>1. \A i \in DOMAIN events : i # 0
      BY DEF TypeInv, TypeOK
    <3> QED
      BY <2>1, <2>2, <3>1
  <2> HIDE DEF new
  <2>6. \A i \in DOMAIN events' :
          {a.event : a \in {b \in audit_logs' : b.at = i}} = AuditOf(events'[i])
    BY <2>1, <2>5 DEF AuditMatchesHistory
  <2>7. \A a \in audit_logs' : a.at = 0 \/ a.at \in DOMAIN events'
    BY <2>1, <2>2 DEF AuditMatchesHistory
  <2>8. \A r \in Requests :
          agent_runs'[r].status # "absent" <=> Audit("agent_run_started", r, 0) \in audit_logs'
    BY <2>1, <2>3, <2>4 DEF AuditMatchesHistory, new
  <2> QED
    BY <2>6, <2>7, <2>8 DEF AuditMatchesHistory
<1>5. ASSUME NEW w \in Workers, NEW why \in {"workflow", "transition", "late"},
             RecordsFailure(w, why)
      PROVE  AuditMatchesHistory'
  <2>1. \A q \in Requests :
          agent_runs'[q].status # "absent" <=> agent_runs[q].status # "absent"
    BY <1>t, <1>5 DEF RecordsFailure, RunFailed, AgentRun
  <2> QED
    BY <1>5, <2>1 DEF RecordsFailure, AuditMatchesHistory
<1> QED
  BY <1>1, <1>2, <1>3, <1>4, <1>5, StepRecords DEF AuditInv

\* The history and the audit trail are never apart, whatever interleaves, dies
\* or is redelivered: a history row is accompanied by exactly its audit rows,
\* an audit row belongs to a history row or to a run's start, and a start is
\* audited exactly when the run's row exists (audit_service.record before
\* each commit).  It does not say that what a run did is audited: the rows of a
\* run that is rolled back are gone, see WorkAudited.
THEOREM AuditCorrect == Spec => []AuditMatchesHistory
<1>1. Init => AuditInv
  <2> SUFFICES ASSUME Init PROVE HeldInv /\ AuditMatchesHistory
    BY TypeInit DEF AuditInv
  <2> QED
    BY DEF Init, HeldInv, AuditMatchesHistory, At, Fresh, Sessions
<1>2. AuditInv => AuditMatchesHistory
  BY DEF AuditInv
<1> QED
  BY <1>1, <1>2, AuditStep, PTL DEF Spec

-----------------------------------------------------------------------------
(* Notifications are about decisions *)

\* A session that has committed a decision and owes a delivery for it.
Owes(s) == At(s, "committed") \/ At(s, "refreshed")

\* The history row i is a decision that s, handler or task, notifies.
Announces(s, i) ==
  /\ i \in DOMAIN events
  /\ IF s \in Requests
     THEN events[i].type = "approved"
     ELSE events[i].type = "agent_run" /\ events[i].to = "escalated"

\* A delivery that is owed is about a decision nobody else announces or has
\* announced, and once a reply was approved the row a handler refreshes has one.
OwedInv ==
  /\ \A s \in Sessions : Owes(s) =>
       /\ Announces(s, session[s].cause)
       /\ \A t \in Sessions : Owes(t) /\ session[t].cause = session[s].cause => t = s
       /\ \A d \in DOMAIN deliveries : deliveries[d].cause # session[s].cause
  /\ \A q \in Requests : At(q, "refreshed") => session[q].seen.final # None
  /\ ApprovedTexts # {} => final_response # None

NotifyInv == GateInv /\ OwedInv /\ NotificationsJustified

\* The session s commits a decision that has to be announced.
Decides(s) ==
  /\ \E e \in TicketEvent :
       /\ events' = Append(events, e)
       /\ IF s \in Requests
          THEN e.type = "approved"
          ELSE e.type = "agent_run" /\ e.to = "escalated"
  /\ session' = [session EXCEPT ![s] = Committed(s)]
  /\ UNCHANGED deliveries

LEMMA StepNotifies ==
  ASSUME TypeInv, [Next]_vars
  PROVE  \/ /\ UNCHANGED deliveries
            /\ \A s \in Sessions : Owes(s)' => session'[s] = session[s]
         \/ \E s \in Sessions : Decides(s)
         \/ \E s \in Sessions : Notify(s)
<1> DEFINE Quiet == /\ UNCHANGED deliveries
                    /\ \A s \in Sessions : Owes(s)' => session'[s] = session[s]
<1>t. /\ session \in [Sessions -> Session]
      /\ Requests \subseteq Sessions /\ Workers \subseteq Sessions
      /\ Requests \cap Workers = {}
  BY ConstantsAssumption DEF TypeInv, TypeOK, Sessions
<1>s. ASSUME NEW t \in Sessions, NEW v, session' = [session EXCEPT ![t] = v],
             v.pc \notin {"committed", "refreshed"}, UNCHANGED deliveries
      PROVE  Quiet
  BY <1>t, <1>s DEF Owes, At
<1>f. \A t \in Sessions : Finished(t).pc \notin {"committed", "refreshed"}
  BY DEF Finished, Fresh
<1>1. ASSUME NEW q \in Requests, NEW op, NEW arg, load_ticket(q, op, arg)
      PROVE  Quiet
  <2> DEFINE v == [Fresh EXCEPT !.pc = "loaded", !.op = op, !.arg = arg,
                                !.seen = Row, !.since = Len(events)]
  <2>1. session' = [session EXCEPT ![q] = v] /\ v.pc = "loaded" /\ UNCHANGED deliveries
    BY <1>1 DEF load_ticket, Fresh
  <2> HIDE DEF v
  <2> QED
    BY <1>s, <1>t, <2>1
<1>2. ASSUME NEW w \in Workers, NEW r \in Requests, receive_run(w, r)
      PROVE  Quiet
  <2> DEFINE v == [Fresh EXCEPT !.pc = "loaded", !.op = "execute", !.run = r,
                                !.seen = Row, !.since = Len(events)]
  <2>1. session' = [session EXCEPT ![w] = v] /\ v.pc = "loaded" /\ UNCHANGED deliveries
    BY <1>2 DEF receive_run, Fresh
  <2> HIDE DEF v
  <2> QED
    BY <1>s, <1>t, <2>1
<1>3. ASSUME NEW q \in Requests, RequestStep(q) \/ abort_request(q)
      PROVE  Quiet \/ Decides(q) \/ Notify(q)
  <2>q. q \in Sessions
    BY <1>t
  <2>1. CASE approve(q)
    <3> DEFINE e == Event(q, "approved", "approved", FinalText(q))
    <3>1. FinalText(q) \in Texts
      BY <2>1, FinalTextType DEF approve, TypeInv
    <3>2. e \in TicketEvent
      BY <2>q, <3>1, EventType DEF TicketStatus, Replies, TypeInv
    <3>3. e.type = "approved" /\ events' = Append(events, e)
      BY <2>1 DEF Event, approve
    <3> QED
      BY <2>1, <3>2, <3>3 DEF approve, Decides
  <2>2. CASE start_run(q)
    <3>1. /\ session' = [session EXCEPT ![q] = [session[q] EXCEPT !.pc = "started"]]
          /\ [session[q] EXCEPT !.pc = "started"].pc = "started"
          /\ UNCHANGED deliveries
      BY <1>t, <2>q, <2>2 DEF start_run, Session
    <3> QED
      BY <1>s, <2>q, <3>1
  <2>3. CASE \/ refuse(q) \/ reject(q) \/ edit_draft(q) \/ dispatch_run(q)
             \/ abort_request(q)
    <3>1. session' = [session EXCEPT ![q] = Finished(q)] /\ UNCHANGED deliveries
      BY <2>3 DEF refuse, reject, edit_draft, dispatch_run, abort_request
    <3> QED
      BY <1>f, <1>s, <2>q, <3>1
  <2> QED
    BY <1>3, <2>1, <2>2, <2>3 DEF RequestStep
<1>4. ASSUME NEW w \in Workers, WorkerStep(w) \/ WorkerFault(w)
      PROVE  Quiet \/ Decides(w) \/ Notify(w)
  <2>w. w \in Sessions /\ w \notin Requests
    BY <1>t
  <2>1. ASSUME NEW result \in WorkflowResult, complete_run(w, result)
        PROVE  Quiet \/ Decides(w)
    <3> DEFINE e == Event(w, "agent_run", result.outcome, None)
    <3>1. result.outcome \in {"waiting_approval", "escalated"}
      BY DEF WorkflowResult
    <3>2. e \in TicketEvent
      BY <2>w, <3>1, EventType DEF TicketStatus, Replies, TypeInv
    <3>3. e.type = "agent_run" /\ e.to = result.outcome
      BY DEF Event
    <3>4. /\ events' = Append(events, e) /\ UNCHANGED deliveries
          /\ session' = [session EXCEPT ![w] = AfterRun(w, result.outcome)]
      BY <2>1 DEF complete_run
    <3>5. CASE result.outcome = "escalated"
      BY <2>w, <3>2, <3>3, <3>4, <3>5 DEF AfterRun, Decides
    <3>6. CASE result.outcome # "escalated"
      <4> DEFINE v == [session[w] EXCEPT !.pc = "completed"]
      <4>1. session' = [session EXCEPT ![w] = v]
        BY <3>4, <3>6 DEF AfterRun
      <4>2. v.pc = "completed"
        BY <1>t, <2>w DEF Session
      <4> HIDE DEF v
      <4> QED
        BY <1>s, <2>w, <3>4, <4>1, <4>2
    <3> QED
      BY <3>5, <3>6
  <2>2. CASE \/ (\E why \in {"workflow", "transition"} : fail_run(w, why))
             \/ refresh_run(w) \/ fail_late(w) \/ abandon_run(w)
    <3>1. session' = [session EXCEPT ![w] = Finished(w)] /\ UNCHANGED deliveries
      BY <2>2 DEF fail_run, refresh_run, fail_late, abandon_run, AfterCommit
    <3> QED
      BY <1>f, <1>s, <2>w, <3>1
  <2>3. CASE ack_run(w) \/ kill_child(w) \/ crash_worker(w)
    <3>1. session' = [session EXCEPT ![w] = Fresh] /\ UNCHANGED deliveries
      BY <2>3 DEF ack_run, kill_child, crash_worker
    <3>2. Fresh.pc = "idle"
      BY DEF Fresh
    <3> QED
      BY <1>s, <2>w, <3>1, <3>2
  <2> QED
    BY <1>4, <2>1, <2>2, <2>3 DEF WorkerStep, WorkerFault
<1>5. CASE create_ticket \/ upsert_config \/ UNCHANGED vars
  BY <1>5 DEF create_ticket, upsert_config, vars
<1> QED
  BY <1>1, <1>2, <1>3, <1>4, <1>5, <1>t DEF Next

\* Rows of the history stay where they are.
LEMMA HistoryKept ==
  ASSUME TypeInv, [Next]_vars
  PROVE  \A i \in DOMAIN events : i \in DOMAIN events' /\ events'[i] = events[i]
<1>1. ASSUME NEW e \in TicketEvent, events' = Append(events, e)
      PROVE  \A i \in DOMAIN events : i \in DOMAIN events' /\ events'[i] = events[i]
  BY <1>1 DEF TypeInv, TypeOK
<1> QED
  BY <1>1, StepWrites DEF Writes

\* Once a reply was approved there is a final response, and there stays one.
LEMMA FinalStays ==
  ASSUME GateInv, OwedInv, [Next]_vars
  PROVE  ApprovedTexts' # {} => final_response' # None
<1> USE DEF GateInv
<1>1. CASE UNCHANGED <<status, final_response, events>>
  BY <1>1 DEF OwedInv, ApprovedTexts
<1>2. ASSUME NEW e \in TicketEvent, Writes(e)
      PROVE  ApprovedTexts' # {} => final_response' # None
  <2>1. ApprovedTexts' = ApprovedTexts \cup (IF e.type = "approved" THEN {e.text} ELSE {})
    BY <1>2, ApprovedTextsGrow DEF Writes
  <2>2. CASE e.type = "approved"
    <3>1. e.text \in Texts /\ e.text # None
      BY <1>2, <2>2, ConstantsAssumption DEF Writes
    <3> QED
      BY <1>2, <2>2, <3>1 DEF Writes, SeenFinalKept
  <2>3. CASE e.type # "approved"
    BY <1>2, <2>1, <2>3 DEF Writes, OwedInv
  <2> QED
    BY <2>2, <2>3
<1> QED
  BY <1>1, <1>2, StepWrites

\* Each step keeps what is owed and what was announced.
LEMMA OwedStep ==
  ASSUME NotifyInv, [Next]_vars
  PROVE  OwedInv' /\ NotificationsJustified'
<1> USE DEF NotifyInv, GateInv
<1>t. /\ session \in [Sessions -> Session]
      /\ events \in Seq(TicketEvent) /\ Len(events) \in Nat
      /\ deliveries \in Seq(WebhookDelivery)
      /\ Requests \subseteq Sessions
  BY DEF TypeInv, TypeOK, Sessions
<1>h. \A i \in DOMAIN events : i \in DOMAIN events' /\ events'[i] = events[i]
  BY HistoryKept
<1>a. \A s \in Sessions : \A i : Announces(s, i) => Announces(s, i)'
  BY <1>h DEF Announces
<1>f. ApprovedTexts' # {} => final_response' # None
  BY FinalStays
<1>j. ASSUME NEW d \in DOMAIN deliveries
      PROVE  /\ deliveries[d].cause \in DOMAIN events'
             /\ IF deliveries[d].event = "ticket.approved"
                THEN /\ events'[deliveries[d].cause].type = "approved"
                     /\ deliveries[d].final # None
                ELSE /\ events'[deliveries[d].cause].type = "agent_run"
                     /\ events'[deliveries[d].cause].to = "escalated"
             /\ \A e \in DOMAIN deliveries : deliveries[e].cause = deliveries[d].cause => e = d
  BY <1>h DEF NotificationsJustified
<1>k. UNCHANGED deliveries => NotificationsJustified'
  BY <1>j DEF NotificationsJustified
<1>o. ASSUME NEW s \in Sessions, Owes(s)
      PROVE  /\ Announces(s, session[s].cause)
             /\ \A t \in Sessions : Owes(t) /\ session[t].cause = session[s].cause => t = s
             /\ \A d \in DOMAIN deliveries : deliveries[d].cause # session[s].cause
  BY <1>o DEF OwedInv
<1>1. ASSUME UNCHANGED deliveries,
             \A s \in Sessions : Owes(s)' => session'[s] = session[s]
      PROVE  OwedInv' /\ NotificationsJustified'
  <2>1. \A s \in Sessions : Owes(s)' =>
          Owes(s) /\ session'[s].cause = session[s].cause
    BY <1>1 DEF Owes, At
  <2>2. \A q \in Requests : At(q, "refreshed")' => session'[q].seen.final # None
    BY <1>1, <1>t DEF OwedInv, Owes, At
  <2>3. ASSUME NEW s \in Sessions, Owes(s)'
        PROVE  /\ Announces(s, session[s].cause)'
               /\ \A t \in Sessions : Owes(t)' /\ session'[t].cause = session'[s].cause => t = s
               /\ \A d \in DOMAIN deliveries' : deliveries'[d].cause # session'[s].cause
    <3>1. Owes(s) /\ session'[s].cause = session[s].cause
      BY <2>1, <2>3
    <3>2. Announces(s, session[s].cause)'
      BY <1>a, <1>o, <3>1 DEF Announces
    <3> QED
      BY <1>1, <1>o, <2>1, <3>1, <3>2
  <2> QED
    BY <1>1, <1>f, <1>k, <2>2, <2>3 DEF OwedInv, Sessions
<1>2. ASSUME NEW s \in Sessions, Decides(s)
      PROVE  OwedInv' /\ NotificationsJustified'
  <2> DEFINE n == Len(events) + 1
  <2>1. PICK e \in TicketEvent :
          /\ events' = Append(events, e)
          /\ IF s \in Requests
             THEN e.type = "approved"
             ELSE e.type = "agent_run" /\ e.to = "escalated"
    BY <1>2 DEF Decides
  <2>2. /\ n \in DOMAIN events' /\ events'[n] = e
        /\ n \notin DOMAIN events
    BY <1>t, <2>1
  <2>3. /\ session'[s].pc = "committed" /\ session'[s].cause = n
        /\ \A t \in Sessions \ {s} : session'[t] = session[t]
        /\ UNCHANGED deliveries
    BY <1>2, <1>t DEF Decides, Committed, Session
  <2>4. \A t \in Sessions \ {s} : Owes(t)' => Owes(t) /\ session'[t].cause = session[t].cause
    BY <2>3 DEF Owes, At
  <2>5. \A t \in Sessions : Owes(t) => session[t].cause # n
    BY <1>o, <2>2 DEF Announces
  <2>6. \A d \in DOMAIN deliveries : deliveries[d].cause # n
    BY <2>2 DEF NotificationsJustified
  <2>7. \A q \in Requests : At(q, "refreshed")' => session'[q].seen.final # None
    BY <1>t, <2>3 DEF OwedInv, At
  <2>8. ASSUME NEW t \in Sessions, Owes(t)'
        PROVE  /\ Announces(t, session[t].cause)'
               /\ \A u \in Sessions : Owes(u)' /\ session'[u].cause = session'[t].cause => u = t
               /\ \A d \in DOMAIN deliveries' : deliveries'[d].cause # session'[t].cause
    <3>1. CASE t = s
      <4>1. Announces(t, session[t].cause)'
        BY <2>1, <2>2, <2>3, <3>1 DEF Announces
      <4> QED
        BY <2>3, <2>4, <2>5, <2>6, <3>1, <4>1
    <3>2. CASE t # s
      <4>1. Owes(t) /\ session'[t].cause = session[t].cause
        BY <2>4, <2>8, <3>2
      <4>2. Announces(t, session[t].cause)'
        BY <1>a, <1>o, <4>1 DEF Announces
      <4> QED
        BY <1>o, <2>3, <2>4, <2>5, <4>1, <4>2
    <3> QED
      BY <3>1, <3>2
  <2> QED
    BY <1>f, <1>k, <2>3, <2>7, <2>8 DEF OwedInv, Sessions
<1>3. ASSUME NEW s \in Sessions, refresh_ticket(s)
      PROVE  OwedInv' /\ NotificationsJustified'
  <2>1. /\ At(s, "committed")
        /\ session'[s].pc = "refreshed" /\ session'[s].cause = session[s].cause
        /\ session'[s].seen.final = final_response
        /\ \A t \in Sessions \ {s} : session'[t] = session[t]
        /\ UNCHANGED <<deliveries, events, final_response>>
    BY <1>3, <1>t DEF refresh_ticket, Session, Row, ticketVars, tableVars
  <2>2. \A t \in Sessions : Owes(t)' => Owes(t) /\ session'[t].cause = session[t].cause
    BY <2>1 DEF Owes, At
  <2>3. s \in Requests => final_response # None
    <3>1. Announces(s, session[s].cause)
      BY <1>o, <2>1 DEF Owes
    <3>2. s \in Requests => ApprovedTexts # {}
      BY <3>1 DEF Announces, ApprovedTexts
    <3> QED
      BY <3>2 DEF OwedInv
  <2>4. \A q \in Requests : At(q, "refreshed")' => session'[q].seen.final # None
    BY <1>t, <2>1, <2>3 DEF OwedInv, At
  <2>5. ASSUME NEW t \in Sessions, Owes(t)'
        PROVE  /\ Announces(t, session[t].cause)'
               /\ \A u \in Sessions : Owes(u)' /\ session'[u].cause = session'[t].cause => u = t
               /\ \A d \in DOMAIN deliveries' : deliveries'[d].cause # session'[t].cause
    <3>1. Owes(t) /\ session'[t].cause = session[t].cause
      BY <2>2, <2>5
    <3>2. Announces(t, session[t].cause)'
      BY <1>a, <1>o, <3>1 DEF Announces
    <3> QED
      BY <1>o, <2>1, <2>2, <3>1, <3>2
  <2> QED
    BY <1>f, <1>k, <2>1, <2>4, <2>5 DEF OwedInv, Sessions
<1>4. ASSUME NEW s \in Sessions, record_delivery(s)
      PROVE  OwedInv' /\ NotificationsJustified'
  <2>1. /\ At(s, "refreshed") /\ ~Owes(s)'
        /\ \A t \in Sessions \ {s} : session'[t] = session[t]
        /\ UNCHANGED events
    <3>1. At(s, "refreshed") /\ UNCHANGED events
      BY <1>4 DEF record_delivery, tableVars
    <3>2. PICK v : session' = [session EXCEPT ![s] = v] /\ v.pc \notin {"committed", "refreshed"}
      <4>1. [session[s] EXCEPT !.pc = "recorded", !.delivery = Len(deliveries) + 1].pc = "recorded"
        BY <1>t DEF Session
      <4>2. Finished(s).pc \notin {"committed", "refreshed"}
        BY DEF Finished, Fresh
      <4>3. \/ session' = [session EXCEPT ![s] =
                  [session[s] EXCEPT !.pc = "recorded", !.delivery = Len(deliveries) + 1]]
            \/ session' = [session EXCEPT ![s] = Finished(s)]
        BY <1>4 DEF record_delivery
      <4> QED
        BY <4>1, <4>2, <4>3
    <3> QED
      BY <1>t, <3>1, <3>2 DEF Owes, At
  <2>2. \A t \in Sessions : Owes(t)' =>
          t # s /\ Owes(t) /\ session'[t].cause = session[t].cause
    BY <2>1 DEF Owes, At
  <2>3. \A q \in Requests : At(q, "refreshed")' => session'[q].seen.final # None
    BY <1>t, <2>1 DEF OwedInv, Owes, At
  <2>4. /\ Announces(s, session[s].cause)
        /\ \A t \in Sessions : Owes(t) /\ session[t].cause = session[s].cause => t = s
        /\ \A d \in DOMAIN deliveries : deliveries[d].cause # session[s].cause
        /\ s \in Requests => session[s].seen.final # None
    BY <1>o, <2>1 DEF Owes, OwedInv
  <2>5. ASSUME \A d \in DOMAIN deliveries' :
                 \/ d \in DOMAIN deliveries /\ deliveries'[d] = deliveries[d]
                 \/ deliveries'[d].cause = session[s].cause,
               NEW t \in Sessions, Owes(t)'
        PROVE  /\ Announces(t, session[t].cause)'
               /\ \A u \in Sessions : Owes(u)' /\ session'[u].cause = session'[t].cause => u = t
               /\ \A d \in DOMAIN deliveries' : deliveries'[d].cause # session'[t].cause
    <3>1. t # s /\ Owes(t) /\ session'[t].cause = session[t].cause
      BY <2>2, <2>5
    <3>2. Announces(t, session[t].cause)'
      BY <1>a, <1>o, <3>1 DEF Announces
    <3>3. session[t].cause # session[s].cause
      BY <2>4, <3>1
    <3> QED
      BY <1>o, <2>2, <2>5, <3>1, <3>2, <3>3
  <2>6. CASE UNCHANGED deliveries
    BY <1>f, <1>k, <2>3, <2>5, <2>6 DEF OwedInv, Sessions
  <2>7. CASE webhook_active
    <3> DEFINE new == [event |-> IF s \in Requests THEN "ticket.approved" ELSE "ticket.escalated",
                       status |-> session[s].seen.status, final |-> session[s].seen.final,
                       cause |-> session[s].cause, dispatched |-> FALSE]
               n == Len(deliveries)
    <3>1. /\ deliveries' = Append(deliveries, new)
          /\ new.cause = session[s].cause /\ new.final = session[s].seen.final
          /\ new.event = IF s \in Requests THEN "ticket.approved" ELSE "ticket.escalated"
      BY <1>4, <2>7 DEF record_delivery
    <3> HIDE DEF new
    <3>2. /\ DOMAIN deliveries = 1..n /\ DOMAIN deliveries' = 1..(n + 1) /\ n \in Nat
          /\ \A d \in 1..n : deliveries'[d] = deliveries[d]
          /\ deliveries'[n + 1] = new
      BY <1>t, <3>1
    <3> HIDE DEF n
    <3>3. OwedInv'
      <4>1. \A d \in DOMAIN deliveries' :
              \/ d \in DOMAIN deliveries /\ deliveries'[d] = deliveries[d]
              \/ deliveries'[d].cause = session[s].cause
        BY <3>1, <3>2
      <4> QED
        BY <1>f, <2>3, <2>5, <4>1 DEF OwedInv, Sessions
    <3>4. ASSUME NEW d \in DOMAIN deliveries'
          PROVE  /\ deliveries'[d].cause \in DOMAIN events'
                 /\ IF deliveries'[d].event = "ticket.approved"
                    THEN /\ events'[deliveries'[d].cause].type = "approved"
                         /\ deliveries'[d].final # None
                    ELSE /\ events'[deliveries'[d].cause].type = "agent_run"
                         /\ events'[deliveries'[d].cause].to = "escalated"
                 /\ \A e \in DOMAIN deliveries' :
                      deliveries'[e].cause = deliveries'[d].cause => e = d
      <4>1. CASE d = n + 1
        <5>1. /\ new.cause \in DOMAIN events
              /\ IF s \in Requests
                 THEN events[new.cause].type = "approved" /\ new.final # None
                 ELSE events[new.cause].type = "agent_run" /\ events[new.cause].to = "escalated"
          BY <2>4, <3>1 DEF Announces
        <5>2. \A e \in 1..n : deliveries'[e].cause # new.cause
          BY <2>4, <3>1, <3>2
        <5> QED
          BY <2>1, <3>1, <3>2, <4>1, <5>1, <5>2
      <4>2. CASE d \in 1..n
        <5>1. deliveries[d].cause # new.cause
          BY <2>4, <3>1, <3>2, <4>2
        <5> QED
          BY <1>j, <3>2, <4>2, <5>1
      <4> QED
        BY <3>2, <4>1, <4>2
    <3>5. NotificationsJustified'
      BY <3>4 DEF NotificationsJustified
    <3> QED
      BY <3>3, <3>5
  <2> QED
    BY <1>4, <2>6, <2>7 DEF record_delivery
<1>5. ASSUME NEW s \in Sessions, dispatch_delivery(s)
      PROVE  OwedInv' /\ NotificationsJustified'
  <2>1. /\ session' = [session EXCEPT ![s] = Finished(s)]
        /\ deliveries' = [deliveries EXCEPT ![session[s].delivery].dispatched = TRUE]
        /\ UNCHANGED events
    BY <1>5 DEF dispatch_delivery, tableVars
  <2>2. /\ ~Owes(s)'
        /\ \A t \in Sessions \ {s} : session'[t] = session[t]
    BY <1>t, <2>1 DEF Owes, At, Finished, Fresh
  <2>3. /\ DOMAIN deliveries' = DOMAIN deliveries
        /\ \A d \in DOMAIN deliveries :
             /\ deliveries'[d].cause = deliveries[d].cause
             /\ deliveries'[d].event = deliveries[d].event
             /\ deliveries'[d].final = deliveries[d].final
    BY <1>t, <2>1 DEF WebhookDelivery
  <2>4. \A t \in Sessions : Owes(t)' => Owes(t) /\ session'[t].cause = session[t].cause
    BY <2>2 DEF Owes, At
  <2>5. \A q \in Requests : At(q, "refreshed")' => session'[q].seen.final # None
    BY <1>t, <2>2 DEF OwedInv, Owes, At
  <2>6. ASSUME NEW t \in Sessions, Owes(t)'
        PROVE  /\ Announces(t, session[t].cause)'
               /\ \A u \in Sessions : Owes(u)' /\ session'[u].cause = session'[t].cause => u = t
               /\ \A d \in DOMAIN deliveries' : deliveries'[d].cause # session'[t].cause
    <3>1. Owes(t) /\ session'[t].cause = session[t].cause
      BY <2>4, <2>6
    <3>2. Announces(t, session[t].cause)'
      BY <1>a, <1>o, <3>1 DEF Announces
    <3> QED
      BY <1>o, <2>3, <2>4, <3>1, <3>2
  <2>7. NotificationsJustified'
    BY <1>j, <2>3 DEF NotificationsJustified
  <2> QED
    BY <1>f, <2>5, <2>6, <2>7 DEF OwedInv, Sessions
<1> QED
  BY <1>1, <1>2, <1>3, <1>4, <1>5, StepNotifies DEF Notify

\* Every notification is about one committed decision of the kind it
\* announces, at most one is made of each, and the one that announces an
\* approval carries a reply (enqueue_for_ticket after the commit).
THEOREM NotificationsCorrect == Spec => []NotificationsJustified
<1>1. Init => NotifyInv
  <2> SUFFICES ASSUME Init PROVE OwedInv /\ NotificationsJustified
    BY GateInit DEF NotifyInv
  <2>1. ApprovedTexts = {}
    BY DEF Init, ApprovedTexts
  <2> QED
    BY <2>1 DEF Init, OwedInv, NotificationsJustified, Owes, At, Fresh, Sessions
<1>2. NotifyInv /\ [Next]_vars => NotifyInv'
  BY GateStep, OwedStep DEF NotifyInv
<1>3. NotifyInv => NotificationsJustified
  BY DEF NotifyInv
<1> QED
  BY <1>1, <1>2, <1>3, PTL DEF Spec

-----------------------------------------------------------------------------
(* A published run is in one place until it is settled *)

\* The message of the run r waits, or a worker has yet to end the run.
Carried(r) == r \in queue \/ \E w \in Workers : At(w, "loaded") /\ session[w].run = r

\* A message is in the queue or reserved by one worker, never both and never
\* by two, and it was published by a handler that has answered; a handler that
\* has a run is past the point where it starts one.
OneHolder ==
  /\ \A r \in queue : At(r, "done")
  /\ \A w \in Workers : ~At(w, "idle") =>
       At(session[w].run, "done") /\ session[w].run \notin queue
  /\ \A w, v \in Workers :
       ~At(w, "idle") /\ ~At(v, "idle") /\ session[w].run = session[v].run => w = v
  /\ \A q \in Requests : agent_runs[q].status # "absent" => At(q, "started") \/ At(q, "done")

HolderInv == TypeInv /\ HeldInv /\ OneHolder

\* An exception leaves execute_run, or the process that executes it is killed.
GivesUp(w) == dropped' = dropped \cup Unsettled(w) /\ UNCHANGED agent_runs

\* A worker goes on with its run and keeps the message; one that leaves the
\* point at which it executes the run has settled it or gives it up.
GoesOn(w) ==
  /\ UNCHANGED queue
  /\ ~At(w, "idle") /\ ~At(w, "idle")' /\ ~At(w, "loaded")'
  /\ session'[w].run = session[w].run
  /\ \A s \in Sessions \ {w} : session'[s] = session[s]
  /\ At(w, "loaded") => Settled(session[w].run)' \/ GivesUp(w)

LEMMA StepTasks ==
  ASSUME TypeInv, [Next]_vars
  PROVE  \/ UNCHANGED queue /\ \A w \in Workers : session'[w] = session[w]
         \/ \E q \in Requests : dispatch_run(q)
         \/ \E w \in Workers, r \in Requests : receive_run(w, r)
         \/ \E w \in Workers : GoesOn(w) \/ ack_run(w) \/ kill_child(w) \/ crash_worker(w)
<1>t. /\ session \in [Sessions -> Session] /\ agent_runs \in [Requests -> AgentRun]
      /\ Requests \subseteq Sessions /\ Workers \subseteq Sessions
      /\ Requests \cap Workers = {}
      /\ \A w \in Workers : ~At(w, "idle") => session[w].run \in Requests
  BY ConstantsAssumption DEF TypeInv, TypeOK, Sessions, WorkersHoldRuns, At
<1>1. ASSUME NEW w \in Workers, NEW v, session' = [session EXCEPT ![w] = v],
             v.pc \notin {"idle", "loaded"}, v.run = session[w].run,
             ~At(w, "idle"), UNCHANGED queue,
             At(w, "loaded") => Settled(session[w].run)' \/ GivesUp(w)
      PROVE  GoesOn(w)
  BY <1>t, <1>1 DEF GoesOn, At
<1>f. \A w \in Workers :
        /\ Finished(w).pc = "finished" /\ Finished(w).run = session[w].run
        /\ Committed(w).pc = "committed" /\ Committed(w).run = session[w].run
  BY <1>t DEF Finished, Committed, Fresh, Session
<1>2. ASSUME NEW w \in Workers, Notify(w) PROVE GoesOn(w)
  <2>0. session[w] \in Session
    BY <1>t
  <2>1. CASE refresh_ticket(w)
    <3> DEFINE v == [session[w] EXCEPT !.pc = "refreshed", !.seen = Row]
    <3>1. /\ session' = [session EXCEPT ![w] = v]
          /\ v.pc = "refreshed" /\ v.run = session[w].run
          /\ ~At(w, "idle") /\ ~At(w, "loaded") /\ UNCHANGED queue
      BY <2>0, <2>1 DEF refresh_ticket, Session, At
    <3> HIDE DEF v
    <3> QED
      BY <1>1, <3>1
  <2>2. CASE record_delivery(w)
    <3> DEFINE v == [session[w] EXCEPT !.pc = "recorded", !.delivery = Len(deliveries) + 1]
    <3>1. /\ \/ session' = [session EXCEPT ![w] = v]
             \/ session' = [session EXCEPT ![w] = Finished(w)]
          /\ ~At(w, "idle") /\ ~At(w, "loaded") /\ UNCHANGED queue
      BY <2>2 DEF record_delivery, At
    <3>2. v.pc = "recorded" /\ v.run = session[w].run
      BY <2>0 DEF Session
    <3> HIDE DEF v
    <3> QED
      BY <1>1, <1>f, <3>1, <3>2
  <2>3. CASE dispatch_delivery(w)
    <3>1. /\ session' = [session EXCEPT ![w] = Finished(w)]
          /\ ~At(w, "idle") /\ ~At(w, "loaded") /\ UNCHANGED queue
      BY <2>3 DEF dispatch_delivery, At
    <3> QED
      BY <1>1, <1>f, <3>1
  <2> QED
    BY <1>2, <2>1, <2>2, <2>3 DEF Notify
<1>3. ASSUME NEW w \in Workers, NEW result \in WorkflowResult, complete_run(w, result)
      PROVE  GoesOn(w)
  <2>1. /\ session' = [session EXCEPT ![w] = AfterRun(w, result.outcome)]
        /\ At(w, "loaded") /\ ~At(w, "idle") /\ UNCHANGED queue
    BY <1>3 DEF complete_run, At
  <2>2. /\ AfterRun(w, result.outcome).pc \notin {"idle", "loaded"}
        /\ AfterRun(w, result.outcome).run = session[w].run
    <3>1. LET v == [session[w] EXCEPT !.pc = "completed"]
          IN  v.pc = "completed" /\ v.run = session[w].run
      BY <1>t DEF Session
    <3> QED
      BY <1>f, <3>1 DEF AfterRun
  <2>3. Settled(session[w].run)'
    <3>1. session[w].run \in Requests
      BY <1>t, <2>1
    <3>2. agent_runs'[session[w].run].status = "completed"
      BY <1>3, <1>t, <3>1 DEF complete_run, AgentRun
    <3>3. session[w].run \in Requests /\ session'[w].run = session[w].run
      BY <1>t, <2>1, <2>2, <3>1
    <3> QED
      BY <3>2, <3>3 DEF Settled
  <2> QED
    BY <1>1, <2>1, <2>2, <2>3
<1>4. ASSUME NEW w \in Workers,
             (\E why \in {"workflow", "transition"} : fail_run(w, why)) \/ fail_late(w)
      PROVE  GoesOn(w)
  <2>1. PICK why : agent_runs' = RunFailed(session[w].run, why)
    BY <1>4 DEF fail_run, fail_late
  <2>2. /\ session' = [session EXCEPT ![w] = Finished(w)]
        /\ ~At(w, "idle") /\ UNCHANGED queue
    BY <1>4 DEF fail_run, fail_late, AfterCommit, At
  <2>3. agent_runs'[session[w].run].status = "failed"
    BY <1>t, <2>1, <2>2 DEF RunFailed, AgentRun
  <2>4. session'[w].run = session[w].run
    BY <1>f, <1>t, <2>2
  <2> QED
    BY <1>1, <1>f, <2>2, <2>3, <2>4 DEF Settled
<1>8. ASSUME NEW w \in Workers, refresh_run(w) PROVE GoesOn(w)
  <2>1. /\ session' = [session EXCEPT ![w] = Finished(w)]
        /\ ~At(w, "idle") /\ ~At(w, "loaded") /\ UNCHANGED queue
    BY <1>8 DEF refresh_run, At
  <2> QED
    BY <1>1, <1>f, <2>1
<1>9. ASSUME NEW w \in Workers, abandon_run(w) PROVE GoesOn(w)
  <2>1. /\ session' = [session EXCEPT ![w] = Finished(w)]
        /\ ~At(w, "idle") /\ UNCHANGED queue
        /\ GivesUp(w)
    BY <1>9 DEF abandon_run, AfterCommit, At, GivesUp, tableVars
  <2> QED
    BY <1>1, <1>f, <2>1
<1>5. ASSUME NEW q \in Requests, RequestStep(q) \/ abort_request(q), ~dispatch_run(q)
      PROVE  UNCHANGED queue /\ \A w \in Workers : session'[w] = session[w]
  <2>1. q \notin Workers
    BY <1>t
  <2>2. CASE Notify(q)
    BY <1>t, <2>1, <2>2 DEF Notify, refresh_ticket, record_delivery, dispatch_delivery
  <2>3. CASE RequestStep(q) /\ ~Notify(q)
    BY <1>5, <1>t, <2>1, <2>3 DEF RequestStep, refuse, approve, reject, edit_draft, start_run
  <2>4. CASE abort_request(q)
    BY <1>t, <2>1, <2>4 DEF abort_request
  <2> QED
    BY <1>5, <2>2, <2>3, <2>4
<1>6. ASSUME NEW q \in Requests, NEW op, NEW arg, load_ticket(q, op, arg)
      PROVE  UNCHANGED queue /\ \A w \in Workers : session'[w] = session[w]
  BY <1>6, <1>t DEF load_ticket
<1>7. CASE create_ticket \/ upsert_config \/ UNCHANGED vars
  BY <1>7 DEF create_ticket, upsert_config, vars
<1> QED
  BY <1>2, <1>3, <1>4, <1>5, <1>6, <1>7, <1>8, <1>9 DEF Next, WorkerStep, WorkerFault

\* A request that was answered is over, and one that has started its run only
\* publishes it or dies.
LEMMA RequestsGoOn ==
  ASSUME TypeInv, [Next]_vars, NEW q \in Requests
  PROVE  /\ At(q, "done") => At(q, "done")'
         /\ At(q, "started") => At(q, "started")' \/ At(q, "done")'
<1> DEFINE Goal == /\ At(q, "done") => At(q, "done")'
                   /\ At(q, "started") => At(q, "started")' \/ At(q, "done")'
<1>t. /\ session \in [Sessions -> Session]
      /\ Requests \subseteq Sessions /\ Workers \subseteq Sessions
      /\ Requests \cap Workers = {}
  BY ConstantsAssumption DEF TypeInv, TypeOK, Sessions
<1>s. ASSUME NEW t \in Requests, NEW v, session' = [session EXCEPT ![t] = v],
             ~At(t, "done"), At(t, "started") => v.pc = "done"
      PROVE  Goal
  BY <1>s, <1>t DEF At
<1>w. ASSUME NEW w \in Workers, NEW v, session' = [session EXCEPT ![w] = v]
      PROVE  Goal
  BY <1>w, <1>t DEF At
<1>f. \A r \in Requests : Finished(r).pc = "done"
  BY DEF Finished, Fresh
<1>1. ASSUME NEW r \in Requests, Notify(r) PROVE Goal
  <2>1. /\ \E v : session' = [session EXCEPT ![r] = v]
        /\ ~At(r, "done") /\ ~At(r, "started")
    BY <1>1 DEF Notify, refresh_ticket, record_delivery, dispatch_delivery, At
  <2> QED
    BY <1>s, <2>1
<1>2. ASSUME NEW r \in Requests, RequestStep(r) \/ abort_request(r), ~Notify(r) PROVE Goal
  <2>1. CASE dispatch_run(r) \/ abort_request(r)
    <3>1. session' = [session EXCEPT ![r] = Finished(r)] /\ ~At(r, "done")
      BY <2>1 DEF dispatch_run, abort_request, At
    <3> QED
      BY <1>f, <1>s, <3>1
  <2>2. CASE refuse(r) \/ approve(r) \/ reject(r) \/ edit_draft(r) \/ start_run(r)
    <3>1. /\ \E v : session' = [session EXCEPT ![r] = v]
          /\ ~At(r, "done") /\ ~At(r, "started")
      BY <2>2 DEF refuse, approve, reject, edit_draft, start_run, At
    <3> QED
      BY <1>s, <3>1
  <2> QED
    BY <1>2, <2>1, <2>2 DEF RequestStep
<1>3. ASSUME NEW r \in Requests, NEW op, NEW arg, load_ticket(r, op, arg) PROVE Goal
  <2>1. /\ \E v : session' = [session EXCEPT ![r] = v]
        /\ ~At(r, "done") /\ ~At(r, "started")
    BY <1>3 DEF load_ticket, At
  <2> QED
    BY <1>s, <2>1
<1>4. ASSUME NEW w \in Workers, NEW r \in Requests, receive_run(w, r) PROVE Goal
  BY <1>4, <1>w DEF receive_run
<1>5. ASSUME NEW w \in Workers, WorkerStep(w) \/ WorkerFault(w) PROVE Goal
  <2>1. \E v : session' = [session EXCEPT ![w] = v]
    BY <1>5 DEF WorkerStep, complete_run, fail_run, refresh_run, ack_run, Notify,
                refresh_ticket, record_delivery, dispatch_delivery, WorkerFault,
                fail_late, abandon_run, kill_child, crash_worker
  <2> QED
    BY <1>w, <2>1
<1>6. CASE create_ticket \/ upsert_config \/ UNCHANGED vars
  BY <1>6 DEF create_ticket, upsert_config, vars, At
<1> QED
  BY <1>1, <1>2, <1>3, <1>4, <1>5, <1>6 DEF Next

LEMMA HolderInit == Init => HolderInv
<1> SUFFICES ASSUME Init PROVE HolderInv
  OBVIOUS
<1>1. \A s \in Sessions : At(s, "idle")
  BY DEF Init, At, Fresh
<1>2. \A w \in Workers : At(w, "idle")
  BY <1>1 DEF Sessions
<1>3. \A q \in Requests : agent_runs[q].status = "absent"
  BY DEF Init
<1>4. \A q \in Requests : ~At(q, "started")
  BY <1>1 DEF Sessions, At
<1> QED
  BY <1>2, <1>3, <1>4, TypeInit DEF Init, HolderInv, HeldInv, OneHolder

\* Only a request that has not yet started one gets a run's row, so what was
\* settled stays settled.
LEMMA RowsOfRuns ==
  ASSUME HolderInv, [Next]_vars, NEW q \in Requests
  PROVE  /\ agent_runs'[q].status # "absent" => At(q, "started")' \/ At(q, "done")'
         /\ Settled(q) => Settled(q)'
<1> USE DEF HolderInv
<1>1. agent_runs \in [Requests -> AgentRun]
  BY DEF TypeInv, TypeOK
<1>2. agent_runs[q].status # "absent" => At(q, "started")' \/ At(q, "done")'
  BY RequestsGoOn DEF OneHolder
<1>3. CASE UNCHANGED agent_runs
  BY <1>2, <1>3 DEF Settled
<1>4. ASSUME NEW r \in Requests, RecordsStart(r)
      PROVE  /\ agent_runs'[q].status # "absent" => At(q, "started")' \/ At(q, "done")'
             /\ Settled(q) => Settled(q)'
  <2>1. CASE q = r
    <3>1. agent_runs[q].status = "absent"
      BY <1>4, <2>1 DEF RecordsStart, OneHolder, At
    <3> QED
      BY <1>4, <2>1, <3>1 DEF RecordsStart, Settled
  <2>2. CASE q # r
    BY <1>1, <1>2, <1>4, <2>2 DEF RecordsStart, Settled
  <2> QED
    BY <2>1, <2>2
<1>5. ASSUME NEW r \in Requests, agent_runs[r].status # "absent",
             NEW row, agent_runs' = [agent_runs EXCEPT ![r] = row],
             row.status \in {"completed", "failed"}
      PROVE  /\ agent_runs'[q].status # "absent" => At(q, "started")' \/ At(q, "done")'
             /\ Settled(q) => Settled(q)'
  BY <1>1, <1>2, <1>5 DEF Settled
<1>6. ASSUME NEW e \in TicketEvent, RecordsRun(e)
      PROVE  /\ agent_runs'[q].status # "absent" => At(q, "started")' \/ At(q, "done")'
             /\ Settled(q) => Settled(q)'
  <2> DEFINE row == [agent_runs[e.run] EXCEPT !.status = "completed", !.outcome = e.to]
  <2>1. e.run \in Requests /\ agent_runs[e.run].status # "absent"
    BY <1>6 DEF RecordsRun, HeldInv, TypeInv, WorkersHoldRuns, At
  <2>2. agent_runs' = [agent_runs EXCEPT ![e.run] = row] /\ row.status = "completed"
    BY <1>1, <1>6, <2>1 DEF RecordsRun, AgentRun
  <2> HIDE DEF row
  <2> QED
    BY <1>5, <2>1, <2>2
<1>7. ASSUME NEW w \in Workers, NEW why, RecordsFailure(w, why)
      PROVE  /\ agent_runs'[q].status # "absent" => At(q, "started")' \/ At(q, "done")'
             /\ Settled(q) => Settled(q)'
  <2> DEFINE r == session[w].run
             row == [agent_runs[r] EXCEPT !.status = "failed", !.error = why]
  <2>1. r \in Requests /\ agent_runs[r].status # "absent"
    BY <1>7 DEF RecordsFailure, HeldInv, TypeInv, WorkersHoldRuns, At
  <2>2. agent_runs' = [agent_runs EXCEPT ![r].status = "failed", ![r].error = why]
    BY <1>7 DEF RecordsFailure, RunFailed
  <2> HIDE DEF r
  <2>3. agent_runs[r] \in AgentRun
    BY <1>1, <2>1
  <2>4. agent_runs' = [agent_runs EXCEPT ![r] = row] /\ row.status = "failed"
    BY <1>1, <2>1, <2>2, <2>3 DEF AgentRun
  <2> HIDE DEF row
  <2> QED
    BY <1>5, <2>1, <2>4
<1> QED
  BY <1>3, <1>4, <1>6, <1>7, StepRecords DEF tableVars, RecordsDecision

\* Who holds which message after a step that hands one over.
LEMMA HolderStep == HolderInv /\ [Next]_vars => HolderInv'
<1> SUFFICES ASSUME HolderInv, [Next]_vars
             PROVE  /\ \A r \in queue' : At(r, "done")'
                    /\ \A w \in Workers : ~At(w, "idle")' =>
                         At(session[w].run, "done")' /\ session'[w].run \notin queue'
                    /\ \A w, v \in Workers :
                         ~At(w, "idle")' /\ ~At(v, "idle")'
                           /\ session'[w].run = session'[v].run => w = v
  BY TypeStep, HeldStep, RowsOfRuns DEF HolderInv, OneHolder
<1> DEFINE Goal ==
      /\ \A r \in queue' : At(r, "done")'
      /\ \A w \in Workers : ~At(w, "idle")' =>
           At(session[w].run, "done")' /\ session'[w].run \notin queue'
      /\ \A w, v \in Workers :
           ~At(w, "idle")' /\ ~At(v, "idle")' /\ session'[w].run = session'[v].run => w = v
<1> USE DEF HolderInv
<1>t. /\ session \in [Sessions -> Session] /\ queue \subseteq Requests
      /\ Workers \subseteq Sessions /\ Requests \subseteq Sessions
      /\ \A w \in Workers : ~At(w, "idle") => session[w].run \in Requests
  BY DEF TypeInv, TypeOK, Sessions, WorkersHoldRuns, At
<1>d. \A q \in Requests : At(q, "done") => At(q, "done")'
  BY RequestsGoOn
<1>h. /\ \A r \in queue : At(r, "done")
      /\ \A w \in Workers : ~At(w, "idle") =>
           At(session[w].run, "done") /\ session[w].run \notin queue
      /\ \A w, v \in Workers :
           ~At(w, "idle") /\ ~At(v, "idle") /\ session[w].run = session[v].run => w = v
  BY DEF OneHolder
<1>1. ASSUME UNCHANGED queue, \A w \in Workers : session'[w] = session[w]
      PROVE  Goal
  BY <1>1, <1>d, <1>h, <1>t DEF At
<1>2. ASSUME NEW q \in Requests, dispatch_run(q) PROVE Goal
  <2>1. /\ At(q, "started") /\ ~At(q, "done") /\ queue' = queue \cup {q}
        /\ session' = [session EXCEPT ![q] = Finished(q)] /\ Finished(q).pc = "done"
    BY <1>2 DEF dispatch_run, Finished, Fresh, At
  <2>2. At(q, "done")' /\ \A w \in Workers : session'[w] = session[w]
    BY <1>t, <2>1, ConstantsAssumption DEF At
  <2> QED
    BY <1>d, <1>h, <1>t, <2>1, <2>2 DEF At
<1>3. ASSUME NEW w \in Workers, NEW r \in Requests, receive_run(w, r) PROVE Goal
  <2> DEFINE v == [Fresh EXCEPT !.pc = "loaded", !.op = "execute", !.run = r,
                                !.seen = Row, !.since = Len(events)]
  <2>1. /\ session' = [session EXCEPT ![w] = v] /\ v.pc = "loaded" /\ v.run = r
        /\ r \in queue /\ queue' = queue \ {r} /\ At(w, "idle")
    BY <1>3 DEF receive_run, Fresh
  <2> HIDE DEF v
  <2>2. session'[w] = v /\ \A u \in Workers \ {w} : session'[u] = session[u]
    BY <1>t, <2>1
  <2>3. \A u \in Workers \ {w} : ~At(u, "idle")' => session'[u].run # r
    BY <1>h, <2>1, <2>2 DEF At
  <2>4. ASSUME NEW u \in Workers, ~At(u, "idle")'
        PROVE  At(session[u].run, "done")' /\ session'[u].run \notin queue'
    BY <1>d, <1>h, <1>t, <2>1, <2>2, <2>4 DEF At
  <2>5. ASSUME NEW u \in Workers, NEW x \in Workers, ~At(u, "idle")', ~At(x, "idle")',
               session'[u].run = session'[x].run
        PROVE  u = x
    BY <1>h, <2>1, <2>2, <2>3, <2>5 DEF At
  <2> QED
    BY <1>d, <1>h, <1>t, <2>1, <2>4, <2>5
<1>4. ASSUME NEW w \in Workers, GoesOn(w) PROVE Goal
  <2>1. /\ UNCHANGED queue /\ ~At(w, "idle") /\ session'[w].run = session[w].run
        /\ \A u \in Workers \ {w} : session'[u] = session[u]
    BY <1>4, <1>t DEF GoesOn
  <2> QED
    BY <1>d, <1>h, <1>t, <2>1 DEF At
<1>5. ASSUME NEW w \in Workers, ack_run(w) \/ kill_child(w) \/ crash_worker(w) PROVE Goal
  <2>1. /\ session' = [session EXCEPT ![w] = Fresh] /\ Fresh.pc = "idle" /\ ~At(w, "idle")
        /\ queue' = queue \/ queue' = queue \cup {session[w].run}
    BY <1>5 DEF ack_run, kill_child, crash_worker, Fresh, At
  <2>2. At(w, "idle")' /\ \A u \in Workers \ {w} : session'[u] = session[u]
    BY <1>t, <2>1 DEF At
  <2> QED
    BY <1>d, <1>h, <1>t, <2>1, <2>2 DEF At
<1> QED
  BY <1>1, <1>2, <1>3, <1>4, <1>5, StepTasks

\* However often the broker redelivers, a run's message is in the queue or with
\* one worker: no two workers ever execute the same run.
THEOREM OneHolderCorrect == Spec => []OneHolder
<1>1. HolderInv => OneHolder
  BY DEF HolderInv
<1> QED
  BY <1>1, HolderInit, HolderStep, PTL DEF Spec

\* What has become of a published run.
Accounted(r) == Carried(r) \/ Settled(r) \/ r \in dropped

\* Only a failure gives a run up, and only a redelivery takes it up again.
LEMMA StepDrops ==
  ASSUME TypeInv, [Next]_vars, NEW r \in Requests
  PROVE  /\ r \in dropped' => r \in dropped \/ failures' = failures + 1
         /\ r \in dropped => r \in dropped' \/ r \in queue'
<1> DEFINE Goal == /\ r \in dropped' => r \in dropped \/ failures' = failures + 1
                   /\ r \in dropped => r \in dropped' \/ r \in queue'
<1>1. ASSUME UNCHANGED dropped PROVE Goal
  BY <1>1
<1>2. ASSUME NEW w \in Workers, WorkerFault(w) PROVE Goal
  BY <1>2 DEF WorkerFault, fail_late, abandon_run, kill_child, crash_worker
<1>3. ASSUME NEW w \in Workers,
             WorkerStep(w) \/ \E x \in Requests : receive_run(w, x)
      PROVE  UNCHANGED dropped
  BY <1>3 DEF WorkerStep, complete_run, fail_run, refresh_run, ack_run, Notify,
              refresh_ticket, record_delivery, dispatch_delivery, receive_run, faults
<1>4. ASSUME NEW q \in Requests,
             \/ \E op \in {"approve", "reject", "edit", "run"} :
                  \E arg \in Body(op) : load_ticket(q, op, arg)
             \/ RequestStep(q) \/ abort_request(q)
      PROVE  UNCHANGED dropped
  BY <1>4 DEF load_ticket, RequestStep, refuse, approve, reject, edit_draft, start_run,
              dispatch_run, abort_request, Notify, refresh_ticket, record_delivery,
              dispatch_delivery, faults
<1>5. CASE create_ticket \/ upsert_config \/ UNCHANGED vars
  BY <1>5 DEF create_ticket, upsert_config, vars, faults
<1> QED
  BY <1>1, <1>2, <1>3, <1>4, <1>5 DEF Next

\* A worker that gives its run up drops it, unless its end is recorded.
LEMMA GivenUp ==
  ASSUME HolderInv, NEW w \in Workers, NEW r \in Requests,
         ~At(w, "idle"), session[w].run = r, GivesUp(w)
  PROVE  Settled(r)' \/ r \in dropped'
<1>1. agent_runs[r] \in AgentRun /\ agent_runs[r].status # "absent"
  BY DEF HolderInv, HeldInv, TypeInv, TypeOK, WorkersHoldRuns, At
<1> QED
  BY <1>1 DEF GivesUp, Unsettled, Settled, AgentRun

\* A published run is never lost track of: its message waits, a worker has
\* still to end it, it is completed or failed and stays so, or it was given up
\* with no end recorded.  The last takes a failure: an exception outside the
\* try or in the except branch of execute_run, or a killed child process,
\* after either of which the message is acknowledged; the death of the whole
\* worker publishes it again.  This is the safety half of RunsSettle, whose
\* other half is that workers go on.
THEOREM PublishedRunsKept ==
  Spec => [][\A r \in Requests :
               /\ Accounted(r) => Accounted(r)'
               /\ r \in dropped' => r \in dropped \/ failures' = failures + 1]_vars
<1>1. ASSUME HolderInv, [Next]_vars, NEW r \in Requests, Carried(r) \/ Settled(r)
      PROVE  Carried(r)' \/ Settled(r)' \/ r \in dropped'
  <2>t. /\ session \in [Sessions -> Session]
        /\ Workers \subseteq Sessions /\ Requests \cap Workers = {}
    BY <1>1, ConstantsAssumption DEF HolderInv, TypeInv, TypeOK, Sessions
  <2>1. CASE Settled(r)
    BY <1>1, <2>1, RowsOfRuns
  <2>2. CASE r \in queue
    <3>1. CASE r \in queue'
      BY <3>1 DEF Carried
    <3>2. CASE r \notin queue'
      <4>1. PICK w \in Workers : receive_run(w, r)
        BY <1>1, <2>2, <3>2, StepTasks
           DEF HolderInv, GoesOn, dispatch_run, receive_run, ack_run, kill_child, crash_worker
      <4>2. session'[w].pc = "loaded" /\ session'[w].run = r
        BY <2>t, <4>1 DEF receive_run, Fresh
      <4> QED
        BY <4>2 DEF Carried, At
    <3> QED
      BY <3>1, <3>2
  <2>3. ASSUME NEW w \in Workers, At(w, "loaded"), session[w].run = r
        PROVE  Carried(r)' \/ Settled(r)' \/ r \in dropped'
    <3>a. ~At(w, "idle")
      BY <2>3 DEF At
    <3>1. CASE session'[w] = session[w]
      BY <2>3, <3>1 DEF Carried, At
    <3>2. CASE GoesOn(w)
      BY <1>1, <2>3, <3>a, <3>2, GivenUp DEF GoesOn, Settled
    <3>3. CASE crash_worker(w)
      BY <2>3, <3>3 DEF crash_worker, Carried
    <3>7. CASE kill_child(w)
      <4>1. /\ agent_runs[r] \in AgentRun /\ agent_runs[r].status # "absent"
            /\ UNCHANGED agent_runs /\ dropped' = dropped \cup Unsettled(w)
        BY <1>1, <2>3, <3>a, <3>7
           DEF kill_child, HolderInv, HeldInv, TypeInv, TypeOK, tableVars
      <4> QED
        BY <2>3, <4>1 DEF Unsettled, Settled, AgentRun
    <3>4. ASSUME NEW q \in Requests, dispatch_run(q)
          PROVE  session'[w] = session[w]
      BY <2>t, <3>4 DEF dispatch_run
    <3>5. ASSUME NEW v \in Workers, NEW x \in Requests, receive_run(v, x)
          PROVE  session'[w] = session[w]
      BY <2>t, <2>3, <3>5 DEF receive_run, At
    <3>6. ASSUME NEW v \in Workers,
                 GoesOn(v) \/ ack_run(v) \/ kill_child(v) \/ crash_worker(v)
          PROVE  session'[w] = session[w] \/ GoesOn(w) \/ kill_child(w) \/ crash_worker(w)
      BY <2>t, <2>3, <3>6 DEF GoesOn, ack_run, kill_child, crash_worker, At
    <3> QED
      BY <1>1, <3>1, <3>2, <3>3, <3>4, <3>5, <3>6, <3>7, StepTasks DEF HolderInv
  <2> QED
    BY <1>1, <2>1, <2>2, <2>3 DEF Carried
<1>2. HolderInv /\ [Next]_vars =>
        [\A r \in Requests :
           /\ Accounted(r) => Accounted(r)'
           /\ r \in dropped' => r \in dropped \/ failures' = failures + 1]_vars
  BY <1>1, StepDrops DEF Accounted, Carried, HolderInv
<1> QED
  BY <1>2, HolderInit, HolderStep, PTL DEF Spec

-----------------------------------------------------------------------------
(* While nothing fails, no decision goes without its notification *)

\* The history row i is one that is announced: an approval or an escalation.
Due(i) ==
  \/ events[i].type = "approved"
  \/ events[i].type = "agent_run" /\ events[i].to = "escalated"

\* The session s has committed the decision i and has not queued its delivery.
Announcing(s, i) ==
  \/ Owes(s) /\ session[s].cause = i
  \/ /\ At(s, "recorded")
     /\ session[s].delivery \in DOMAIN deliveries
     /\ deliveries[session[s].delivery].cause = i

NotifiedOrOwed ==
  \A i \in DOMAIN events : Due(i) => Notified(i) \/ \E s \in Sessions : Announcing(s, i)

\* A decision that is announced is committed by a session that then owes it.
LEMMA DecisionOwed ==
  ASSUME TypeInv, [Next]_vars,
         NEW i \in DOMAIN events', i \notin DOMAIN events, Due(i)'
  PROVE  \E s \in Sessions : Announcing(s, i)'
<1> DEFINE n == Len(events) + 1
<1>t. /\ session \in [Sessions -> Session] /\ events \in Seq(TicketEvent)
      /\ Requests \subseteq Sessions /\ Workers \subseteq Sessions
  BY DEF TypeInv, TypeOK, Sessions
<1>1. ASSUME NEW e, events' = Append(events, e)
      PROVE  i = n /\ events'[n] = e
  BY <1>1, <1>t
<1>2. ASSUME NEW s \in Sessions, session' = [session EXCEPT ![s] = Committed(s)], i = n
      PROVE  Announcing(s, i)'
  <2>1. Committed(s).pc = "committed" /\ Committed(s).cause = n
    BY <1>t DEF Committed, Session
  <2> QED
    BY <1>2, <1>t, <2>1 DEF Announcing, Owes, At
<1>3. ASSUME NEW e, events' = Append(events, e), e.type \notin {"approved", "agent_run"}
      PROVE  FALSE
  BY <1>1, <1>3 DEF Due
<1>4. ASSUME NEW q \in Requests, RequestStep(q) \/ abort_request(q)
      PROVE  \E s \in Sessions : Announcing(s, i)'
  <2>1. CASE approve(q)
    BY <1>1, <1>2, <1>t, <2>1 DEF approve
  <2>2. CASE reject(q) \/ edit_draft(q)
    <3>1. \E e : events' = Append(events, e) /\ e.type \in {"rejected", "edited"}
      BY <2>2 DEF reject, edit_draft, Event
    <3> QED
      BY <1>3, <3>1
  <2>3. CASE refuse(q) \/ start_run(q) \/ dispatch_run(q) \/ Notify(q) \/ abort_request(q)
    BY <2>3 DEF refuse, start_run, dispatch_run, abort_request, Notify, refresh_ticket,
                record_delivery, dispatch_delivery, tableVars
  <2> QED
    BY <1>4, <2>1, <2>2, <2>3 DEF RequestStep
<1>5. ASSUME NEW w \in Workers, NEW result \in WorkflowResult, complete_run(w, result)
      PROVE  \E s \in Sessions : Announcing(s, i)'
  <2> DEFINE e == Event(w, "agent_run", result.outcome, None)
  <2>1. /\ events' = Append(events, e)
        /\ session' = [session EXCEPT ![w] = AfterRun(w, result.outcome)]
    BY <1>5 DEF complete_run
  <2>2. e.type = "agent_run" /\ e.to = result.outcome
    BY DEF Event
  <2> HIDE DEF e
  <2>3. i = n /\ result.outcome = "escalated"
    BY <1>1, <2>1, <2>2 DEF Due
  <2> QED
    BY <1>2, <1>t, <2>1, <2>3 DEF AfterRun
<1>6. ASSUME NEW w \in Workers,
             \/ \E why \in {"workflow", "transition"} : fail_run(w, why)
             \/ Notify(w) \/ ack_run(w) \/ refresh_run(w) \/ WorkerFault(w)
             \/ \E r \in Requests : receive_run(w, r)
      PROVE  FALSE
  BY <1>6 DEF fail_run, ack_run, refresh_run, WorkerFault, fail_late, abandon_run,
              kill_child, crash_worker, receive_run, Notify, refresh_ticket,
              record_delivery, dispatch_delivery, tableVars
<1>7. CASE create_ticket
  <2>1. \E e : events' = Append(events, e) /\ e.type = "created"
    BY <1>7 DEF create_ticket
  <2> QED
    BY <1>3, <2>1
<1>8. CASE upsert_config \/ UNCHANGED vars
  BY <1>8 DEF upsert_config, vars, tableVars, faults
<1>9. ASSUME NEW q \in Requests, NEW op, NEW arg, load_ticket(q, op, arg)
      PROVE  FALSE
  BY <1>9 DEF load_ticket, tableVars
<1> QED
  BY <1>4, <1>5, <1>6, <1>7, <1>8, <1>9 DEF Next, WorkerStep, WorkerFault

\* A session that announces a decision goes on by announcing it, unless its
\* process dies or a call it makes fails.
LEMMA AnnouncerGoesOn ==
  ASSUME TypeInv, [Next]_vars, failures' = failures,
         NEW s \in Sessions, Owes(s) \/ At(s, "recorded")
  PROVE  session'[s] = session[s] \/ Notify(s)
<1>t. /\ session \in [Sessions -> Session] /\ failures \in Nat
      /\ Requests \subseteq Sessions /\ Workers \subseteq Sessions
  BY ConstantsAssumption DEF TypeInv, TypeOK, Sessions
<1>1. ASSUME NEW t \in Sessions, NEW v, session' = [session EXCEPT ![t] = v],
             ~(Owes(t) \/ At(t, "recorded"))
      PROVE  session'[s] = session[s]
  BY <1>1, <1>t
<1>2. ASSUME NEW t \in Sessions, Notify(t)
      PROVE  session'[s] = session[s] \/ Notify(s)
  <2>1. \E v : session' = [session EXCEPT ![t] = v]
    BY <1>2 DEF Notify, refresh_ticket, record_delivery, dispatch_delivery
  <2>2. CASE t = s
    BY <1>2, <2>2
  <2>3. CASE t # s
    BY <1>t, <2>1, <2>3
  <2> QED
    BY <2>2, <2>3
<1>3. ASSUME NEW q \in Requests, RequestStep(q) \/ abort_request(q), ~Notify(q)
      PROVE  session'[s] = session[s]
  <2>1. ~abort_request(q)
    BY <1>t DEF abort_request
  <2>2. CASE refuse(q) \/ approve(q) \/ reject(q) \/ edit_draft(q) \/ start_run(q)
    <3>1. /\ \E v : session' = [session EXCEPT ![q] = v]
          /\ At(q, "loaded")
      BY <2>2 DEF refuse, approve, reject, edit_draft, start_run
    <3> QED
      BY <1>1, <1>t, <3>1 DEF At, Owes
  <2>3. CASE dispatch_run(q)
    BY <1>1, <1>t, <2>3 DEF dispatch_run, At, Owes
  <2> QED
    BY <1>3, <2>1, <2>2, <2>3 DEF RequestStep
<1>4. ASSUME NEW w \in Workers, WorkerStep(w) \/ WorkerFault(w), ~Notify(w)
      PROVE  session'[s] = session[s]
  <2>1. ~WorkerFault(w)
    BY <1>t DEF WorkerFault, fail_late, abandon_run, kill_child, crash_worker
  <2>2. /\ \E v : session' = [session EXCEPT ![w] = v]
        /\ At(w, "loaded") \/ At(w, "completed") \/ At(w, "finished")
    BY <1>4, <2>1 DEF WorkerStep, complete_run, fail_run, refresh_run, ack_run
  <2> QED
    BY <1>1, <1>t, <2>2 DEF At, Owes
<1>5. ASSUME NEW q \in Requests, NEW op, NEW arg, load_ticket(q, op, arg)
      PROVE  session'[s] = session[s]
  BY <1>1, <1>5, <1>t DEF load_ticket, At, Owes
<1>6. ASSUME NEW w \in Workers, NEW r \in Requests, receive_run(w, r)
      PROVE  session'[s] = session[s]
  BY <1>1, <1>6, <1>t DEF receive_run, At, Owes
<1>7. CASE create_ticket \/ upsert_config \/ UNCHANGED vars
  BY <1>7 DEF create_ticket, upsert_config, vars
<1>8. Requests \cup Workers = Sessions
  BY DEF Sessions
<1> QED
  BY <1>2, <1>3, <1>4, <1>5, <1>6, <1>7, <1>8 DEF Next

\* A delivery that was recorded stays, is about the same decision, and stays
\* queued once it is.
LEMMA DeliveriesKept ==
  ASSUME TypeInv, [Next]_vars, NEW d \in DOMAIN deliveries
  PROVE  /\ d \in DOMAIN deliveries'
         /\ deliveries'[d].cause = deliveries[d].cause
         /\ deliveries[d].dispatched => deliveries'[d].dispatched
<1>t. deliveries \in Seq(WebhookDelivery) /\ deliveries[d] \in WebhookDelivery
  BY DEF TypeInv, TypeOK
<1>1. CASE UNCHANGED deliveries
  BY <1>1
<1>2. ASSUME NEW s \in Sessions, record_delivery(s), ~UNCHANGED deliveries
      PROVE  d \in DOMAIN deliveries' /\ deliveries'[d] = deliveries[d]
  <2>1. \E row : deliveries' = Append(deliveries, row)
    BY <1>2 DEF record_delivery
  <2> QED
    BY <1>t, <2>1
<1>3. ASSUME NEW s \in Sessions, dispatch_delivery(s)
      PROVE  /\ d \in DOMAIN deliveries'
             /\ deliveries'[d].cause = deliveries[d].cause
             /\ deliveries[d].dispatched => deliveries'[d].dispatched
  <2>1. deliveries' = [deliveries EXCEPT ![session[s].delivery].dispatched = TRUE]
    BY <1>3 DEF dispatch_delivery
  <2>2. CASE d = session[s].delivery
    BY <1>t, <2>1, <2>2 DEF WebhookDelivery
  <2>3. CASE d # session[s].delivery
    BY <1>t, <2>1, <2>3
  <2> QED
    BY <2>2, <2>3
<1>4. ASSUME NEW s \in Sessions, refresh_ticket(s)
      PROVE  UNCHANGED deliveries
  BY <1>4 DEF refresh_ticket
<1> QED
  BY <1>1, <1>2, <1>3, <1>4, StepNotifies DEF Decides, Notify

\* While the configuration is active, the announcement of a decision goes on
\* to its end.
LEMMA AnnouncementGoesOn ==
  ASSUME TypeInv, [Next]_vars, webhook_active, failures' = failures,
         NEW s \in Sessions, NEW i, Announcing(s, i)
  PROVE  Notified(i)' \/ Announcing(s, i)'
<1>t. /\ session \in [Sessions -> Session] /\ session[s] \in Session
      /\ deliveries \in Seq(WebhookDelivery)
  BY DEF TypeInv, TypeOK
<1>1. CASE session'[s] = session[s]
  <2>1. CASE Owes(s) /\ session[s].cause = i
    BY <1>1, <2>1 DEF Announcing, Owes, At
  <2>2. CASE /\ At(s, "recorded") /\ session[s].delivery \in DOMAIN deliveries
             /\ deliveries[session[s].delivery].cause = i
    BY <1>1, <2>2, DeliveriesKept DEF Announcing, At
  <2> QED
    BY <2>1, <2>2 DEF Announcing
<1>2. CASE refresh_ticket(s)
  <2>1. Owes(s) /\ session[s].cause = i
    BY <1>2 DEF Announcing, refresh_ticket, At, Owes
  <2>2. session'[s].pc = "refreshed" /\ session'[s].cause = session[s].cause
    BY <1>2, <1>t DEF refresh_ticket, Session
  <2> QED
    BY <2>1, <2>2 DEF Announcing, Owes, At
<1>3. CASE record_delivery(s)
  <2> DEFINE n == Len(deliveries) + 1
  <2>1. Owes(s) /\ session[s].cause = i
    BY <1>3 DEF Announcing, record_delivery, At, Owes
  <2>2. \E row : deliveries' = Append(deliveries, row) /\ row.cause = i
    BY <1>3, <2>1 DEF record_delivery
  <2>3. n \in DOMAIN deliveries' /\ deliveries'[n].cause = i
    BY <1>t, <2>2
  <2>4. session'[s].pc = "recorded" /\ session'[s].delivery = n
    BY <1>3, <1>t DEF record_delivery, Session
  <2> QED
    BY <2>3, <2>4 DEF Announcing, At
<1>4. CASE dispatch_delivery(s)
  <2> DEFINE d == session[s].delivery
  <2>1. d \in DOMAIN deliveries /\ deliveries[d].cause = i
    BY <1>4 DEF Announcing, dispatch_delivery, At, Owes
  <2>2. deliveries' = [deliveries EXCEPT ![d].dispatched = TRUE]
    BY <1>4 DEF dispatch_delivery
  <2>3. deliveries[d] \in WebhookDelivery
    BY <1>t, <2>1
  <2>4. d \in DOMAIN deliveries' /\ deliveries'[d].cause = i /\ deliveries'[d].dispatched
    BY <1>t, <2>1, <2>2, <2>3 DEF WebhookDelivery
  <2> QED
    BY <2>4 DEF Notified
<1> QED
  BY <1>1, <1>2, <1>3, <1>4, AnnouncerGoesOn DEF Announcing, Notify

\* As long as the webhook is active and nothing fails, every approval and
\* every escalation is notified or is being announced by the session that
\* committed it: it is the safety half of ApprovalsNotifiedUnlessFailed, whose
\* other half is that sessions go on.
THEOREM DecisionsNeverForgotten ==
  Spec => ([](webhook_active /\ failures = 0) => []NotifiedOrOwed)
<1>1. Init => NotifiedOrOwed
  BY DEF Init, NotifiedOrOwed
<1>2. ASSUME TypeInv, NotifiedOrOwed, [Next]_vars, webhook_active, failures' = failures,
             NEW i \in DOMAIN events', Due(i)'
      PROVE  Notified(i)' \/ \E s \in Sessions : Announcing(s, i)'
  <2>1. CASE i \notin DOMAIN events
    BY <1>2, <2>1, DecisionOwed
  <2>2. CASE i \in DOMAIN events
    <3>1. Due(i)
      BY <1>2, <2>2, HistoryKept DEF Due
    <3>2. CASE Notified(i)
      BY <1>2, <3>2, DeliveriesKept DEF Notified
    <3>3. ASSUME NEW s \in Sessions, Announcing(s, i)
          PROVE  Notified(i)' \/ Announcing(s, i)'
      BY <1>2, <3>3, AnnouncementGoesOn
    <3> QED
      BY <1>2, <2>2, <3>1, <3>2, <3>3 DEF NotifiedOrOwed
  <2> QED
    BY <2>1, <2>2
<1>3. /\ TypeInv /\ NotifiedOrOwed /\ [Next]_vars
      /\ (webhook_active /\ failures = 0) /\ (webhook_active /\ failures = 0)'
      => NotifiedOrOwed'
  BY <1>2 DEF NotifiedOrOwed
<1> QED
  BY <1>1, <1>3, TypeInit, TypeStep, PTL DEF Spec

=============================================================================
