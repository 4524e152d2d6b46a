---------------------- MODULE TicketStateMachineProofs ----------------------
(***************************************************************************)
(* Proofs that the interleaved handlers and tasks of TicketService are the *)
(* documented ticket of TicketStateMachine, as far as they decide on a     *)
(* copy of the row that is still current.                                  *)
(***************************************************************************)
EXTENDS TicketRecordsProofs, FiniteSetTheorems

-----------------------------------------------------------------------------
(* Steps on current copies *)

\* A session that decides in this step has seen the row as it is.
CopiesCurrent ==
  \A s \in Sessions :
    At(s, "loaded") /\ session'[s] # session[s] => session[s].seen = Row

\* Only these actions write the ticket.
LEMMA TicketWriters ==
  ASSUME [Next]_vars
  PROVE  \/ UNCHANGED ticketVars
         \/ create_ticket
         \/ \E q \in Requests : approve(q) \/ reject(q) \/ edit_draft(q)
         \/ \E w \in Workers : \E result \in WorkflowResult : complete_run(w, result)
<1>1. ASSUME NEW s \in Sessions, Notify(s)
      PROVE  UNCHANGED ticketVars
  BY <1>1 DEF Notify, refresh_ticket, record_delivery, dispatch_delivery
<1>2. ASSUME NEW q \in Requests,
             \/ \E op \in {"approve", "reject", "edit", "run"} :
                  \E arg \in Body(op) : load_ticket(q, op, arg)
             \/ RequestStep(q)
             \/ abort_request(q)
      PROVE  UNCHANGED ticketVars \/ approve(q) \/ reject(q) \/ edit_draft(q)
  BY <1>1, <1>2 DEF RequestStep, load_ticket, refuse, start_run, dispatch_run,
                    abort_request, Sessions
<1>3. ASSUME NEW w \in Workers,
             \/ \E r \in Requests : receive_run(w, r)
             \/ WorkerStep(w) \/ WorkerFault(w)
      PROVE  UNCHANGED ticketVars \/ \E result \in WorkflowResult : complete_run(w, result)
  BY <1>1, <1>3 DEF WorkerStep, receive_run, fail_run, ack_run, refresh_run,
                    WorkerFault, fail_late, abandon_run, kill_child, crash_worker, Sessions
<1>4. CASE upsert_config \/ UNCHANGED vars
  BY <1>4 DEF upsert_config, vars
<1> QED
  BY <1>2, <1>3, <1>4 DEF Next

\* A decision on a current copy is a step of the documented ticket.
LEMMA CurrentStep ==
  ASSUME LegalInv, [Next]_vars, CopiesCurrent
  PROVE  [StateMachine!Next]_(StateMachine!vars)
<1> USE DEF LegalInv, TypeInv
<1>t. /\ TypeOK
      /\ \A s \in Sessions : session[s] \in Session
  BY DEF TypeOK
<1>s. ASSUME NEW s \in Sessions, At(s, "loaded")
      PROVE  status # None
  BY <1>s DEF ReadInv, At
<1>r. ASSUME NEW s \in Sessions, session[s].seen = Row
      PROVE  /\ session[s].seen.status = status
             /\ session[s].seen.draft = draft_response
             /\ session[s].seen.final = final_response
  BY <1>r DEF Row
<1>f. /\ \A s \in Sessions : Finished(s).pc # "loaded"
      /\ \A s \in Sessions : Committed(s).pc # "loaded"
  BY <1>t DEF Finished, Fresh, Committed, Session
<1>c. ASSUME NEW s \in Sessions, At(s, "loaded"), NEW v,
             session' = [session EXCEPT ![s] = v], v.pc # "loaded"
      PROVE  session[s].seen = Row
  BY <1>c DEF CopiesCurrent, At, TypeOK
<1>1. CASE create_ticket
  BY <1>1 DEF create_ticket, StateMachine!Next, StateMachine!Create
<1>2. ASSUME NEW q \in Requests, approve(q)
      PROVE  StateMachine!Next
  <2>1. q \in Sessions /\ At(q, "loaded")
    BY <1>2 DEF approve, Sessions
  <2>2. session[q].seen = Row
    BY <1>2, <1>c, <1>f, <2>1 DEF approve
  <2>3. FinalText(q) \in Texts
    BY <1>2, FinalTextType DEF approve
  <2>4. /\ status # None /\ can_transition(status, "approved")
        /\ status' = "approved" /\ final_response' = FinalText(q)
        /\ UNCHANGED draft_response
    BY <1>2, <1>s, <1>r, <2>1, <2>2 DEF approve, Flush
  <2>5. StateMachine!Approve(FinalText(q))
    BY <2>4 DEF StateMachine!Approve, StateMachine!Move, StateMachine!can_transition,
                StateMachine!ALLOWED_TRANSITIONS, can_transition, ALLOWED_TRANSITIONS
  <2> QED
    BY <2>3, <2>5 DEF StateMachine!Next
<1>3. ASSUME NEW q \in Requests, reject(q)
      PROVE  StateMachine!Next
  <2>1. q \in Sessions /\ At(q, "loaded")
    BY <1>3 DEF reject, Sessions
  <2>2. session[q].seen = Row
    BY <1>3, <1>c, <1>f, <2>1 DEF reject
  <2>3. /\ status # None /\ can_transition(status, "rejected")
        /\ status' = "rejected" /\ UNCHANGED <<draft_response, final_response>>
    BY <1>3, <1>s, <1>r, <2>1, <2>2 DEF reject, Flush
  <2> QED
    BY <2>3 DEF StateMachine!Next, StateMachine!Reject, StateMachine!Move,
                StateMachine!can_transition, StateMachine!ALLOWED_TRANSITIONS,
                can_transition, ALLOWED_TRANSITIONS
<1>4. ASSUME NEW q \in Requests, edit_draft(q)
      PROVE  StateMachine!Next
  <2>1. q \in Sessions /\ At(q, "loaded")
    BY <1>4 DEF edit_draft, Sessions
  <2>2. session[q].seen = Row
    BY <1>4, <1>c, <1>f, <2>1 DEF edit_draft
  <2>3. session[q].arg \in Texts
    BY <1>4, <1>t, <2>1 DEF edit_draft, IsEmpty, Session, Replies
  <2>4. /\ status # None /\ draft_response' = session[q].arg
        /\ UNCHANGED <<status, final_response>>
    BY <1>4, <1>s, <1>r, <2>1, <2>2 DEF edit_draft, Flush
  <2> QED
    BY <2>3, <2>4 DEF StateMachine!Next, StateMachine!Edit
<1>5. ASSUME NEW w \in Workers, NEW result \in WorkflowResult, complete_run(w, result)
      PROVE  StateMachine!Next
  <2>1. w \in Sessions /\ At(w, "loaded")
    BY <1>5 DEF complete_run, Sessions
  <2>2. AfterRun(w, result.outcome).pc # "loaded"
    <3>1. [session[w] EXCEPT !.pc = "completed"].pc # "loaded"
      BY <1>t, <2>1 DEF Session
    <3> QED
      BY <1>f, <2>1, <3>1 DEF AfterRun
  <2>3. session[w].seen = Row
    BY <1>5, <1>c, <2>1, <2>2 DEF complete_run
  <2>4. /\ status # None /\ can_transition(status, result.outcome)
        /\ status' = result.outcome /\ draft_response' = result.draft
        /\ UNCHANGED final_response
    BY <1>5, <1>s, <1>r, <2>1, <2>3 DEF complete_run, Flush
  <2>5. StateMachine!Run(result.outcome, result.draft)
    BY <2>4 DEF StateMachine!Run, StateMachine!Move, StateMachine!can_transition,
                StateMachine!ALLOWED_TRANSITIONS, can_transition, ALLOWED_TRANSITIONS
  <2>6. \/ result.outcome = "waiting_approval" /\ result.draft \in Texts
        \/ result.outcome = "escalated" /\ result.draft \in Texts \cup {Blank}
    BY DEF WorkflowResult
  <2> QED
    BY <2>5, <2>6 DEF StateMachine!Next
<1>6. CASE UNCHANGED ticketVars
  BY <1>6 DEF ticketVars, StateMachine!vars
<1> QED
  BY <1>1, <1>2, <1>3, <1>4, <1>5, <1>6, TicketWriters

LEMMA StateMachineInit == Init => StateMachine!Init
BY DEF Init, StateMachine!Init

\* However sessions overlap, a step that breaks the documented state machine
\* decided on a copy of the row that another session had outdated: there is
\* no other way to leave it.
THEOREM CurrentCopiesCorrect == Spec => CurrentCopiesFollowStateMachine
<1>1. LegalInv /\ [Next]_vars =>
        [(\A s \in Sessions :
            At(s, "loaded") /\ session'[s] # session[s] => session[s].seen = Row)
          => [StateMachine!Next]_(StateMachine!vars)]_vars
  BY CurrentStep DEF CopiesCurrent
<1> QED
  BY LegalInit, LegalStep, StateMachineInit, <1>1, PTL
     DEF Spec, CurrentCopiesFollowStateMachine

-----------------------------------------------------------------------------
(* One session at a time *)

\* At most one session is at work, and a copy about to be decided on is the
\* committed row.
Alone ==
  /\ \A s, t \in InFlight : s = t
  /\ \A s \in Sessions : At(s, "loaded") => session[s].seen = Row

SerialInv == LegalInv /\ Alone

\* Whoever loads the ticket finds nobody else at work.
LEMMA StartsAlone ==
  ASSUME MaxInFlight = 1, Alone, Cardinality(InFlight) < MaxInFlight
  PROVE  InFlight = {}
<1>1. ASSUME NEW s \in InFlight PROVE FALSE
  <2>1. InFlight = {s}
    BY <1>1 DEF Alone
  <2>2. Cardinality(InFlight) = 1
    BY <2>1, FS_Singleton
  <2> QED
    BY <2>2
<1> QED
  BY <1>1

\* t goes on or stops: the others stand still, and t does not decide on a
\* new copy.
Works(t) ==
  /\ t \in InFlight \/ (session'[t].pc = "idle" /\ UNCHANGED ticketVars)
  /\ \A s \in Sessions : s # t => session'[s] = session[s]
  /\ session'[t].pc # "loaded"

\* t starts on a fresh copy.
Starts(t) ==
  /\ t \in Sessions /\ Cardinality(InFlight) < MaxInFlight
  /\ \A s \in Sessions : s # t => session'[s] = session[s]
  /\ session'[t].seen = Row /\ UNCHANGED ticketVars

LEMMA StepSessions ==
  ASSUME LegalInv, [Next]_vars
  PROVE  \/ /\ \A s \in Sessions : session'[s] = session[s]
            /\ UNCHANGED ticketVars \/ status = None
         \/ \E t \in Sessions : Works(t) \/ Starts(t)
<1> USE DEF LegalInv, TypeInv
<1>t. TypeOK /\ \A s \in Sessions : session[s] \in Session
  BY DEF TypeOK
<1>1. ASSUME NEW t \in Sessions, session[t].pc \notin {"idle", "done"},
             NEW v, session' = [session EXCEPT ![t] = v], v.pc # "loaded"
      PROVE  Works(t)
  BY <1>1, <1>t DEF Works, InFlight, TypeOK
<1>2. /\ \A t \in Sessions : Finished(t).pc # "loaded"
      /\ Fresh.pc # "loaded"
      /\ \A t \in Sessions : Committed(t).pc # "loaded"
  BY <1>t DEF Finished, Fresh, Committed, Session
<1>3. ASSUME NEW t \in Sessions, Notify(t)
      PROVE  Works(t)
  <2>1. CASE refresh_ticket(t)
    <3> DEFINE v == [session[t] EXCEPT !.pc = "refreshed", !.seen = Row]
    <3>1. session' = [session EXCEPT ![t] = v] /\ v.pc # "loaded"
      BY <1>t, <2>1 DEF refresh_ticket, Session
    <3> QED
      BY <1>1, <2>1, <3>1 DEF refresh_ticket, At
  <2>2. CASE record_delivery(t)
    <3> DEFINE v == [session[t] EXCEPT !.pc = "recorded", !.delivery = Len(deliveries) + 1]
    <3>1. v.pc # "loaded"
      BY <1>t DEF Session
    <3>2. \/ session' = [session EXCEPT ![t] = v]
          \/ session' = [session EXCEPT ![t] = Finished(t)]
      BY <2>2 DEF record_delivery
    <3> QED
      BY <1>1, <1>2, <2>2, <3>1, <3>2 DEF record_delivery, At
  <2>3. CASE dispatch_delivery(t)
    BY <1>1, <1>2, <2>3 DEF dispatch_delivery, At
  <2> QED
    BY <1>3, <2>1, <2>2, <2>3 DEF Notify
<1>4. ASSUME NEW q \in Requests, NEW op, NEW arg, load_ticket(q, op, arg)
      PROVE  q \in Sessions /\ Starts(q)
  <2> DEFINE v == [Fresh EXCEPT !.pc = "loaded", !.op = op, !.arg = arg,
                                !.seen = Row, !.since = Len(events)]
  <2>1. /\ session' = [session EXCEPT ![q] = v] /\ v.seen = Row
        /\ UNCHANGED ticketVars /\ Cardinality(InFlight) < MaxInFlight
    BY <1>4 DEF load_ticket, Fresh
  <2> HIDE DEF v
  <2> QED
    BY <1>t, <2>1 DEF Starts, Sessions, TypeOK
<1>5. ASSUME NEW w \in Workers, NEW r \in Requests, receive_run(w, r)
      PROVE  w \in Sessions /\ Starts(w)
  <2> DEFINE v == [Fresh EXCEPT !.pc = "loaded", !.op = "execute", !.run = r,
                                !.seen = Row, !.since = Len(events)]
  <2>1. /\ session' = [session EXCEPT ![w] = v] /\ v.seen = Row
        /\ UNCHANGED ticketVars /\ Cardinality(InFlight) < MaxInFlight
    BY <1>5 DEF receive_run, Fresh
  <2> HIDE DEF v
  <2> QED
    BY <1>t, <2>1 DEF Starts, Sessions, TypeOK
<1>6. ASSUME NEW q \in Requests, RequestStep(q) \/ abort_request(q)
      PROVE  q \in Sessions /\ Works(q)
  <2>1. q \in Sessions
    BY DEF Sessions
  <2>2. CASE approve(q)
    BY <1>1, <1>2, <2>1, <2>2 DEF approve, At
  <2>3. CASE start_run(q)
    <3>1. /\ session' = [session EXCEPT ![q] = [session[q] EXCEPT !.pc = "started"]]
          /\ [session[q] EXCEPT !.pc = "started"].pc # "loaded"
      BY <1>t, <2>1, <2>3 DEF start_run, Session
    <3> QED
      BY <1>1, <2>1, <2>3, <3>1 DEF start_run, At
  <2>4. CASE refuse(q) \/ reject(q) \/ edit_draft(q) \/ dispatch_run(q) \/ abort_request(q)
    <3>1. /\ session' = [session EXCEPT ![q] = Finished(q)]
          /\ session[q].pc \notin {"idle", "done"}
      BY <2>4 DEF refuse, reject, edit_draft, dispatch_run, abort_request, At
    <3> QED
      BY <1>1, <1>2, <2>1, <3>1
  <2> QED
    BY <1>3, <1>6, <2>1, <2>2, <2>3, <2>4 DEF RequestStep
<1>7. ASSUME NEW w \in Workers, WorkerStep(w) \/ WorkerFault(w)
      PROVE  w \in Sessions /\ Works(w)
  <2>1. w \in Sessions
    BY DEF Sessions
  <2>2. ASSUME NEW result \in WorkflowResult, complete_run(w, result)
        PROVE  Works(w)
    <3>1. /\ session' = [session EXCEPT ![w] = AfterRun(w, result.outcome)]
          /\ session[w].pc \notin {"idle", "done"}
      BY <2>2 DEF complete_run, At
    <3>2. AfterRun(w, result.outcome).pc # "loaded"
      <4>1. [session[w] EXCEPT !.pc = "completed"].pc # "loaded"
        BY <1>t, <2>1 DEF Session
      <4> QED
        BY <1>2, <2>1, <4>1 DEF AfterRun
    <3> QED
      BY <1>1, <2>1, <3>1, <3>2
  <2>3. CASE \/ (\E why \in {"workflow", "transition"} : fail_run(w, why))
             \/ refresh_run(w) \/ fail_late(w) \/ abandon_run(w)
    BY <1>1, <1>2, <2>1, <2>3 DEF fail_run, refresh_run, fail_late, abandon_run, AfterCommit, At
  <2>4. CASE ack_run(w)
    BY <1>1, <1>2, <2>1, <2>4 DEF ack_run, At
  <2>5. CASE kill_child(w) \/ crash_worker(w)
    BY <1>t, <2>1, <2>5 DEF kill_child, crash_worker, Works, Fresh, TypeOK
  <2> QED
    BY <1>3, <1>7, <2>1, <2>2, <2>3, <2>4, <2>5 DEF WorkerStep, WorkerFault
<1>8. CASE create_ticket \/ upsert_config \/ UNCHANGED vars
  BY <1>8 DEF create_ticket, upsert_config, vars
<1> QED
  BY <1>4, <1>5, <1>6, <1>7, <1>8 DEF Next

LEMMA AloneStep ==
  ASSUME MaxInFlight = 1, SerialInv, [Next]_vars
  PROVE  SerialInv'
<1> USE DEF SerialInv
<1>1. LegalInv'
  BY LegalStep
<1>2. CASE /\ \A s \in Sessions : session'[s] = session[s]
           /\ UNCHANGED ticketVars \/ status = None
  <2>1. InFlight' = InFlight
    BY <1>2 DEF InFlight
  <2>2. ASSUME NEW s \in Sessions, At(s, "loaded")'
        PROVE  session'[s].seen = Row'
    <3>1. At(s, "loaded") /\ session'[s] = session[s]
      BY <1>2, <2>2 DEF At
    <3>2. status # None
      BY <3>1 DEF LegalInv, ReadInv, At
    <3> QED
      BY <1>2, <3>1, <3>2 DEF Alone, Row, ticketVars
  <2> QED
    BY <1>1, <2>1, <2>2 DEF Alone, Sessions
<1>3. ASSUME NEW t \in Sessions, Works(t)
      PROVE  Alone'
  <2>1. InFlight' \subseteq InFlight
    BY <1>3 DEF Works, InFlight, Sessions
  <2>2. ASSUME NEW s \in Sessions, At(s, "loaded")'
        PROVE  session'[s].seen = Row'
    <3>1. s # t /\ session'[s] = session[s] /\ At(s, "loaded")
      BY <1>3, <2>2 DEF Works, At
    <3>2. s \in InFlight /\ t \notin InFlight
      BY <3>1 DEF At, InFlight, Alone
    <3>3. UNCHANGED ticketVars
      BY <1>3, <3>2 DEF Works
    <3> QED
      BY <3>1, <3>3 DEF Alone, Row, ticketVars
  <2> QED
    BY <2>1, <2>2 DEF Alone, Sessions
<1>4. ASSUME NEW t \in Sessions, Starts(t)
      PROVE  Alone'
  <2>1. InFlight = {}
    BY <1>4, StartsAlone DEF Starts
  <2>2. InFlight' \subseteq {t}
    BY <1>4, <2>1 DEF Starts, InFlight, Sessions
  <2>3. ASSUME NEW s \in Sessions, At(s, "loaded")'
        PROVE  session'[s].seen = Row'
    <3>1. s = t
      BY <2>2, <2>3 DEF InFlight, At, Sessions
    <3> QED
      BY <1>4, <3>1 DEF Starts, Row, ticketVars
  <2> QED
    BY <2>2, <2>3 DEF Alone, Sessions
<1> QED
  BY <1>1, <1>2, <1>3, <1>4, StepSessions

\* While no two sessions overlap, the code implements the documented ticket,
\* whatever stops or is redelivered.
THEOREM SerialRefinement ==
  ASSUME MaxInFlight = 1
  PROVE  Spec => RefinesStateMachine
<1>1. Init => SerialInv
  <2> SUFFICES ASSUME Init PROVE Alone
    BY LegalInit DEF SerialInv
  <2> QED
    BY DEF Init, Alone, InFlight, At, Fresh
<1>2. SerialInv /\ [Next]_vars => SerialInv'
  BY AloneStep
<1>3. SerialInv /\ [Next]_vars => [StateMachine!Next]_(StateMachine!vars)
  BY CurrentStep DEF SerialInv, Alone, CopiesCurrent
<1> QED
  BY StateMachineInit, <1>1, <1>2, <1>3, PTL DEF Spec, StateMachine!Spec, RefinesStateMachine

=============================================================================
