--------------------------- MODULE DashboardProofs ---------------------------
(***************************************************************************)
(* Proofs about the ticket page of Dashboard, for any replies and for any  *)
(* number of clicks, of changes by others and of failures.                 *)
(***************************************************************************)
EXTENDS Dashboard, TLAPS

-----------------------------------------------------------------------------
(* Type correctness *)

Ops == {"run", "approve", "reject", "edit"}

\* A request on its way asks for something, and one that sends a reply
\* sends one that is not empty: the buttons see to that.
RequestsMeant ==
  \A c \in Clicks : calls[c].pc = "sent" =>
    /\ calls[c].op \in Ops
    /\ calls[c].op \in {"approve", "edit"} => calls[c].text \in Texts

TypeInv == TypeOK /\ RequestsMeant

LEMMA InitialTextType ==
  ASSUME NEW row \in RowType
  PROVE  InitialText(row) \in Texts \cup {Blank}
BY DEF InitialText, RowType, Replies

\* What the page does with its requests keeps their types.
LEMMA CallTypes ==
  ASSUME TypeInv, NEW c \in Clicks
  PROVE  /\ calls[c] \in Call /\ Answered \in Call /\ NoCall \in Call
         /\ [calls[c] EXCEPT !.own = FALSE] \in Call
BY DEF TypeInv, TypeOK, Call, Answered, NoCall, Replies, Versions

LEMMA DisownedType ==
  ASSUME TypeInv, calls' = Disowned
  PROVE  calls' \in [Clicks -> Call] /\ RequestsMeant'
<1>1. ASSUME NEW c \in Clicks
      PROVE  /\ calls'[c] \in Call
             /\ calls'[c].pc = calls[c].pc /\ calls'[c].op = calls[c].op
             /\ calls'[c].text = calls[c].text
  <2>1. calls'[c] = [calls[c] EXCEPT !.own = FALSE]
    BY DEF Disowned
  <2> QED
    BY <2>1, CallTypes DEF Call
<1> QED
  BY <1>1 DEF TypeInv, RequestsMeant, Disowned

\* The ticket a legal request or somebody else leaves behind.
LEMMA ServerTypes ==
  ASSUME TypeOK,
         \/ \E text \in Texts : Server!Approve(text) \/ Server!Edit(text)
         \/ Server!Reject
         \/ Server!Next
  PROVE  Row' \in RowType
<1>1. status \in TicketStatus /\ draft_response \in Replies /\ final_response \in Texts \cup {None}
  BY DEF TypeOK, Row, RowType
<1>2. status' \in TicketStatus
  BY <1>1 DEF Server!Next, Server!Create, Server!Approve, Server!Edit, Server!Reject, Server!Run,
              Server!Move, TicketStatus
<1>3. draft_response' \in Replies /\ final_response' \in Texts \cup {None}
  BY <1>1 DEF Server!Next, Server!Create, Server!Approve, Server!Edit, Server!Reject, Server!Run,
              Server!Move, Replies
<1> QED
  BY <1>2, <1>3 DEF Row, RowType

\* The change a request makes.
LEMMA ServeEffect ==
  ASSUME TypeInv, NEW c \in Clicks, serve(c), calls[c].op # "run"
  PROVE  \/ \E text \in Texts : Server!Approve(text) \/ Server!Edit(text)
         \/ Server!Reject
BY DEF TypeInv, RequestsMeant, serve, Effect, Ops

LEMMA TypeInit == Init => TypeInv
<1> SUFFICES ASSUME Init PROVE TypeInv
  OBVIOUS
<1>1. calls \in [Clicks -> Call] /\ RequestsMeant
  BY DEF Init, NoCall, Call, RequestsMeant, Replies, Versions
<1>2. Row \in RowType
  BY DEF Init, Row, RowType, TicketStatus, Replies
<1>3. token \in Roles \cup {None} /\ open \in BOOLEAN /\ failed \in BOOLEAN /\ touched \in BOOLEAN
  BY DEF Init
<1>4. /\ version \in Versions /\ changes \in 0..MaxChanges
      /\ acked \in Versions /\ failures \in 0..MaxFailures
  BY ConstantsAssumption DEF Init, Versions
<1> QED
  BY <1>1, <1>2, <1>3, <1>4 DEF Init, TypeInv, TypeOK

LEMMA TypePage ==
  ASSUME TypeInv,
         \/ open_page \/ reconnect \/ leave_page \/ drop_cache
         \/ \E text \in Texts \cup {Blank} : type_text(text)
         \/ receive_ticket \/ fetch_fails \/ unauthorized \/ logout \/ login
  PROVE  TypeInv'
<1> USE DEF TypeInv
<1>t. cache # None => cache \in Copy
  BY DEF TypeOK
<1>r. UNCHANGED ticketVars => Row' = Row
  BY DEF ticketVars, Row
<1>1. CASE open_page
  <2>1. field' \in Texts \cup {Blank} /\ touched' \in BOOLEAN
    BY <1>1, <1>t, InitialTextType DEF open_page, TypeOK, Copy
  <2>2. fetch' \in {fetch, Sent} /\ failed' \in BOOLEAN
    BY <1>1 DEF open_page, TypeOK
  <2> QED
    BY <1>1, <1>r, <2>1, <2>2 DEF TypeOK, RequestsMeant, open_page, ticketVars
<1>2. CASE reconnect
  BY <1>2, <1>r DEF TypeOK, RequestsMeant, reconnect, ticketVars, pageVars
<1>3. CASE leave_page
  BY <1>3, <1>r, DisownedType DEF TypeOK, leave_page, PanelGone, ticketVars
<1>4. CASE drop_cache
  BY <1>4, <1>r DEF TypeOK, RequestsMeant, drop_cache, ticketVars
<1>5. ASSUME NEW text \in Texts \cup {Blank}, type_text(text)
      PROVE  TypeInv'
  BY <1>5, <1>r DEF TypeOK, RequestsMeant, type_text, ticketVars
<1>6. CASE receive_ticket
  <2>1. fetch.data \in Copy
    BY <1>6 DEF receive_ticket, TypeOK, NoFetch, Sent
  <2>2. field' \in Texts \cup {Blank} /\ touched' \in BOOLEAN
    BY <1>6, <2>1, InitialTextType DEF receive_ticket, TypeOK, Copy
  <2> QED
    BY <1>6, <1>r, <2>1, <2>2 DEF TypeOK, RequestsMeant, receive_ticket, ticketVars
<1>7. CASE fetch_fails
  <2>1. failures' \in 0..MaxFailures
    BY <1>7, ConstantsAssumption DEF fetch_fails, TypeOK
  <2> QED
    BY <1>7, <1>r, <2>1, DisownedType DEF TypeOK, fetch_fails, PanelGone, ticketVars
<1>8. CASE unauthorized
  <2>1. failures' \in 0..MaxFailures
    BY <1>8, ConstantsAssumption DEF unauthorized, TypeOK
  <2>2. ASSUME NEW c \in Clicks
        PROVE  calls'[c] \in Call /\ calls'[c].pc # "sent"
    BY <1>8, CallTypes DEF unauthorized, Underway, Answered, Call, NoCall
  <2>3. calls' \in [Clicks -> Call] /\ RequestsMeant'
    BY <1>8, <2>2 DEF unauthorized, RequestsMeant
  <2> QED
    BY <1>8, <1>r, <2>1, <2>3 DEF TypeOK, unauthorized, PanelGone, ticketVars, Versions
<1>9. CASE login
  BY <1>9, <1>r DEF TypeOK, RequestsMeant, login, ticketVars
<1>10. CASE logout
  <2>1. failures' \in 0..MaxFailures
    BY <1>10, ConstantsAssumption DEF logout, TypeOK
  <2> QED
    BY <1>10, <1>r, <2>1, DisownedType DEF TypeOK, logout, PanelGone, ticketVars
<1> QED
  BY <1>1, <1>2, <1>3, <1>4, <1>5, <1>6, <1>7, <1>8, <1>9, <1>10

LEMMA TypeCalls ==
  ASSUME TypeInv, NEW c \in Clicks,
         \/ \E op \in Ops : click(c, op)
         \/ receive_ok(c) \/ receive_error(c)
         \/ serve(c) \/ serve_refused(c) \/ call_fails(c)
  PROVE  TypeInv'
<1> USE DEF TypeInv
<1>t. calls \in [Clicks -> Call] /\ version \in Nat /\ (cache # None => cache \in Copy)
  BY DEF TypeOK, Versions
<1>r. UNCHANGED ticketVars => Row' = Row
  BY DEF ticketVars, Row
<1>u. ASSUME NEW v \in Call, calls' = [calls EXCEPT ![c] = v], v.pc # "sent"
      PROVE  calls' \in [Clicks -> Call] /\ RequestsMeant'
  BY <1>t, <1>u DEF RequestsMeant
<1>a. ASSUME NEW pc \in {"ok", "refused", "error"}, NEW at \in Nat, Answer(c, pc, at)
      PROVE  calls' \in [Clicks -> Call] /\ RequestsMeant'
  <2> DEFINE v == [calls[c] EXCEPT !.pc = pc, !.at = at]
  <2>1. v \in Call /\ v.pc # "sent"
    BY <1>t DEF Call, Versions
  <2>2. calls' = [calls EXCEPT ![c] = v]
    BY <1>a, <1>t DEF Answer, Call
  <2> QED
    BY <1>u, <2>1, <2>2
<1>1. ASSUME NEW op \in Ops, click(c, op)
      PROVE  TypeInv'
  <2> DEFINE v == [pc |-> "sent", op |-> op, by |-> token,
                   text |-> IF op \in {"approve", "edit"} THEN field ELSE None,
                   shown |-> cache.version, at |-> 0, own |-> TRUE]
  <2>1. cache \in Copy /\ field \in Texts \cup {Blank}
    BY <1>1, <1>t DEF click, Mounted, TypeOK
  <2>2. v \in Call
    BY <2>1 DEF Call, Copy, Versions, Ops, Replies, TypeOK
  <2>3. op \in {"approve", "edit"} => field \in Texts
    BY <1>1, <2>1 DEF click, Enabled
  <2>4. calls' = [calls EXCEPT ![c] = v]
    BY <1>1 DEF click
  <2>5. calls' \in [Clicks -> Call] /\ RequestsMeant'
    BY <1>t, <2>2, <2>3, <2>4 DEF RequestsMeant
  <2> QED
    BY <1>1, <1>r, <2>5 DEF TypeOK, click, ticketVars, pageVars
<1>2. CASE receive_ok(c)
  <2>1. calls' \in [Clicks -> Call] /\ RequestsMeant'
    BY <1>2, <1>u, CallTypes DEF receive_ok, Answered, NoCall
  <2>2. acked' \in Versions /\ fetch' \in {fetch, Sent}
    BY <1>2, <1>t DEF receive_ok, Invalidated, TypeOK, Call
  <2> QED
    BY <1>2, <1>r, <2>1, <2>2 DEF TypeOK, receive_ok, ticketVars, pageVars
<1>3. CASE receive_error(c)
  <2>1. calls' \in [Clicks -> Call] /\ RequestsMeant'
    BY <1>3, <1>u, CallTypes DEF receive_error, Answered, NoCall
  <2> QED
    BY <1>3, <1>r, <2>1 DEF TypeOK, receive_error, ticketVars, pageVars
<1>4. CASE serve(c)
  <2>1. CASE calls[c].op = "run"
    <3>1. Answer(c, "ok", version) /\ UNCHANGED ticketVars
      BY <1>4, <2>1 DEF serve
    <3> QED
      BY <1>4, <1>r, <1>a, <1>t, <3>1 DEF TypeOK, serve, Answer, ticketVars, pageVars
  <2>2. CASE calls[c].op # "run"
    <3>1. Answer(c, "ok", version + 1) /\ version' = version + 1
      BY <1>4, <2>2 DEF serve
    <3>2. Row' \in RowType
      BY <1>4, <2>2, ServeEffect, ServerTypes
    <3>3. calls' \in [Clicks -> Call] /\ RequestsMeant'
      BY <1>a, <1>t, <3>1
    <3> QED
      BY <1>4, <1>t, <3>1, <3>2, <3>3 DEF TypeOK, serve, Answer, pageVars, Versions
  <2> QED
    BY <2>1, <2>2
<1>5. CASE serve_refused(c)
  <2>1. calls' \in [Clicks -> Call] /\ RequestsMeant'
    BY <1>5, <1>a, <1>t DEF serve_refused
  <2> QED
    BY <1>5, <1>r, <2>1 DEF TypeOK, serve_refused, Answer, ticketVars, pageVars
<1>6. CASE call_fails(c)
  <2>1. calls' \in [Clicks -> Call] /\ RequestsMeant'
    BY <1>6, <1>a, <1>t DEF call_fails, Call, Versions
  <2>2. failures' \in 0..MaxFailures
    BY <1>6, ConstantsAssumption DEF call_fails, TypeOK
  <2> QED
    BY <1>6, <1>r, <2>1, <2>2 DEF TypeOK, call_fails, Answer, ticketVars, pageVars
<1> QED
  BY <1>1, <1>2, <1>3, <1>4, <1>5, <1>6

LEMMA TypeStep == TypeInv /\ [Next]_vars => TypeInv'
<1> SUFFICES ASSUME TypeInv, [Next]_vars PROVE TypeInv'
  OBVIOUS
<1>1. CASE serve_ticket
  <2>1. [pc |-> "answered", data |-> Fetched] \in [pc : {"answered"}, data : Copy]
    BY DEF TypeInv, TypeOK, Fetched, Copy
  <2> QED
    BY <1>1, <2>1 DEF TypeInv, TypeOK, RequestsMeant, serve_ticket, ticketVars, pageVars, Row
<1>2. CASE other_change
  <2>1. Row' \in RowType
    BY <1>2, ServerTypes DEF TypeInv, other_change
  <2>2. version' \in Versions /\ changes' \in 0..MaxChanges
    BY <1>2, ConstantsAssumption DEF other_change, TypeInv, TypeOK, Versions
  <2> QED
    BY <1>2, <2>1, <2>2 DEF TypeInv, TypeOK, RequestsMeant, other_change, pageVars
<1>3. CASE UNCHANGED vars
  BY <1>3 DEF TypeInv, TypeOK, RequestsMeant, vars, ticketVars, pageVars, Row
<1> QED
  BY <1>1, <1>2, <1>3, TypePage, TypeCalls DEF Next, Ops

\* Page, requests and ticket keep their types.
THEOREM TypeCorrect == Spec => []TypeOK
<1>1. Spec => []TypeInv
  BY TypeInit, TypeStep, PTL DEF Spec
<1> QED
  BY <1>1, PTL DEF TypeInv

-----------------------------------------------------------------------------
(* Copies of the ticket *)

\* A copy is not ahead of the ticket, and of its latest version it is exact.
Faithful(copy) ==
  /\ copy.version <= version
  /\ copy.version = version => copy.row = Row

CopiesInv ==
  /\ cache # None => Faithful(cache)
  /\ fetch.pc = "answered" => Faithful(fetch.data)

\* Whoever changes the ticket numbers the change and touches no copy; a
\* copy is made of the ticket as it is, and only handed on.
LEMMA StepCopies ==
  ASSUME TypeInv, [Next]_vars
  PROVE  /\ \/ UNCHANGED ticketVars
            \/ version' = version + 1 /\ UNCHANGED <<cache, fetch, acked>>
         /\ cache' \in {cache, None} \/ (fetch.pc = "answered" /\ cache' = fetch.data)
         /\ \/ fetch' \in {fetch, NoFetch, Sent}
            \/ fetch' = [pc |-> "answered", data |-> Fetched] /\ UNCHANGED ticketVars
<1> DEFINE P == /\ \/ UNCHANGED ticketVars
                   \/ version' = version + 1 /\ UNCHANGED <<cache, fetch, acked>>
                /\ cache' \in {cache, None} \/ (fetch.pc = "answered" /\ cache' = fetch.data)
                /\ \/ fetch' \in {fetch, NoFetch, Sent}
                   \/ fetch' = [pc |-> "answered", data |-> Fetched] /\ UNCHANGED ticketVars
<1>1. CASE \/ open_page \/ reconnect \/ leave_page \/ drop_cache
           \/ \E text \in Texts \cup {Blank} : type_text(text)
           \/ receive_ticket \/ fetch_fails \/ unauthorized \/ logout \/ login
  BY <1>1 DEF open_page, reconnect, leave_page, drop_cache, type_text, receive_ticket,
              fetch_fails, unauthorized, logout, login, pageVars, ticketVars
<1>2. CASE serve_ticket \/ other_change \/ UNCHANGED vars
  BY <1>2 DEF serve_ticket, other_change, vars, pageVars, ticketVars
<1>3. ASSUME NEW c \in Clicks,
             \/ \E op \in Ops : click(c, op)
             \/ receive_ok(c) \/ receive_error(c)
             \/ serve(c) \/ serve_refused(c) \/ call_fails(c)
      PROVE  P
  BY <1>3 DEF click, receive_ok, receive_error, serve, serve_refused, call_fails,
              Answer, Invalidated, pageVars, ticketVars
<1> QED
  BY <1>1, <1>2, <1>3 DEF Next, Ops

LEMMA CopiesStep ==
  ASSUME TypeInv, CopiesInv, [Next]_vars
  PROVE  CopiesInv'
<1>t. version \in Nat /\ (cache # None => cache \in Copy)
      /\ (fetch.pc = "answered" => fetch.data \in Copy)
  BY DEF TypeInv, TypeOK, Versions, NoFetch, Sent
<1>1. CASE UNCHANGED ticketVars
  <2>1. Row' = Row /\ version' = version
    BY <1>1 DEF ticketVars, Row
  <2>2. \A copy : Faithful(copy) =>
          (copy.version <= version' /\ (copy.version = version' => copy.row = Row'))
    BY <2>1 DEF Faithful
  <2>3. Faithful(Fetched)
    BY <1>t DEF Faithful, Fetched
  <2>4. cache' # None => Faithful(cache)'
    BY <2>2, StepCopies DEF CopiesInv, Faithful
  <2>5. fetch'.pc = "answered" => Faithful(fetch.data)'
    BY <2>2, <2>3, StepCopies DEF CopiesInv, Faithful, NoFetch, Sent
  <2> QED
    BY <2>4, <2>5 DEF CopiesInv
<1>2. CASE version' = version + 1 /\ UNCHANGED <<cache, fetch>>
  BY <1>2, <1>t DEF CopiesInv, Faithful, Copy, Versions
<1> QED
  BY <1>1, <1>2, StepCopies

-----------------------------------------------------------------------------
(* The page shows its own writes *)

\* What is known to have succeeded is in every answer under way and, once
\* nothing is, in the cache: a success replaces the fetch of what is shown.
WritesInv ==
  /\ acked <= version
  /\ \A c \in Clicks : calls[c].at <= version
  /\ fetch.pc = "answered" => fetch.data.version >= acked
  /\ cache # None /\ ~failed /\ fetch = NoFetch => cache.version >= acked

ShowsInv == TypeInv /\ WritesInv

\* The answers of the server carry versions that exist.
LEMMA AnswersExist ==
  ASSUME ShowsInv, [Next]_vars, NEW c \in Clicks
  PROVE  calls'[c].at <= version'
<1> USE DEF ShowsInv, TypeInv
<1>t. /\ version \in Nat /\ calls \in [Clicks -> Call] /\ calls[c] \in Call
      /\ calls[c].at \in Nat /\ calls[c].at <= version
  BY DEF TypeOK, Versions, Call, WritesInv
<1>v. version' \in Nat /\ version <= version'
  BY <1>t, StepCopies DEF ticketVars
<1>1. ASSUME NEW b \in Clicks, NEW pc, NEW at \in Nat, Answer(b, pc, at), at <= version'
      PROVE  calls'[c].at <= version'
  <2>1. b # c => calls'[c] = calls[c]
    BY <1>1, <1>t DEF Answer
  <2>2. b = c => calls'[c] = [calls[c] EXCEPT !.pc = pc, !.at = at]
    BY <1>1, <1>t DEF Answer
  <2>3. b = c => calls'[c].at = at
    BY <1>t, <2>2 DEF Call
  <2> QED
    BY <1>1, <1>t, <1>v, <2>1, <2>3
<1>2. CASE UNCHANGED calls
  BY <1>2, <1>t, <1>v
<1>3. CASE calls' = Disowned
  <2>1. calls'[c].at = calls[c].at
    BY <1>3, <1>t DEF Disowned, Call
  <2> QED
    BY <1>t, <1>v, <2>1
<1>4. CASE unauthorized
  <2>1. calls'[c] \in {Answered, calls[c]} /\ Answered.at = 0
    BY <1>4 DEF unauthorized, Answered, NoCall
  <2> QED
    BY <1>t, <1>v, <2>1
<1>5. ASSUME NEW b \in Clicks, (\E op \in Ops : click(b, op)) \/ receive_ok(b) \/ receive_error(b)
      PROVE  calls'[c].at <= version'
  <2>1. PICK v : calls' = [calls EXCEPT ![b] = v] /\ v.at = 0
    BY <1>5 DEF click, receive_ok, receive_error, Answered, NoCall
  <2> QED
    BY <1>t, <1>v, <2>1
<1>6. ASSUME NEW b \in Clicks, serve(b) \/ serve_refused(b) \/ call_fails(b)
      PROVE  calls'[c].at <= version'
  <2>1. calls[b].at \in Nat /\ calls[b].at <= version
    BY <1>t DEF TypeOK, Call, Versions, WritesInv
  <2>2. \/ Answer(b, "ok", version) \/ Answer(b, "refused", version)
        \/ Answer(b, "error", calls[b].at)
        \/ Answer(b, "ok", version + 1) /\ version' = version + 1
    BY <1>6 DEF serve, serve_refused, call_fails
  <2> QED
    BY <1>1, <1>t, <1>v, <2>1, <2>2
<1>7. CASE \/ open_page \/ reconnect \/ drop_cache
           \/ \E text \in Texts \cup {Blank} : type_text(text)
           \/ receive_ticket \/ login \/ serve_ticket \/ other_change \/ UNCHANGED vars
  BY <1>2, <1>7 DEF open_page, reconnect, drop_cache, type_text, receive_ticket, login,
                    serve_ticket, other_change, vars
<1> QED
  BY <1>3, <1>4, <1>5, <1>6, <1>7 DEF Next, Ops, leave_page, fetch_fails, logout

LEMMA WritesStep ==
  ASSUME ShowsInv, [Next]_vars
  PROVE  WritesInv'
<1> USE DEF ShowsInv
<1>t. /\ version \in Nat /\ acked \in Nat /\ acked <= version
      /\ fetch.pc = "answered" => fetch.data.version \in Nat /\ fetch.data.version >= acked
      /\ \A c \in Clicks : calls[c].at \in Nat /\ calls[c].at <= version
  BY DEF TypeInv, TypeOK, Versions, Call, Copy, WritesInv, NoFetch, Sent
<1>v. version' \in Nat /\ version <= version'
  BY <1>t, StepCopies DEF ticketVars
<1> DEFINE Rest ==
      /\ acked' <= version'
      /\ fetch'.pc = "answered" => fetch'.data.version >= acked'
      /\ cache' # None /\ ~failed' /\ fetch' = NoFetch => cache'.version >= acked'
<1>1. ASSUME UNCHANGED <<cache, failed, fetch, acked>> PROVE Rest
  BY <1>1, <1>t, <1>v DEF WritesInv
<1>2. ASSUME open_page PROVE Rest
  BY <1>2, <1>t, <1>v DEF open_page, WritesInv, Sent, NoFetch
<1>3. ASSUME reconnect PROVE Rest
  BY <1>3, <1>t, <1>v DEF reconnect, Sent, NoFetch
<1>4. ASSUME drop_cache PROVE Rest
  BY <1>4, <1>t, <1>v DEF drop_cache, NoFetch
<1>5. ASSUME receive_ticket PROVE Rest
  BY <1>5, <1>t, <1>v DEF receive_ticket, NoFetch
<1>6. ASSUME fetch_fails PROVE Rest
  BY <1>6, <1>t, <1>v DEF fetch_fails, NoFetch
<1>7. ASSUME unauthorized PROVE Rest
  BY <1>7, <1>v DEF unauthorized, NoFetch
<1>8. ASSUME NEW c \in Clicks, receive_ok(c)
      PROVE  Rest
  <2>1. UNCHANGED <<version, cache, failed>>
    BY <1>8 DEF receive_ok, ticketVars, pageVars
  <2>2. CASE open
    BY <1>8, <1>t, <2>1, <2>2 DEF receive_ok, Invalidated, Sent, NoFetch
  <2>3. CASE ~open
    BY <1>8, <1>t, <2>1, <2>3 DEF receive_ok, Invalidated, WritesInv
  <2> QED
    BY <2>2, <2>3
<1>9. ASSUME serve_ticket PROVE Rest
  BY <1>9, <1>t, <1>v DEF serve_ticket, Fetched, NoFetch, pageVars
<1>10. ASSUME \/ leave_page \/ logout \/ login \/ other_change \/ UNCHANGED vars
              \/ \E text \in Texts \cup {Blank} : type_text(text)
       PROVE  Rest
  BY <1>1, <1>10 DEF leave_page, logout, login, other_change, type_text, vars, pageVars
<1>11. ASSUME NEW c \in Clicks,
              \/ \E op \in Ops : click(c, op)
              \/ receive_error(c) \/ serve(c) \/ serve_refused(c) \/ call_fails(c)
       PROVE  Rest
  BY <1>1, <1>11 DEF click, receive_error, serve, serve_refused, call_fails, Answer, pageVars
<1>12. Rest
  BY <1>1, <1>2, <1>3, <1>4, <1>5, <1>6, <1>7, <1>8, <1>9, <1>10, <1>11 DEF Next, Ops
<1> QED
  BY <1>12, AnswersExist DEF WritesInv, Clicks

\* A page at rest shows no ticket older than the latest change that it was
\* told had succeeded (onSuccess invalidates, an older fetch is cancelled).
THEOREM ShowsOwnWritesCorrect == Spec => []ShowsOwnWrites
<1>1. Init => ShowsInv
  <2> SUFFICES ASSUME Init PROVE WritesInv
    BY TypeInit DEF ShowsInv
  <2> QED
    BY DEF Init, WritesInv, NoCall, NoFetch
<1>2. ShowsInv /\ [Next]_vars => ShowsInv'
  BY WritesStep, TypeStep DEF ShowsInv
<1>3. ShowsInv => ShowsOwnWrites
  BY DEF ShowsInv, WritesInv, ShowsOwnWrites, Mounted
<1> QED
  BY <1>1, <1>2, <1>3, PTL DEF Spec

-----------------------------------------------------------------------------
(* Refusals *)

\* What a button asks for is legal for the ticket on which it was clicked.
RefusalInv ==
  \A c \in Clicks :
    /\ calls[c].pc = "sent" =>
         /\ calls[c].by \in Roles
         /\ calls[c].shown <= version
         /\ calls[c].shown = version => Legal(c)
    /\ calls[c].pc = "refused" => calls[c].at > calls[c].shown \/ calls[c].by = "viewer"

\* Nobody is shown a page without a token.
LoggedIn == open => token # None

ButtonsInv == TypeInv /\ CopiesInv /\ LoggedIn /\ RefusalInv

LEMMA LoggedInStep == LoggedIn /\ [Next]_vars => LoggedIn'
<1> SUFFICES ASSUME LoggedIn, [Next]_vars PROVE LoggedIn'
  OBVIOUS
<1>1. CASE \/ open_page \/ reconnect \/ leave_page \/ drop_cache
           \/ \E text \in Texts \cup {Blank} : type_text(text)
           \/ receive_ticket \/ fetch_fails \/ unauthorized \/ logout \/ login
  BY <1>1, ConstantsAssumption
     DEF LoggedIn, open_page, Ready, reconnect, leave_page, drop_cache, type_text,
         receive_ticket, fetch_fails, unauthorized, logout, login, pageVars
<1>2. CASE serve_ticket \/ other_change \/ UNCHANGED vars
  BY <1>2 DEF LoggedIn, serve_ticket, other_change, vars, pageVars
<1>3. ASSUME NEW c \in Clicks,
             \/ \E op \in Ops : click(c, op)
             \/ receive_ok(c) \/ receive_error(c)
             \/ serve(c) \/ serve_refused(c) \/ call_fails(c)
      PROVE  UNCHANGED pageVars
  BY <1>3 DEF click, receive_ok, receive_error, serve, serve_refused, call_fails, Answer
<1> QED
  BY <1>1, <1>2, <1>3 DEF Next, Ops, LoggedIn, pageVars

\* A button that is enabled on a copy of the latest version is legal.
LEMMA EnabledLegal ==
  ASSUME NEW op \in Ops, Mounted, Enabled(op), Faithful(cache), cache.version = version
  PROVE  /\ op = "approve" => can_transition(status, "approved")
         /\ op = "reject" => can_transition(status, "rejected")
         /\ op = "run" => status # "closed"
BY DEF Enabled, Faithful, canApprove, canRun, Row, can_transition, ALLOWED_TRANSITIONS, Ops

LEMMA RefusalStep ==
  ASSUME ButtonsInv, [Next]_vars, NEW c \in Clicks
  PROVE  /\ calls'[c].pc = "sent" =>
              /\ calls'[c].by \in Roles
              /\ calls'[c].shown <= version'
              /\ calls'[c].shown = version' => Legal(c)'
         /\ calls'[c].pc = "refused" =>
              calls'[c].at > calls'[c].shown \/ calls'[c].by = "viewer"
<1> USE DEF ButtonsInv, TypeInv
<1>t. /\ version \in Nat /\ calls \in [Clicks -> Call] /\ calls[c] \in Call
      /\ calls[c].at \in Nat /\ calls[c].shown \in Nat
  BY DEF TypeOK, Versions, Call
<1> DEFINE Same ==
      /\ calls'[c].pc = calls[c].pc /\ calls'[c].op = calls[c].op
      /\ calls'[c].by = calls[c].by
      /\ calls'[c].shown = calls[c].shown /\ calls'[c].at = calls[c].at
    Goal ==
      /\ calls'[c].pc = "sent" =>
           /\ calls'[c].by \in Roles
           /\ calls'[c].shown <= version'
           /\ calls'[c].shown = version' => Legal(c)'
      /\ calls'[c].pc = "refused" =>
           calls'[c].at > calls'[c].shown \/ calls'[c].by = "viewer"
<1>1. ASSUME Same, UNCHANGED <<status, version>>
      PROVE  Goal
  BY <1>1 DEF RefusalInv, Legal
<1>2. ASSUME Same, version' = version + 1
      PROVE  Goal
  BY <1>2, <1>t DEF RefusalInv
<1>3. ASSUME calls'[c].pc \notin {"sent", "refused"}
      PROVE  Goal
  BY <1>3
<1>4. CASE UNCHANGED <<calls, status, version>>
  BY <1>1, <1>4
<1>5. CASE calls' = Disowned /\ UNCHANGED ticketVars
  <2>1. Same
    BY <1>5, <1>t DEF Disowned, Call
  <2> QED
    BY <1>1, <1>5, <2>1 DEF ticketVars
<1>6. CASE unauthorized
  <2>1. \/ calls'[c].pc = "done"
        \/ Same /\ UNCHANGED ticketVars
    BY <1>6 DEF unauthorized, Answered, NoCall
  <2> QED
    BY <1>1, <1>3, <2>1 DEF ticketVars
<1>7. ASSUME NEW b \in Clicks, b # c,
             \/ \E op \in Ops : click(b, op)
             \/ receive_ok(b) \/ receive_error(b)
             \/ serve(b) \/ serve_refused(b) \/ call_fails(b)
      PROVE  Goal
  <2>1. calls'[c] = calls[c]
    BY <1>7, <1>t DEF click, receive_ok, receive_error, serve, serve_refused, call_fails, Answer
  <2>2. UNCHANGED <<status, version>> \/ version' = version + 1
    BY StepCopies DEF ticketVars
  <2>3. Same
    BY <2>1
  <2> HIDE DEF Same, Goal
  <2> QED
    BY <1>1, <1>2, <2>2, <2>3
<1>8. ASSUME NEW op \in Ops, click(c, op)
      PROVE  Goal
  <2>1. PICK v : /\ calls' = [calls EXCEPT ![c] = v]
                 /\ v.pc = "sent" /\ v.op = op /\ v.by = token /\ v.shown = cache.version
    <3> DEFINE v == [pc |-> "sent", op |-> op, by |-> token,
                     text |-> IF op \in {"approve", "edit"} THEN field ELSE None,
                     shown |-> cache.version, at |-> 0, own |-> TRUE]
    <3>1. calls' = [calls EXCEPT ![c] = v]
      BY <1>8 DEF click
    <3>2. v.pc = "sent" /\ v.op = op /\ v.by = token /\ v.shown = cache.version
      OBVIOUS
    <3> QED
      BY <3>1, <3>2
  <2>2. calls'[c] = v /\ UNCHANGED <<status, version>>
    BY <1>8, <1>t, <2>1 DEF click, ticketVars
  <2>3. Mounted /\ Enabled(op) /\ Faithful(cache) /\ token \in Roles
    BY <1>8 DEF click, Mounted, CopiesInv, LoggedIn, TypeOK
  <2>4. cache.version = version =>
          /\ op = "approve" => can_transition(status, "approved")
          /\ op = "reject" => can_transition(status, "rejected")
          /\ op = "run" => status # "closed"
    BY <2>3, EnabledLegal
  <2>5. cache.version = version => Legal(c)'
    BY <2>1, <2>2, <2>4 DEF Legal, Ops
  <2> QED
    BY <2>1, <2>2, <2>3, <2>5 DEF Faithful
<1>9. CASE receive_ok(c) \/ receive_error(c)
  BY <1>3, <1>9, <1>t DEF receive_ok, receive_error, Answered, NoCall
<1>a. ASSUME NEW pc \in {"ok", "error"}, NEW at, Answer(c, pc, at) PROVE calls'[c].pc = pc
  BY <1>a, <1>t DEF Answer, Call
<1>10. CASE serve(c) \/ call_fails(c)
  <2>1. calls'[c].pc \in {"ok", "error"}
    BY <1>10, <1>a DEF serve, call_fails
  <2> QED
    BY <1>3, <2>1
<1>11. CASE serve_refused(c)
  <2>1. calls' = [calls EXCEPT ![c].pc = "refused", ![c].at = version]
    BY <1>11 DEF serve_refused, Answer
  <2>2. /\ calls'[c].pc = "refused" /\ calls'[c].at = version
        /\ calls'[c].by = calls[c].by /\ calls'[c].shown = calls[c].shown
    BY <1>t, <2>1 DEF Call
  <2>3. CASE Legal(c)
    BY <1>11, <2>2, <2>3, ConstantsAssumption DEF serve_refused, RefusalInv, Permitted
  <2>4. CASE ~Legal(c)
    <3>1. calls[c].shown <= version /\ calls[c].shown # version
      BY <1>11, <2>4 DEF serve_refused, RefusalInv
    <3> QED
      BY <1>t, <2>2, <3>1
  <2> QED
    BY <2>3, <2>4
<1>12. CASE other_change
  BY <1>2, <1>12 DEF other_change
<1>13. CASE \/ open_page \/ reconnect \/ drop_cache
            \/ \E text \in Texts \cup {Blank} : type_text(text)
            \/ receive_ticket \/ login \/ serve_ticket \/ UNCHANGED vars
  BY <1>4, <1>13 DEF open_page, reconnect, drop_cache, type_text, receive_ticket, login,
                     serve_ticket, vars, ticketVars
<1> QED
  BY <1>5, <1>6, <1>7, <1>8, <1>9, <1>10, <1>11, <1>12, <1>13
     DEF Next, Ops, leave_page, fetch_fails, logout

\* A request is refused only if it is a viewer's (require_role) or somebody
\* changed the ticket after the version on which it was clicked: the buttons
\* never offer what the table of the backend forbids (canApprove, canRun
\* against can_transition), but they do not look at the role.
THEOREM RefusedCorrect == Spec => []RefusalsExplained
<1>1. Init => ButtonsInv
  <2> SUFFICES ASSUME Init PROVE CopiesInv /\ LoggedIn /\ RefusalInv
    BY TypeInit DEF ButtonsInv
  <2> QED
    BY DEF Init, CopiesInv, LoggedIn, RefusalInv, NoCall, NoFetch
<1>2. ButtonsInv /\ [Next]_vars => ButtonsInv'
  BY TypeStep, CopiesStep, LoggedInStep, RefusalStep DEF ButtonsInv, RefusalInv, Clicks
<1>3. ButtonsInv => RefusalsExplained
  BY DEF ButtonsInv, RefusalInv, RefusalsExplained
<1> QED
  BY <1>1, <1>2, <1>3, PTL DEF Spec

-----------------------------------------------------------------------------
(* What was typed is kept *)

\* Data that arrives on a page that shows a panel leaves its text alone; only
\* a panel that is mounted anew starts from the data.
THEOREM TypedTextStays == Spec => TypedTextKept
<1>1. [Next]_vars =>
        [touched /\ Mounted /\ Mounted' /\ cache' # cache => field' = field]_vars
  <2> SUFFICES ASSUME Next, Mounted, Mounted', cache' # cache
               PROVE  field' = field
    OBVIOUS
  <2>1. CASE receive_ticket
    BY <2>1 DEF receive_ticket
  <2>2. ~drop_cache /\ ~unauthorized
    BY DEF drop_cache, unauthorized, Mounted
  <2>3. \A c \in Clicks :
          /\ \A op \in {"run", "approve", "reject", "edit"} : ~click(c, op)
          /\ ~receive_ok(c) /\ ~receive_error(c)
          /\ ~serve(c) /\ ~serve_refused(c) /\ ~call_fails(c)
    BY DEF click, receive_ok, receive_error, serve, serve_refused, call_fails, Answer, pageVars
  <2>4. /\ ~open_page /\ ~reconnect /\ ~leave_page /\ ~fetch_fails /\ ~logout /\ ~login
        /\ ~serve_ticket /\ ~other_change
        /\ \A text \in Texts \cup {Blank} : ~type_text(text)
    BY DEF open_page, reconnect, leave_page, fetch_fails, logout, login, serve_ticket, other_change,
       type_text, pageVars
  <2> QED
    BY <2>1, <2>2, <2>3, <2>4 DEF Next
<1> QED
  BY <1>1, PTL DEF Spec, TypedTextKept

-----------------------------------------------------------------------------
(* The page never goes back *)

\* An answer under way is no older than what is cached.
AnswerNewer ==
  fetch.pc = "answered" /\ cache # None => fetch.data.version >= cache.version

ForwardInv == ShowsInv /\ CopiesInv /\ AnswerNewer

LEMMA AnswerNewerStep ==
  ASSUME ForwardInv, [Next]_vars
  PROVE  AnswerNewer'
<1> USE DEF ForwardInv, ShowsInv
<1>t. /\ version \in Nat
      /\ cache # None => cache.version \in Nat /\ cache.version <= version
      /\ fetch.pc = "answered" => fetch.data.version \in Nat /\ fetch.data.version <= version
  BY DEF TypeInv, TypeOK, Copy, Versions, CopiesInv, Faithful, NoFetch, Sent
<1>1. CASE fetch' \in {fetch, NoFetch, Sent}
  BY <1>1, <1>t, StepCopies DEF AnswerNewer, NoFetch, Sent
<1>2. CASE fetch' = [pc |-> "answered", data |-> Fetched] /\ UNCHANGED ticketVars
  <2>1. fetch'.data.version = version
    BY <1>2 DEF Fetched
  <2>2. cache' # None => cache'.version <= version
    BY <1>t, StepCopies
  <2> QED
    BY <1>t, <2>1, <2>2 DEF AnswerNewer
<1> QED
  BY <1>1, <1>2, StepCopies

\* Data comes to the cache by an answer only.
LEMMA CacheFilled ==
  ASSUME Next, cache' # cache, cache' # None
  PROVE  receive_ticket
<1>1. ~drop_cache /\ ~unauthorized
  BY DEF drop_cache, unauthorized
<1>2. \A c \in Clicks :
        /\ \A op \in {"run", "approve", "reject", "edit"} : ~click(c, op)
        /\ ~receive_ok(c) /\ ~receive_error(c)
        /\ ~serve(c) /\ ~serve_refused(c) /\ ~call_fails(c)
  BY DEF click, receive_ok, receive_error, serve, serve_refused, call_fails, Answer, pageVars
<1>3. /\ ~open_page /\ ~reconnect /\ ~leave_page /\ ~fetch_fails /\ ~logout /\ ~login
      /\ ~serve_ticket /\ ~other_change
      /\ \A text \in Texts \cup {Blank} : ~type_text(text)
  BY DEF open_page, reconnect, leave_page, fetch_fails, logout, login, serve_ticket, other_change,
     type_text, pageVars
<1> QED
  BY <1>1, <1>2, <1>3 DEF Next

\* Whatever order the fetches are sent, cancelled and answered in, data that
\* arrives is no older than the data it replaces, nor than any change the page
\* was told had succeeded: the next answer is all that CatchesUp waits for.
THEOREM PageMovesForward ==
  Spec => [][cache' # cache /\ cache' # None =>
               /\ cache'.version >= acked'
               /\ cache # None => cache'.version >= cache.version]_vars
<1>1. Init => ForwardInv
  <2> SUFFICES ASSUME Init PROVE CopiesInv /\ WritesInv /\ AnswerNewer
    BY TypeInit DEF ForwardInv, ShowsInv
  <2> QED
    BY DEF Init, CopiesInv, WritesInv, AnswerNewer, NoCall, NoFetch
<1>2. ForwardInv /\ [Next]_vars => ForwardInv'
  BY TypeStep, CopiesStep, WritesStep, AnswerNewerStep DEF ForwardInv, ShowsInv
<1>3. ForwardInv /\ [Next]_vars =>
        [cache' # cache /\ cache' # None =>
           /\ cache'.version >= acked'
           /\ cache # None => cache'.version >= cache.version]_vars
  <2> SUFFICES ASSUME ForwardInv, Next, cache' # cache, cache' # None
               PROVE  /\ cache'.version >= acked'
                      /\ cache # None => cache'.version >= cache.version
    OBVIOUS
  <2>1. receive_ticket
    BY CacheFilled
  <2>2. fetch.pc = "answered" /\ cache' = fetch.data /\ acked' = acked
    BY <2>1 DEF receive_ticket
  <2> QED
    BY <2>2 DEF ForwardInv, ShowsInv, WritesInv, AnswerNewer
<1> QED
  BY <1>1, <1>2, <1>3, PTL DEF Spec

=============================================================================
