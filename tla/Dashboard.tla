----------------------------- MODULE Dashboard -----------------------------
(***************************************************************************)
(* The ticket page of the dashboard (tickets/[id]/page.tsx with its        *)
(* DraftPanel) against the server: what the page shows, what the operator  *)
(* types and clicks, and what other people and runs change meanwhile.      *)
(*                                                                         *)
(* The server is TicketStateMachine, which the backend implements while no *)
(* two sessions overlap.  The page keeps the ticket in the query cache of  *)
(* React Query, with retry and refetchOnWindowFocus off and everything     *)
(* else at its defaults: cached data is shown at once and fetched again    *)
(* when the page opens, the cache outlives the page for five minutes, and  *)
(* invalidating a query that is on display cancels its fetch and starts    *)
(* another.  Nothing polls, and being back online refetches.               *)
(***************************************************************************)
EXTENDS Naturals, TicketStates

CONSTANTS
  Texts, Blank,  \* replies, and an empty or whitespace-only one
  None,          \* null
  Roles,         \* the roles of the users of this browser
  MaxClicks,     \* bound: clicks on the buttons of the panel
  MaxChanges,    \* bound: changes of the ticket by anybody but this page
  MaxFailures    \* bound: requests that fail or are answered with 401, log-outs

ASSUME ConstantsAssumption ==
  /\ Blank \notin Texts
  /\ None \notin Texts \cup {Blank} \cup TicketStatus \cup Roles
  /\ Roles \subseteq {"admin", "operator", "viewer"}
  /\ MaxClicks \in Nat
  /\ MaxChanges \in Nat
  /\ MaxFailures \in Nat

VARIABLES
  status, draft_response, final_response,  \* the ticket on the server
  version,   \* how often it was changed
  changes,   \* how often by others
  token,     \* the role of the user whose tokens are stored, None without
  open,      \* whether the ticket page is on display
  cache,     \* the cached ticket, with the version it was read at
  failed,    \* isError: the last fetch failed
  fetch,     \* the GET under way
  field,     \* the text in the panel's textarea
  touched,   \* whether the operator typed there
  calls,     \* the requests the buttons sent
  acked,     \* version of the latest change this page was told had succeeded
  failures

ticketVars == <<status, draft_response, final_response, version>>
pageVars == <<token, open, cache, failed, field, touched>>
vars == <<ticketVars, changes, pageVars, fetch, calls, acked, failures>>

Server == INSTANCE TicketStateMachine

-----------------------------------------------------------------------------
(* Data *)

Replies == Texts \cup {Blank, None}
Row == [status |-> status, draft |-> draft_response, final |-> final_response]
RowType == [status : TicketStatus, draft : Replies, final : Texts \cup {None}]
Versions == Nat
Copy == [row : RowType, version : Versions]
Clicks == 1..MaxClicks  \* numbered in the order they are made

\* A GET is sent, and answered with the row of that moment.
NoFetch == [pc |-> "none", data |-> None]
Sent == [pc |-> "sent", data |-> None]
Fetched == [row |-> Row, version |-> version]

\* by is the role of the user who clicked, shown the version on display then,
\* at the one the server answered at, and own whether the panel that sent the
\* request is still there: a new panel knows nothing of requests under way.
Call ==
  [pc : {"idle", "sent", "ok", "refused", "error", "done"},
   op : {None, "run", "approve", "reject", "edit"}, by : Roles \cup {None},
   text : Replies, shown : Versions, at : Versions, own : BOOLEAN]

NoCall ==
  [pc |-> "idle", op |-> None, by |-> None, text |-> None, shown |-> 0, at |-> 0, own |-> FALSE]
Answered == [NoCall EXCEPT !.pc = "done"]
Underway(c) == calls[c].pc \in {"sent", "ok", "refused", "error"}

\* The panel is part of the page unless that shows "Loading" or an error.
Mounted == open /\ cache # None /\ ~failed

\* FAULT: null is not replaced.
InitialText_null(row) == row.draft

\* useState(ticket.draft_response ?? "")
InitialText(row) == IF row.draft = None THEN Blank ELSE row.draft

\* A panel that goes away takes the isPending of its mutations along, and
\* the text it held.
Disowned == [c \in Clicks |-> [calls[c] EXCEPT !.own = FALSE]]
PanelGone == field' = Blank /\ touched' = FALSE

\* FAULT: an escalated ticket is offered for approval, too.
canApprove_escalated(row) == row.status \in {"waiting_approval", "escalated"}

\* const canApprove, const canRun
canApprove(row) == row.status = "waiting_approval"
canRun(row) == row.status \notin {"closed", "approved"}

-----------------------------------------------------------------------------
(* The page *)

\* The layout shows its pages to whoever holds a token.
Ready == token # None

\* The page opens on what is cached, and fetches unless a fetch is still
\* under way.  Without data an earlier error is forgotten.
open_page ==
  /\ Ready /\ ~open
  /\ open' = TRUE
  /\ failed' = (failed /\ cache # None)
  /\ fetch' = IF fetch = NoFetch THEN Sent ELSE fetch
  /\ IF cache # None /\ ~failed
     THEN field' = InitialText(cache.row) /\ touched' = FALSE
     ELSE UNCHANGED <<field, touched>>
  /\ UNCHANGED <<ticketVars, changes, token, cache, calls, acked, failures>>

\* refetchOnReconnect: back online, what is on display is fetched again.
reconnect ==
  /\ open /\ fetch = NoFetch
  /\ fetch' = Sent
  /\ UNCHANGED <<ticketVars, changes, pageVars, calls, acked, failures>>

\* The fetch and the mutations go on without the page.
leave_page ==
  /\ open
  /\ open' = FALSE
  /\ calls' = Disowned /\ PanelGone
  /\ UNCHANGED <<ticketVars, changes, token, cache, failed, fetch, acked, failures>>

\* gcTime: an unused query is dropped after five minutes.  No request
\* takes that long.
drop_cache ==
  /\ ~open /\ cache # None /\ fetch = NoFetch
  /\ \A c \in Clicks : ~Underway(c)
  /\ cache' = None
  /\ UNCHANGED <<ticketVars, changes, token, open, failed, field, touched, fetch,
                 calls, acked, failures>>

\* The textarea is enabled while the shown ticket waits for approval.
type_text(text) ==
  /\ Mounted /\ canApprove(cache.row) /\ cache.row.final = None
  /\ field' = text /\ touched' = TRUE
  /\ UNCHANGED <<ticketVars, changes, token, open, cache, failed, fetch, calls,
                 acked, failures>>

\* The buttons that are shown and enabled, whatever the user's role.
Enabled(op) ==
  /\ ~\E c \in Clicks : calls[c].own /\ calls[c].op = op /\ Underway(c)
  /\ IF op = "run" THEN canRun(cache.row)
     ELSE /\ canApprove(cache.row) /\ cache.row.final = None
          /\ op = "reject" \/ field # Blank

click(c, op) ==
  /\ calls[c].pc = "idle" /\ \A b \in 1..(c - 1) : calls[b].pc # "idle"
  /\ Mounted /\ Enabled(op)
  /\ calls' = [calls EXCEPT ![c] =
       [pc |-> "sent", op |-> op, by |-> token,
        text |-> IF op \in {"approve", "edit"} THEN field ELSE None,
        shown |-> cache.version, at |-> 0, own |-> TRUE]]
  /\ UNCHANGED <<ticketVars, changes, pageVars, fetch, acked, failures>>

\* FAULT: the field follows the data.
receive_ticket_synced ==
  /\ fetch.pc = "answered"
  /\ cache' = fetch.data /\ failed' = FALSE /\ fetch' = NoFetch
  /\ IF open
     THEN field' = InitialText(fetch.data.row) /\ UNCHANGED touched
     ELSE UNCHANGED <<field, touched>>
  /\ UNCHANGED <<ticketVars, changes, token, open, calls, acked, failures>>

\* The first data mounts the panel; later data leaves its state alone.
receive_ticket ==
  /\ fetch.pc = "answered"
  /\ cache' = fetch.data /\ failed' = FALSE /\ fetch' = NoFetch
  /\ IF open /\ ~Mounted
     THEN field' = InitialText(fetch.data.row) /\ touched' = FALSE
     ELSE UNCHANGED <<field, touched>>
  /\ UNCHANGED <<ticketVars, changes, token, open, calls, acked, failures>>

\* retry: false.  The page says that there is no ticket.
fetch_fails ==
  /\ fetch # NoFetch
  /\ failures < MaxFailures
  /\ failures' = failures + 1
  /\ failed' = TRUE /\ fetch' = NoFetch
  /\ calls' = Disowned /\ PanelGone
  /\ UNCHANGED <<ticketVars, changes, token, open, cache, acked>>

\* FAULT: a fetch under way is taken for the new one.
Invalidated_merged == IF open /\ fetch = NoFetch THEN Sent ELSE fetch

\* FAULT: only the list of tickets is invalidated.
Invalidated_nothing == fetch

\* invalidateQueries: what is on display is fetched anew, what is not is
\* stale anyway.
Invalidated == IF open THEN Sent ELSE fetch

\* onSuccess
receive_ok(c) ==
  /\ calls[c].pc = "ok"
  /\ calls' = [calls EXCEPT ![c] = Answered]
  /\ fetch' = Invalidated
  /\ acked' = IF open /\ calls[c].at > acked THEN calls[c].at ELSE acked
  /\ UNCHANGED <<ticketVars, changes, pageVars, failures>>

\* onError: a message is shown, and nothing else happens.
receive_error(c) ==
  /\ calls[c].pc \in {"refused", "error"}
  /\ calls' = [calls EXCEPT ![c] = Answered]
  /\ UNCHANGED <<ticketVars, changes, pageVars, fetch, acked, failures>>

\* A request is answered with 401: the tokens go, and the browser loads the
\* log-in page, which ends everything the application held in memory.
unauthorized ==
  /\ token # None
  /\ fetch # NoFetch \/ \E c \in Clicks : calls[c].pc = "sent"
  /\ failures < MaxFailures
  /\ failures' = failures + 1
  /\ token' = None /\ open' = FALSE
  /\ cache' = None /\ failed' = FALSE /\ fetch' = NoFetch
  /\ calls' = [c \in Clicks |-> IF Underway(c) THEN Answered ELSE calls[c]]
  /\ acked' = 0
  /\ PanelGone
  /\ UNCHANGED <<ticketVars, changes>>

\* Log out: the tokens go and the log-in page is shown, but nothing is
\* loaded anew, so the cache and the requests under way survive.
logout ==
  /\ token # None
  /\ failures < MaxFailures
  /\ failures' = failures + 1
  /\ token' = None /\ open' = FALSE
  /\ calls' = Disowned /\ PanelGone
  /\ UNCHANGED <<ticketVars, changes, cache, failed, fetch, acked>>

\* Any user of the organization.
login ==
  /\ token = None
  /\ token' \in Roles
  /\ UNCHANGED <<ticketVars, changes, open, cache, failed, field, touched, fetch,
                 calls, acked, failures>>

-----------------------------------------------------------------------------
(* The server *)

serve_ticket ==
  /\ fetch.pc = "sent"
  /\ fetch' = [pc |-> "answered", data |-> Fetched]
  /\ UNCHANGED <<ticketVars, changes, pageVars, calls, acked, failures>>

Answer(c, pc, at) ==
  /\ calls' = [calls EXCEPT ![c].pc = pc, ![c].at = at]
  /\ UNCHANGED <<changes, pageVars, fetch, acked>>

\* The change a request asks for, if it is a legal one.
Effect(c) ==
  CASE calls[c].op = "approve" -> Server!Approve(calls[c].text)
    [] calls[c].op = "reject"  -> Server!Reject
    [] calls[c].op = "edit"    -> Server!Edit(calls[c].text)

\* require_role(Role.admin, Role.operator)
Permitted(c) == calls[c].by \in {"admin", "operator"}

Legal(c) ==
  CASE calls[c].op = "approve" -> can_transition(status, "approved")
    [] calls[c].op = "reject"  -> can_transition(status, "rejected")
    [] calls[c].op = "edit"    -> TRUE
    [] calls[c].op = "run"     -> status # "closed"

serve(c) ==
  /\ calls[c].pc = "sent"
  /\ Permitted(c) /\ Legal(c)
  /\ IF calls[c].op = "run"
     THEN Answer(c, "ok", version) /\ UNCHANGED ticketVars
     ELSE Effect(c) /\ version' = version + 1 /\ Answer(c, "ok", version + 1)
  /\ UNCHANGED failures

\* 403 or 409.
serve_refused(c) ==
  /\ calls[c].pc = "sent"
  /\ ~(Permitted(c) /\ Legal(c))
  /\ Answer(c, "refused", version)
  /\ UNCHANGED <<ticketVars, failures>>

\* The connection breaks before the request is served or after.
call_fails(c) ==
  /\ calls[c].pc \in {"sent", "ok", "refused"}
  /\ failures < MaxFailures
  /\ failures' = failures + 1
  /\ Answer(c, "error", calls[c].at)
  /\ UNCHANGED ticketVars

\* Another operator, or a run that ends.
other_change ==
  /\ changes < MaxChanges
  /\ changes' = changes + 1
  /\ Server!Next
  /\ version' = version + 1
  /\ UNCHANGED <<pageVars, fetch, calls, acked, failures>>

-----------------------------------------------------------------------------
Init ==
  /\ status = "new" /\ draft_response = None /\ final_response = None
  /\ version = 0 /\ changes = 0
  /\ token \in Roles /\ open = FALSE /\ cache = None /\ failed = FALSE
  /\ fetch = NoFetch /\ field = Blank /\ touched = FALSE
  /\ calls = [c \in Clicks |-> NoCall]
  /\ acked = 0 /\ failures = 0

Next ==
  \/ open_page \/ reconnect \/ leave_page \/ drop_cache
  \/ \E text \in Texts \cup {Blank} : type_text(text)
  \/ receive_ticket \/ fetch_fails \/ unauthorized \/ logout \/ login
  \/ serve_ticket \/ other_change
  \/ \E c \in Clicks :
       \/ \E op \in {"run", "approve", "reject", "edit"} : click(c, op)
       \/ receive_ok(c) \/ receive_error(c)
       \/ serve(c) \/ serve_refused(c) \/ call_fails(c)

Spec == Init /\ [][Next]_vars

\* Requests are answered, and the browser hands the answers on.
Fairness == WF_vars(serve_ticket) /\ WF_vars(receive_ticket)

FairSpec == Spec /\ Fairness

-----------------------------------------------------------------------------
(* Properties *)

TypeOK ==
  /\ Row \in RowType
  /\ version \in Versions /\ changes \in 0..MaxChanges
  /\ token \in Roles \cup {None} /\ open \in BOOLEAN /\ failed \in BOOLEAN /\ touched \in BOOLEAN
  /\ cache \in Copy \cup {None}
  /\ fetch \in {NoFetch, Sent} \cup [pc : {"answered"}, data : Copy]
  /\ field \in Texts \cup {Blank}
  /\ calls \in [Clicks -> Call]
  /\ acked \in Versions /\ failures \in 0..MaxFailures

\* A page that has come to rest shows no ticket older than the latest change
\* that it was told had succeeded, however its requests overtook each other.
ShowsOwnWrites == Mounted /\ fetch = NoFetch => cache.version >= acked

\* What the operator has typed is not replaced by data that arrives.
TypedTextKept ==
  [][touched /\ Mounted /\ Mounted' /\ cache' # cache => field' = field]_vars

\* What the buttons offer an admin or an operator is what the server accepts:
\* their request is refused only if the ticket was changed after the version
\* on which they clicked.  A viewer is offered the same buttons, and always
\* refused.
RefusalsExplained ==
  \A c \in Clicks :
    calls[c].pc = "refused" => calls[c].at > calls[c].shown \/ calls[c].by = "viewer"

\* After a successful request the page shows its effect in the end, unless
\* it is left or the fetch fails.
CatchesUp ==
  (Mounted /\ cache.version < acked) ~> (~Mounted \/ cache.version >= acked)

-----------------------------------------------------------------------------
\* FR-024: the dashboard lets users view the generated draft.  A page at
\* rest that offers the shown ticket for approval, and in which nobody has
\* typed, shows that ticket's draft.
GeneratedDraftShown ==
  Mounted /\ fetch = NoFetch /\ canApprove(cache.row) /\ ~touched =>
    field = InitialText(cache.row)

=============================================================================
