# AgentDesk AI: TLA+ models, checks and proofs

AgentDesk AI is a support desk in which an agent workflow drafts replies and a
human approves them. Its backend is a FastAPI application over PostgreSQL with
Celery workers behind Redis; its dashboard is a Next.js application. This
directory models the parts of it that keep state, checks them with TLC and
proves what matters most with TLAPS. Paths below are relative to `src/backend/app`
unless they start with `src/`.

## 1. Inventory

| Component | State | Operations | Correct when |
|---|---|---|---|
| Ticket lifecycle (`services/ticket_service.py`, `api/v1/{tickets,approvals}.py`, `models/ticket*.py`) | one `tickets` row: status, draft, final reply; `ticket_events` | create, approve, reject, edit draft | the history explains the status, every change is a legal move, no reply is final unless a human approved that text |
| Agent runs (`services/agent_run_service.py`, `api/v1/agent.py`, `workers/`) | `agent_runs`; messages in the broker; what each worker is doing | start, dispatch, execute, complete or fail, acknowledge, redeliver | results appear all or not at all, a published run ends unless its message is acknowledged by an error nobody handles, a run that is rolled back leaves no trace in ticket and history |
| Webhooks (`services/webhook_service.py`, `workers/tasks.py`) | `webhooks`, `webhook_deliveries`; waiting and running tasks | configure, enqueue, deliver, retry | every decision is notified once, attempts are bounded and counted, success is recorded only when it is real, the signature fits the receiver |
| Audit trail (`services/audit_service.py`) | `audit_logs` | record, in the caller's transaction | it tells the same story as the history |
| Agent workflow (`agent/`, `services/retrieval_service.py`) | the state the nodes pass on | classify, retrieve, draft, criticise, decide | it uses the organization's own passages, loses no answer it came across, and only grounded drafts reach approval |
| Knowledge base (`services/document_service.py`) | `documents`, `document_chunks` | create a document, search | no word of a document is lost to retrieval |
| Accounts and tenancy (`services/{auth,user}_service.py`, `core/{security,deps}.py`, `rbac.py`) | `organizations`, `users`, the log-in entries of `audit_logs`; stateless tokens | register, log in, refresh, add and list users | names and emails are unique however requests overlap; every token goes back to a password; a changed role or a deactivation takes effect; every log-in is audited |
| Metrics (`services/metrics_service.py`) | none; counts other tables | aggregate | every ratio is between 0 and 1 |
| Dashboard (`src/frontend/src`) | a page's cached ticket, the text in its panel, requests under way; stored tokens | open, leave, type, click, refetch | the page shows what its own requests did, offers an operator what the server accepts, keeps what was typed |
| Providers (`providers/`) | none | complete, embed | external; a call returns or raises |
| Application shell (`main.py`, `core/config.py`, `db/`) | rate-limit counters, settings | routing | not domain behaviour |

**How they interact.** A request handler owns one SQLAlchemy session: it loads
the ticket, decides on the loaded copy, and commits. `approve` commits, refreshes
the row, commits a delivery row and publishes `deliver_webhook`. `POST run`
commits an `agent_runs` row and publishes `run_agent`; a worker executes it in a
session of its own, calls the workflow, which searches the knowledge base and the
providers, and commits run, ticket, history and audit rows together; an
escalation is then notified as an approval is. The dashboard calls the same routes
with the token it stored at log-in; nothing polls: it fetches a ticket when a page
opens, after a request of its own succeeded, and when the browser is back online.

**What is hard.** PostgreSQL runs at READ COMMITTED and no query locks a row, so
any session may commit between another one's read and its commit, and SQLAlchemy
writes back only the columns that differ from the loaded copy: a row can mix
values of two sessions. A run holds its copy of the ticket during the whole
provider call. `task_acks_late` makes the broker redeliver the message of a
worker that died, whatever it had committed; a task that raises, or whose child
process alone is killed, has its message acknowledged instead. The pooled
connections of `db/engine.py` outlive the event loop that `workers/tasks.py`
starts for each task, so that a first query may raise without any fault of the
database. The search runs on an approximate index that the passages of all
organizations share (`src/backend/alembic/versions/0004_documents.py:58-66`). A
webhook attempt is a POST, a commit, a publication and an acknowledgement, with
a possible stop between any two. Handlers that create accounts check with one
query and insert with another, and tokens outlive the role and the account they
name. The page holds three copies of a ticket, in its cache, in its text field
and in a fetch under way, and its requests overtake each other. `hazards` in
PROJECT.json lists each such place at its line.

## 2. Modules

| Module | Models |
|---|---|
| `TicketStates` | `TicketStatus`, `ALLOWED_TRANSITIONS`, `can_transition` |
| `TicketService` | one ticket, its request handlers, `run_agent` workers, audit rows and notifications |
| `TicketServiceClaims` | statements of the documents that the ticket does not keep |
| `TicketStateMachine` | abstract: the ticket of `data-model.md`, every operation one step |
| `ReplyGate` | abstract: the human-in-the-loop rule, a reply becomes final only by approval |
| `WebhookService` | one delivery: `deliver_webhook` tasks around `deliver_once`, and the webhook's configuration |
| `AgentWorkflow` | one run of the graph, over a knowledge base that grows |
| `DocumentService` | one call of `create_document` with the loop of `chunk_text` |
| `Accounts` | registration, log-in, refresh and user creation, tokens and the checks behind every route |
| `AccountRegistry` | abstract: organizations and users, each created in one step that finds its key free |
| `Dashboard` | one ticket page with its panel and cache, composed with `TicketStateMachine` as the server |
| `MC*` | instances for TLC |
| `*Proofs` | theorems; `TicketRecordsProofs` and `TicketStateMachineProofs` are about `TicketService`, too |

### TicketService

`status`, `draft_response` and `final_response` are the committed row; `events`,
`audit_logs`, `agent_runs` and `deliveries` the committed rows of those tables,
reduced to the columns that the properties tell apart. A history row also carries
the text it is about, the run that wrote it, and `since`, the length of the
history when its session read the ticket; none of these steers the program.
`session[s]` is what a request handler or a worker is doing: its place (`pc`),
what it was asked (`op`, `arg`, `run`), and the row as it loaded it (`seen`).

Each action is one database transaction, one publication or one acknowledgement
of the code, in its order: `load_ticket`, then `approve`/`reject`/`edit_draft`/
`start_run` or `refuse`, which are the handlers' commits and early answers; then
`dispatch_run`, or `refresh_ticket`, `record_delivery` and `dispatch_delivery`.
A worker takes `receive_run`, `complete_run` or `fail_run`, then `refresh_run`
or, if it escalated, the notification, and `ack_run`. `fail_late` is the
`except` branch of `execute_run` when it catches what any call after the commit
raises: a refresh, the configuration query, the insert of the delivery, its
publication. `abandon_run` is an exception that nothing in `execute_run`
handles: one in the two loads before its `try`, which `receive_run` stands for,
or one in the `except` branch itself. Celery acknowledges the message of a
failed task, and also that of a child process killed while the worker lives
(`kill_child`; `task_reject_on_worker_lost` is not set). `dropped` records the
runs whose message went so with no end recorded. `abort_request` and
`crash_worker` are a process that dies (or, for a request, a broker that cannot
be reached) in any state; only the death of the whole worker makes the broker
redeliver. `Flush` is the unit of work: a column assigned the value it was
loaded with is not written. As every commit writes values computed from the
loaded copy alone, and a row lock only orders commits, a commit is one action.

### WebhookService

`delivery` is the committed row, `tasks[n]` counts the waiting messages that
carry retry count `n`, `task[w]` is what a worker holds, and `posts` is what the
receiver saw. The steps of an attempt are `start` (reserve the message, load
delivery and webhook, sign), `post`, `record` (commit), `retry` (publish the
next) and `ack`; `crash` stops a worker between any two of them, `abandon` is an
exception outside the POST, or the death of the child process alone: the message
is acknowledged and nobody publishes another. A countdown only delays a message,
and messages wait for any length of time here. `OneTask` says that the delivery
has one task, a message or a busy worker; a crash between `retry` and `ack` is
what ends it.

### AgentWorkflow and DocumentService

`AgentWorkflow` passes one state from node to node while `create_document` of any
organization commits passages. A passage is its words and its similarity to the
ticket's text; what embeddings and language model return is chosen freely. So is
what the search compares: the query is served by an IVFFlat index of 100 lists over
the passages of all organizations, built on an empty table, of which it reads as
few as `ivfflat.probes` says, and the organization filter applies to what it reads.
`scanned` records which passages those were, any set of them; among those the
query is exact. So the model lets a search miss a passage that qualifies, and no
property says otherwise: SC-003 (`spec.md:285`) asks for 90% of the cases, which is
nothing TLC or TLAPS can speak of.
`DocumentService` numbers the words of a text and treats the loop of `chunk_text`
as it is written, with its arguments chosen freely although the code calls it
only with the defaults of 120 and 20 words. That `AgentWorkflow` never puts up a
draft without a word that counts is what `WorkflowResult` of `TicketService`
assumes of the workflow.

### Accounts

`organizations`, `users` and `audit_logs` are the committed rows, `tokens` those
that were issued and have not expired, and `session[r]` what the handler of one
request is doing. An organization or a user is named by the request that created
it. A request is its check (`register`, `authenticate`, `require_admin` and then
`create_user`, or all of `refresh`), its commit (`register_commit`,
`create_commit`, `login_success`, `login_failed`) and its answer. The checks
compare addresses without regard to case, the unique constraint compares what is
stored, and other requests commit in between: `register_commit` and
`create_commit` end in the unhandled error when the constraint refuses. A log-in
may find any of several users with one address, as its query has no order. A
token is its claims; `expire` takes one away at any time. `administer` changes a
role or deactivates a user: no route does, but every handler looks at both.
`AccountRegistry` has the tables alone: `RefinesRegistry` says that what other
clients see of the handlers, which check in one transaction and insert in another,
are its atomic operations.

### Dashboard

The server is `TicketStateMachine`; `SerialRefinement` (section 5) is what
justifies it while no two sessions overlap, and the page adds its own staleness
to that. `version` counts the changes of the ticket, so that a property can say
which of two copies is older. The page has `cache`, `fetch` (a GET that is sent or
answered), `field` (the state of the panel's textarea) and `calls`, the requests
of its buttons, each with its place between click and answer. `Mounted` is the
page's own condition for rendering the panel: while it loads or shows an error
the panel is gone, with its text. `serve` and `serve_refused` are the handlers
with their role check (`Permitted`), by the role of the user who clicked (`by`),
`receive_ok` and `receive_error` the callbacks of the mutations; `unauthorized` is
the one answer that ends everything, as it loads another page; `logout` loads
none, so that the cache and the requests under way survive, and whoever logs in
next on that page within five minutes first sees the ticket that was cached.
`token` is the role of the user who is logged in. The panel offers its buttons to
viewers as well, who get a 403 for each, although FR-024 (`spec.md:244-246`) has
the dashboard gated by role; it is the server that enforces it, and
`RefusalsExplained` names the case.
A run that is
started answers at once and changes the ticket later: that is `other_change`,
with everything other operators do.

External, and assumed of React Query from the options the code sets: no retries,
no refetch on focus; data on display is fetched again when a page opens, when it
is invalidated (which cancels the fetch under way) and on reconnection; an unused
query is dropped after five minutes, longer than any request takes.

## 3. Runs

| Run | Shows | Instance | Distinct states |
|---|---|---|---|
| `ticket_service` | history, status, reply, audit trail, runs and notifications stay consistent, sessions with a current copy follow the state machine, and the ticket implements `ReplyGate` | 3 requests, 2 workers, 2 texts, 2 sessions at a time, 1 failure | 1,038,278 |
| `ticket_liveness` | published runs end unless an unhandled error has their message acknowledged, approvals are notified while nothing fails | 2 requests, 2 workers, 1 text, 1 failure | 85,960 |
| `webhook_service` | the delivery row never claims more than happened; while there is one task, deliveries are carried on and settle | 2 workers, 2 configurations, 2 retries, 1 crash, 1 error | 1,798,596 |
| `agent_workflow` | approval needs grounding in the organization's own passages; an answer that an approximate search comes across is used | 2 organizations, 3 words, 3 scores, limit 2, 3 passages, any of them scanned | 4,564,311 |
| `document_service` | chunking ends and loses nothing | up to 9 words, windows up to 4, overlaps up to 5 | 1,672 |
| `accounts` | accounts stay unique and implement `AccountRegistry`, tokens are earned, changes of role and deactivations hold, log-ins are audited and accepted | 3 requests, 2 at a time, 2 names, 3 spellings of 2 addresses, 2 passwords, 1 failure, 1 change | 637,314 |
| `dashboard` | the page catches up with its own requests, is refused only for a change or a viewer, keeps what was typed | 2 roles, 2 clicks, 2 changes by others, 1 text and a blank one, 1 failure or log-out | 1,817,596 |

Five runs refute a sentence of the documents; `findings` in PROJECT.json quotes
each:

| Run | Refuted | How |
|---|---|---|
| `transitions_follow_state_machine` | status transitions follow the state machine, and the first of two concurrent decisions wins | both load `waiting_approval`; nothing re-checks the status at commit, and a run decides on the ticket it loaded before the provider call |
| `work_audited` | every retrieval and every draft is audited (FR-017, SC-005) | a second run ends in `waiting_approval` like the first, which may not follow itself; the rollback takes the audit rows of its retrieval and draft along, and the draft that the documents want retained |
| `approvals_notified` | an approval is notified | a process dies between the approval's commit and the publication |
| `failed_is_exhausted` | a delivery is failed when its attempts are used up | the fifth of six attempts marks it failed |
| `generated_draft_shown` | the dashboard shows the generated draft | the text field keeps the draft of the panel's first render |

**Bounds.** `MaxInFlight` counts sessions at work at once. Two are enough for
every interleaving the properties speak of, each of which relates one session's
read to another one's commit; three requests let a third session see what the
two left. `MaxFailures` counts processes that die and the errors behind
`fail_late` and `abandon_run`. One failure reaches every place where a handler
or a worker can stop, and every redelivery after it. Two workers let a
redelivered run overlap with another one. In `webhook_service` two retries give
a first, a middle and a last attempt, one crash makes two tasks for one row, and
they overlap on two workers. In `agent_workflow` the scores are just below and
at the similarity threshold, and one that half of the context's words take
exactly to the confidence threshold; three passages exceed the limit of two,
whether all are scanned or some. In `document_service` nine words give up to
nine windows, and overlaps reach beyond the window. In `accounts` two requests
at a time race for a name or an address while the third one is the log-in, the
refresh or the second creation that sees the outcome; two spellings of one
address and a second address tell comparing from storing; one change suffices to
make a token or a loaded row stale. In `dashboard` two clicks overtake each
other, two changes let one happen before and one after a fetch is answered, one
failure loses a request, a fetch or the token at any point, and of the two roles
the handlers permit one and refuse the other (an admin is treated as an operator
is). Symmetry is used in safety runs only.

**Deadlock** is switched off in `agent_workflow`, `document_service` and
`accounts` only: these end, the last when every request was served.

## 4. Fairness

Handlers, once they have loaded the ticket, are driven by the event loop and
workers by their own process, so each is weakly fair in what it does by itself
(`RequestStep`, `WorkerStep`). A running call returns or raises: a POST is
bounded by `webhook_timeout_seconds`, a provider call by its client's default
timeout, as the code sets none. A message that waits is reserved in the end by
some worker: the broker's queue is first in first out, and a prefetching worker
takes what is there. No request is ever sent by fairness, no configuration
saved, no failure forced. `RunsSettle` holds although workers die; it excepts
the runs in `dropped`, whose message was acknowledged for an exception outside
the `try` or in the `except` branch of `execute_run` or for a killed child
process: these stay `running` for ever, and nothing in the code finds them.
`ApprovalsNotifiedUnlessFailed` and `DeliverySettles` name the failures that
break them: a process that dies or a refused publication, and an error outside
the POST or a crash that leaves two tasks (`OneTask`; section 6). In `dashboard`
a sent GET is answered and the answer handed to the page (`serve_ticket`,
`receive_ticket`); nobody has to click, to open a page or to change the ticket,
and `CatchesUp` excepts a page that is left or fails to fetch.

## 5. Proofs

All theorems hold for every value of the constants, under the named assumption of
each module (constants of the right kind, `None` distinct from data; `Workers`
finite in `WebhookService`, a confidence threshold above one half in
`AgentWorkflow`).

* `TicketServiceProofs`. `TypeCorrect` needs that a worker that is not idle holds
  the message of a run (`WorkersHoldRuns`). The lemma `StepWrites` condenses the
  actions into one fact: a step leaves ticket and history alone or
  appends one history row of which it says what becomes of status and final
  reply (`Writes`). It rests on `FlushMoves`: as no status follows itself, a move
  is always flushed. `HistoryCorrect` follows from it alone. `FinalCorrect`
  needs more: an approval that repeats the loaded final reply does not write the
  column, so the reply that stays must be an approved one; `GateInv` adds that
  what a session has seen was approved and has not been withdrawn.
  `ReplyGateRefined` maps every step to `ReplyGate!Approve` or a stutter.
* `TicketStateMachineProofs`. `CurrentStep` is the heart of it: a step that changes
  the row, taken by a session whose copy equals the row, is a step of
  `TicketStateMachine`. `TicketWriters` lists who changes the row, and
  `CurrentCopiesCorrect` follows. For `SerialRefinement`, with `MaxInFlight = 1`,
  `StepSessions` says what a step does to the sessions and `Alone` that two
  sessions are never at work at once, so that the copy of the one that is stays
  current.
* `TicketRecordsProofs`. `ChangesLegalCorrect` relates a change to the past: the
  invariant `ReadInv` says that a session about to decide holds the status the
  ticket had after `since` history rows (`StatusWas`), that the present status is
  the history's last, and that before the ticket exists nobody works on it.
  `StepLoads` and `StepChanges` say who can come to decide and what a change
  records; `PastKept` and `PresentKept`, that appending a row changes no past
  status and ends in the present one. `StepRecords` says which rows a step writes
  together, from which `RunsAtomicCorrect` follows. `AuditCorrect` says that history
  and audit rows accompany each other, not that all work is audited, which
  `work_audited` refutes. It also needs that
  a message, a handler about to publish it and a task are about a run whose row
  exists (`HeldInv`), or recording a failure would create one. For
  `NotificationsCorrect`, `OwedInv` says that sessions which owe a delivery owe
  distinct decisions that nobody announced, and that an approval is followed by a
  final response for good. `OneHolderCorrect` is about the broker: a run's message
  is published once, by a request that is then over (`RequestsGoOn`), so however
  often it is redelivered it waits or is with one worker, and runs never execute
  twice at once. `StepTasks` says who hands messages on and that a worker settles
  its run before it leaves it or gives it up (`GivenUp`), and `StepDrops` that
  giving up counts a failure, whence `PublishedRunsKept`.
  `DecisionsNeverForgotten` follows a decision from its commit (`DecisionOwed`)
  through its announcement (`AnnouncerGoesOn`, `AnnouncementGoesOn`): while nothing
  fails some session owes it until its notification is queued. It covers
  escalations as well as approvals.
* `WebhookServiceProofs`. `NeverOverclaimsCorrect` strengthens the claim by what a
  worker holds: the attempts it loaded are at most the POSTs made, and one fewer
  once it has posted. `SuccessCorrect` counts the workers that know of an
  unrecorded success against the successful POSTs. `OneTaskCorrect` treats the
  task as a token, one message or one busy worker, and whoever holds it knows the
  row as it is. `SignedCorrect` follows a configuration from its load to its POST.
  `PostsCorrect` counts: the POSTs made and the tries that messages and workers
  still have (`MessageTries`, `WorkerTries`) are never more than `MaxRetries + 1`,
  plus as many for each crash (`TriesInv`); each action moves tries from one set to
  another, and only a crash adds any. `NeverLostCorrect` adds to `OneTask` that
  whoever holds the task knows the row and that `attempts` is at least its number
  of retries (`TaskCarriesRow`), so that the last retry marks the delivery failed.
* `DocumentServiceProofs`. `EveryWordKept`: every word before `start` is in some
  window, because a step is never longer than a window. `WindowsCorrect` adds
  where the last window is; `TypeCorrect` comes with the bounds of the loop.
  `CallsProgress` gives the loop its variant: `StepsLeft` falls with every step and
  never below zero, also when the overlap is as large as the window.
* `AgentWorkflowProofs`. `AnswerCorrect`, for every set of passages an approximate
  search may compare: what the limit leaves out is not nearer than what it takes
  (`SearchComplete`), so with an answer among the passages compared everything
  retrieved is as similar, and a draft that uses its words passes the critic
  (`UsedSufficient`), unless the passages retrieved have no word that counts.
  `GroundedCorrect` needs that a maximum exists, which the library's theorem on
  minimal elements of well-founded relations gives, and linear arithmetic on the
  confidence. `TypeCorrect` needs that the knowledge base is finite, so that the
  number of a new chunk stays within the bound.
* `AccountsProofs`. `TypeInv` adds to the types what a handler holds at each stage
  (`SessionsHold`): whose row it loaded, that the password was that user's, that a
  creator is an admin. `RowsStep` says what may become of a user row in any step
  (role and activity may change, nothing else) and `DoneStays` that a finished
  request keeps its record; together they carry facts about the past.
  `AccountsStayUnique` and `RegistrationIsAtomic` need `StoredLower` (in
  `RowsInv`): addresses are stored in lower case, which alone makes the unique
  constraint agree with the queries. `RegistryRefined` takes the commits of
  `register` and `create_user` to the two operations of `AccountRegistry`, because
  a name or an address that passes the constraint is free in every spelling, and
  every other step to a change by the operator or a stutter. `TokensAreEarned` and
  `DeactivatedStayOut` rest on `TokensStep`, which says for whom a step can issue
  tokens. `EveryLoginAudited` needs `AuditInv`, which covers a log-in between the
  commit of its entry and its answer. `RightPasswordAccepted` also rests on
  `StoredLower`: the query finds every account that has the address in any case.
* `DashboardProofs`. `ShowsOwnWritesCorrect`: every copy the page holds was the
  server's row at its version (`CopiesInv`), and a fetch that was sent after a
  success, or a cache behind it, is at least as new (`WritesInv`).
  `RefusedCorrect` needs that the server can refuse only a viewer (`LoggedIn`:
  who clicks is logged in, with a role) and what became illegal after the
  version on display, for which `Faithful` says that two copies with one version
  are equal. `TypedTextStays` goes through the steps that change the cache while
  a panel is mounted. `PageMovesForward`: an answer under way is never older
  than the cache (`AnswerNewer`), since the fetches that an invalidation
  overtakes are cancelled.

**Only model-checked:** the five liveness properties, as liveness is out of the
prover's reach. What each rests on besides fairness is proved for every value of the
constants; that the steps it waits for are enabled and taken is left to TLC:

| Liveness, checked by TLC | Its safety half, proved |
|---|---|
| `RunsSettle` | `PublishedRunsKept`: a published run waits or is with a worker until it is settled, or is given up by a counted failure |
| `ApprovalsNotifiedUnlessFailed` | `DecisionsNeverForgotten`: a decision is notified or owed by a session |
| `DeliverySettles` | `NeverLostCorrect`: a pending delivery has a message or a worker that goes on |
| `Terminates` | `CallsProgress`: every step brings the end nearer |
| `CatchesUp` | `ShowsOwnWritesCorrect` and `PageMovesForward`: a page that is behind has a fetch under way, and what arrives is new enough |

`NeverLost` and `ShowsOwnWrites` are properties of runs, too; the others are stated
in the proof modules, over the same actions.

## 6. What is not modelled, and what was observed

* Titles, priorities, suggested types, costs, latencies, wording and logging.
* The eager modes (`agent_run_eager`, `webhook_delivery_eager`) and
  `webhook_dispatch_enabled = False`, which tests and demos use.
* Metrics: the aggregates only read, in several statements that need not see one
  snapshot, so a rate may count a run that its total does not; no document
  promises that the numbers of one answer fit together.
* The other pages of the dashboard (lists, documents, metrics, the history beside
  the ticket) only read, and their forms send one request; `list_users` and the
  other listings of the backend only read, too.
* The `closed` status: the table has it, no route sets it.
* An error that PostgreSQL itself raises in a handler: it is a request that
  stops, as `abort_request`.

Some behaviour is part of the models without a property against it, since no
document promises otherwise: the payload of an approval's notification is read
after the commit and may show a later status; `list_events` sorts by the start
of the transaction that inserted a row, so the list may differ from the order of
the commits (`since` against the position in `events`); a redelivery after a
success may mark the delivery failed; users who hold one address in two
organizations may be answered 401 with the right password, because the log-in
looks at one of them only (`CredentialsAccepted` excepts them); the second of
two racing registrations or creations is an unhandled error instead of 409.

Three places depart from a document without a run of their own. A crash between a
POST and its commit leaves an attempt that no row counts, while FR-023
(`spec.md:238`) has each attempt recorded and SC-007 (`spec.md:292`) all of them;
the model contains that crash, `NeverOverclaims` bounds the row by the POSTs in the
direction that holds, and the other direction fails for every system that posts
before it commits. The retry countdown has no jitter, which FR-023 mentions. A
second run that ends like the first is refused, where `spec.md:156` has its draft
retained: the trace of `work_audited` shows it.

**Two tasks for one delivery** can leave it pending for ever, which is why
`DeliverySettles` and `NeverLost` assume `OneTask`. A worker that dies after
`self.retry` has published the next attempt and before its own message is
acknowledged leaves two tasks. Each adds one to the `attempts` it loaded, so a
later commit of the other may take the count back, and the retries of both may end
while `attempts` is still below `webhook_max_retries`: nobody marks the delivery
failed and nobody tries again. It takes several such crashes of one delivery. With
two workers and every POST failing, TLC finds no such end for up to 4 crashes with
5 retries (the default), and finds one for 1 crash with 8 retries and for 2 crashes
with 6; with three workers it finds one for 1 crash with 6 retries and none for 1
crash with 5.

## 7. Plan

1. `Dashboard` over `TicketService` itself, for overlapping sessions: which of its
   properties survive a server whose decisions race.
2. `Metrics` as a reader of several snapshots, if a document comes to promise what
   its numbers mean together.
