--------------------------- MODULE WebhookService ---------------------------
(***************************************************************************)
(* One webhook delivery from the moment its task is queued: the Celery     *)
(* task deliver_webhook (workers/tasks.py) around deliver_once and         *)
(* upsert_config (services/webhook_service.py).                            *)
(*                                                                         *)
(* The task retries itself by publishing a copy of its message with a      *)
(* higher retry count, and acknowledges its own message afterwards         *)
(* (task_acks_late), so a worker that dies is replaced by a redelivery and *)
(* two copies of a task may be at work on the same row.  A countdown only  *)
(* delays a message; as messages wait for any length of time here, it is   *)
(* not modelled.  Deliveries do not interact, so one is modelled.          *)
(***************************************************************************)
EXTENDS Integers, Sequences, FiniteSets

CONSTANTS
  Workers,     \* Celery worker processes
  Configs,     \* webhook configurations an admin may save: url and secret
  MaxRetries,  \* settings.webhook_max_retries
  MaxCrashes,  \* bound: workers that die
  MaxErrors    \* bound: database or broker errors that end a task

ASSUME ConstantsAssumption ==
  /\ IsFiniteSet(Workers)
  /\ Configs # {}
  /\ \A c \in Configs : {"url", "secret"} \subseteq DOMAIN c
  /\ MaxRetries \in Nat
  /\ MaxCrashes \in Nat
  /\ MaxErrors \in Nat

VARIABLES
  webhook,   \* the committed Webhook row: one of Configs
  delivery,  \* the committed WebhookDelivery row: status and attempts
  sent,      \* committed webhook_sent audit rows about the delivery
  tasks,     \* how many messages wait, by the retry count they carry
  task,      \* what each worker is doing
  posts,     \* POSTs made, in order, as the receiver and the sender know them
  crashes, errors

vars == <<webhook, delivery, sent, tasks, task, posts, crashes, errors>>

Row == [status : {"pending", "success", "failed"}, attempts : Nat]
Task ==
  [pc : {"idle", "loaded", "answered", "recorded", "retried"},
   retries : 0..MaxRetries, seen : Row, config : Configs, success : BOOLEAN]
Post == [url : {c.url : c \in Configs}, secret : {c.secret : c \in Configs},
         success : BOOLEAN]

At(w, label) == task[w].pc = label

\* A flush emits only the columns whose value differs from the loaded one.
Flush(new, loaded, stored) == IF new = loaded THEN stored ELSE new

\* Whether the task asks for another attempt.
\* FAULT: a successful delivery is retried, too.
Retries_always(w) == task[w].retries < MaxRetries

Retries(w) == ~task[w].success /\ task[w].retries < MaxRetries

-----------------------------------------------------------------------------
\* PUT /webhooks: url and secret change in one transaction.
upsert_config(c) ==
  /\ webhook' = c
  /\ UNCHANGED <<delivery, sent, tasks, task, posts, crashes, errors>>

\* FAULT: the reserved message stays visible to other workers.
start_unreserved(w, n) ==
  /\ At(w, "idle")
  /\ tasks[n] > 0
  /\ task' = [task EXCEPT ![w] =
       [pc |-> "loaded", retries |-> n, seen |-> delivery,
        config |-> webhook, success |-> FALSE]]
  /\ UNCHANGED <<webhook, delivery, sent, tasks, posts, crashes, errors>>

\* A worker reserves a message; deliver_once loads the delivery and the
\* webhook and signs the stored payload with the secret it loaded.
start(w, n) ==
  /\ At(w, "idle")
  /\ tasks[n] > 0
  /\ tasks' = [tasks EXCEPT ![n] = @ - 1]
  /\ task' = [task EXCEPT ![w] =
       [pc |-> "loaded", retries |-> n, seen |-> delivery,
        config |-> webhook, success |-> FALSE]]
  /\ UNCHANGED <<webhook, delivery, sent, posts, crashes, errors>>

\* FAULT: the url is read again when the request is sent.
post_reload(w, success) ==
  /\ At(w, "loaded")
  /\ posts' = Append(posts, [url |-> webhook.url, secret |-> task[w].config.secret,
                             success |-> success])
  /\ task' = [task EXCEPT ![w].pc = "answered", ![w].success = success]
  /\ UNCHANGED <<webhook, delivery, sent, tasks, crashes, errors>>

\* client.post: a 2xx answer, or any other answer or exception.
post(w, success) ==
  /\ At(w, "loaded")
  /\ posts' = Append(posts, [url |-> task[w].config.url,
                             secret |-> task[w].config.secret, success |-> success])
  /\ task' = [task EXCEPT ![w].pc = "answered", ![w].success = success]
  /\ UNCHANGED <<webhook, delivery, sent, tasks, crashes, errors>>

\* What the attempt makes of the status it loaded.
\* FAULT: one attempt early.
Outcome_early(seen, success) ==
  IF success THEN "success"
  ELSE IF seen.attempts + 2 >= MaxRetries THEN "failed" ELSE seen.status

\* FAULT: a status that DeliveryStatus does not have.
Outcome_retrying(seen, success) ==
  IF success THEN "success"
  ELSE IF seen.attempts + 1 >= MaxRetries THEN "failed" ELSE "retrying"

Outcome(seen, success) ==
  IF success THEN "success"
  ELSE IF seen.attempts + 1 >= MaxRetries THEN "failed" ELSE seen.status

Attempts(seen) == seen.attempts + 1

\* FAULT: the attempt is audited before its answer is looked at.
Sent_any(success) == sent + 1

Sent(success) == IF success THEN sent + 1 ELSE sent

\* deliver_once commits: the attempt counted on the loaded row, the status.
record(w) ==
  /\ At(w, "answered")
  /\ LET seen == task[w].seen
         success == task[w].success
     IN /\ delivery' = [status   |-> Flush(Outcome(seen, success), seen.status, delivery.status),
                        attempts |-> Attempts(seen)]
        /\ sent' = Sent(success)
  /\ task' = [task EXCEPT ![w].pc = "recorded"]
  /\ UNCHANGED <<webhook, tasks, posts, crashes, errors>>

\* self.retry publishes the next attempt before this one is acknowledged.
retry(w) ==
  /\ At(w, "recorded")
  /\ Retries(w)
  /\ tasks' = [tasks EXCEPT ![task[w].retries + 1] = @ + 1]
  /\ task' = [task EXCEPT ![w].pc = "retried"]
  /\ UNCHANGED <<webhook, delivery, sent, posts, crashes, errors>>

Idle(w) == [task[w] EXCEPT !.pc = "idle"]

ack(w) ==
  /\ At(w, "retried") \/ (At(w, "recorded") /\ ~Retries(w))
  /\ task' = [task EXCEPT ![w] = Idle(w)]
  /\ UNCHANGED <<webhook, delivery, sent, tasks, posts, crashes, errors>>

\* The database or the broker raises outside the try around the POST: the
\* task fails, Celery acknowledges it, and nothing publishes another.  So it
\* does when the child process is killed at the same places and the worker
\* lives on; task_reject_on_worker_lost is not set.
abandon(w) ==
  /\ task[w].pc \in {"loaded", "answered"} \/ (At(w, "recorded") /\ Retries(w))
  /\ errors < MaxErrors
  /\ errors' = errors + 1
  /\ task' = [task EXCEPT ![w] = Idle(w)]
  /\ UNCHANGED <<webhook, delivery, sent, tasks, posts, crashes>>

\* FAULT: the message was acknowledged when it was reserved.
crash_early_ack(w) ==
  /\ ~At(w, "idle")
  /\ crashes < MaxCrashes
  /\ crashes' = crashes + 1
  /\ task' = [task EXCEPT ![w] = Idle(w)]
  /\ UNCHANGED <<webhook, delivery, sent, tasks, posts, errors>>

\* The worker dies: the broker delivers its message again.
crash(w) ==
  /\ ~At(w, "idle")
  /\ crashes < MaxCrashes
  /\ crashes' = crashes + 1
  /\ tasks' = [tasks EXCEPT ![task[w].retries] = @ + 1]
  /\ task' = [task EXCEPT ![w] = Idle(w)]
  /\ UNCHANGED <<webhook, delivery, sent, posts, errors>>

-----------------------------------------------------------------------------
\* enqueue_for_ticket committed the row and published its first task.
Init ==
  /\ webhook \in Configs
  /\ delivery = [status |-> "pending", attempts |-> 0]
  /\ sent = 0
  /\ tasks = [n \in 0..MaxRetries |-> IF n = 0 THEN 1 ELSE 0]
  /\ task \in [Workers -> {[pc |-> "idle", retries |-> 0, seen |-> delivery,
                            config |-> webhook, success |-> FALSE]}]
  /\ posts = <<>>
  /\ crashes = 0 /\ errors = 0

\* What a worker does once it has reserved a message.
WorkerStep(w) ==
  \/ \E success \in BOOLEAN : post(w, success)
  \/ record(w) \/ retry(w) \/ ack(w)

Next ==
  \/ \E c \in Configs : upsert_config(c)
  \/ \E w \in Workers :
       \/ \E n \in 0..MaxRetries : start(w, n)
       \/ WorkerStep(w) \/ abandon(w) \/ crash(w)

Spec == Init /\ [][Next]_vars

\* Workers keep working and every waiting message is taken in the end; the
\* client's timeout bounds the POST.  No worker has to die.
Fairness ==
  /\ \A w \in Workers : WF_vars(WorkerStep(w))
  /\ \A n \in 0..MaxRetries : WF_vars(\E w \in Workers : start(w, n))

FairSpec == Spec /\ Fairness

-----------------------------------------------------------------------------
(* Safety *)

TypeOK ==
  /\ webhook \in Configs
  /\ delivery \in Row
  /\ sent \in Nat
  /\ tasks \in [0..MaxRetries -> Nat]
  /\ task \in [Workers -> Task]
  /\ posts \in Seq(Post)
  /\ crashes \in 0..MaxCrashes
  /\ errors \in 0..MaxErrors

Successes == {i \in DOMAIN posts : posts[i].success}

\* However tasks are duplicated, lost or overlap, the row never claims more
\* than happened: attempts never exceeds the POSTs made, and the delivery is
\* marked failed only after MaxRetries of them.
NeverOverclaims ==
  /\ delivery.attempts <= Len(posts)
  /\ delivery.status = "failed" => Len(posts) >= MaxRetries

\* success and webhook_sent are recorded only for POSTs that were answered
\* with 2xx, at most once for each.
SuccessIsReal ==
  /\ delivery.status = "success" => sent > 0
  /\ sent <= Cardinality(Successes)

\* While no worker dies, exactly one task exists for the delivery, so every
\* POST is counted, and no attempt follows or undoes a success.
OneTaskWithoutCrashes ==
  crashes = 0 =>
    /\ \A w \in Workers : At(w, "loaded") => delivery.status # "success"
    /\ sent > 0 => delivery.status = "success"
    /\ errors = 0 =>
         Len(posts) = delivery.attempts + Cardinality({w \in Workers : At(w, "answered")})

\* Retries are bounded: each crash buys at most one more full round.
PostsBounded == Len(posts) <= (MaxRetries + 1) * (1 + crashes)

\* Every POST goes to a url with the signature of the secret saved with it.
SignedForReceiver ==
  \A i \in DOMAIN posts :
    \E c \in Configs : posts[i].url = c.url /\ posts[i].secret = c.secret

\* What the delivery's task is: a message, or a worker that has reserved one
\* and not published its successor.
Waiting == {n \in 0..MaxRetries : tasks[n] > 0}
Busy == {w \in Workers : task[w].pc \in {"loaded", "answered", "recorded"}}

OneTask ==
  /\ \A n \in 0..MaxRetries : tasks[n] <= 1
  /\ \A n, m \in Waiting : n = m
  /\ \A w, v \in Busy : w = v
  /\ Busy = {} \/ Waiting = {}

\* While there is one task, it comes to the delivery's end: a delivery that is
\* still pending has a message waiting, or a worker that will make an attempt
\* or ask for another one, although workers die and repeat their attempts.
NeverLost ==
  [](errors = 0 /\ OneTask) =>
    [](delivery.status = "pending" =>
         \/ Waiting # {}
         \/ \E w \in Busy : At(w, "recorded") => Retries(w))

-----------------------------------------------------------------------------
(* Liveness, under FairSpec *)

\* Whatever the receiver answers and although workers die, a delivery is
\* settled one way or the other, as webhook.md says of the retries: unless an
\* error outside the POST ends its task, or a worker dies after it published
\* the next attempt, which leaves two tasks with stale counts of attempts.
DeliverySettles ==
  [](errors = 0 /\ OneTask) => <>(delivery.status # "pending")

-----------------------------------------------------------------------------
(* What the documents say and the code does not always do *)

\* webhook.md: a failure is retried, and only after exhaustion is the
\* delivery failed: no further POST of a failed delivery.
FailedIsExhausted == [][delivery.status = "failed" => posts' = posts]_vars

=============================================================================
