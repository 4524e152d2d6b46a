------------------------ MODULE WebhookServiceProofs ------------------------
(***************************************************************************)
(* Proofs about WebhookService for every set of workers and configurations *)
(* and for every number of retries, crashes and errors.                    *)
(***************************************************************************)
EXTENDS WebhookService, FiniteSetTheorems, TLAPS

-----------------------------------------------------------------------------
(* Type correctness *)

LEMMA TypeInit == Init => TypeOK
<1> SUFFICES ASSUME Init PROVE TypeOK
  OBVIOUS
<1> USE ConstantsAssumption DEF Init
<1>1. delivery \in Row
  BY DEF Row
<1>2. [pc |-> "idle", retries |-> 0, seen |-> delivery,
       config |-> webhook, success |-> FALSE] \in Task
  BY <1>1 DEF Task
<1>3. task \in [Workers -> Task]
  BY <1>2
<1> QED
  BY <1>1, <1>3 DEF TypeOK

\* Putting a task down keeps its type.
LEMMA IdleType ==
  ASSUME TypeOK, NEW w \in Workers
  PROVE  [task EXCEPT ![w] = Idle(w)] \in [Workers -> Task]
<1>1. Idle(w) \in Task
  BY DEF TypeOK, Idle, Task
<1> QED
  BY <1>1 DEF TypeOK

LEMMA OutcomeType ==
  ASSUME NEW seen \in Row, NEW success \in BOOLEAN
  PROVE  Outcome(seen, success) \in {"pending", "success", "failed"}
BY DEF Outcome, Row

LEMMA TypeStep == TypeOK /\ [Next]_vars => TypeOK'
<1> SUFFICES ASSUME TypeOK, [Next]_vars PROVE TypeOK'
  OBVIOUS
<1> USE ConstantsAssumption DEF TypeOK
<1>1. ASSUME NEW c \in Configs, upsert_config(c) PROVE TypeOK'
  BY <1>1 DEF upsert_config
<1>2. ASSUME NEW w \in Workers, NEW n \in 0..MaxRetries, start(w, n) PROVE TypeOK'
  <2>1. tasks' \in [0..MaxRetries -> Nat]
    BY <1>2 DEF start
  <2>2. task' \in [Workers -> Task]
    BY <1>2 DEF start, Task, Row
  <2> QED
    BY <1>2, <2>1, <2>2 DEF start
<1>3. ASSUME NEW w \in Workers, NEW success \in BOOLEAN, post(w, success) PROVE TypeOK'
  <2>1. task[w].config \in Configs /\ task' \in [Workers -> Task]
    BY <1>3 DEF post, Task
  <2>2. posts' \in Seq(Post)
    BY <1>3, <2>1 DEF post, Post
  <2> QED
    BY <1>3, <2>1, <2>2 DEF post
<1>4. ASSUME NEW w \in Workers, record(w) PROVE TypeOK'
  <2>1. /\ task[w].seen \in Row /\ task[w].success \in BOOLEAN
        /\ task' \in [Workers -> Task]
    BY <1>4 DEF record, Task
  <2>2. delivery' \in Row
    BY <1>4, <2>1, OutcomeType DEF record, Row, Flush, Attempts
  <2>3. sent' \in Nat
    BY <1>4, <2>1 DEF record, Sent
  <2> QED
    BY <1>4, <2>1, <2>2, <2>3 DEF record
<1>5. ASSUME NEW w \in Workers, retry(w) PROVE TypeOK'
  <2>1. task[w].retries + 1 \in 0..MaxRetries
    BY <1>5 DEF retry, Retries, Task
  <2>2. tasks' \in [0..MaxRetries -> Nat]
    BY <1>5, <2>1 DEF retry
  <2>3. task' \in [Workers -> Task]
    BY <1>5 DEF retry, Task
  <2> QED
    BY <1>5, <2>2, <2>3 DEF retry
<1>6. ASSUME NEW w \in Workers, ack(w) PROVE TypeOK'
  BY <1>6, IdleType DEF ack
<1>7. ASSUME NEW w \in Workers, abandon(w) PROVE TypeOK'
  <2>1. task' \in [Workers -> Task]
    BY <1>7, IdleType DEF abandon
  <2>2. errors' \in 0..MaxErrors
    BY <1>7 DEF abandon
  <2> QED
    BY <1>7, <2>1, <2>2 DEF abandon
<1>8. ASSUME NEW w \in Workers, crash(w) PROVE TypeOK'
  <2>1. task' \in [Workers -> Task]
    BY <1>8, IdleType DEF crash
  <2>2. task[w].retries \in 0..MaxRetries
    BY DEF Task
  <2>3. tasks' \in [0..MaxRetries -> Nat]
    BY <1>8, <2>2 DEF crash
  <2>4. crashes' \in 0..MaxCrashes
    BY <1>8 DEF crash
  <2> QED
    BY <1>8, <2>1, <2>3, <2>4 DEF crash
<1>9. CASE UNCHANGED vars
  BY <1>9 DEF vars
<1> QED
  BY <1>1, <1>2, <1>3, <1>4, <1>5, <1>6, <1>7, <1>8, <1>9 DEF Next, WorkerStep

\* Every state of a delivery, its tasks and its workers has its type.
THEOREM TypeCorrect == Spec => []TypeOK
BY TypeInit, TypeStep, PTL DEF Spec

-----------------------------------------------------------------------------
(* The row never claims more than was sent *)

\* What a worker holds was true of the POSTs made when it read the row, and
\* stays true, because POSTs only accumulate.
SeenInv ==
  \A w \in Workers :
    /\ At(w, "loaded") => task[w].seen.attempts <= Len(posts)
    /\ At(w, "answered") => task[w].seen.attempts + 1 <= Len(posts)
    /\ task[w].pc \in {"loaded", "answered"} /\ task[w].seen.status = "failed"
         => Len(posts) >= MaxRetries

ClaimInv == TypeOK /\ NeverOverclaims /\ SeenInv

LEMMA ClaimInit == Init => ClaimInv
<1> SUFFICES ASSUME Init PROVE ClaimInv
  OBVIOUS
<1>1. NeverOverclaims /\ SeenInv
  BY DEF Init, NeverOverclaims, SeenInv, At
<1> QED
  BY <1>1, TypeInit DEF ClaimInv

LEMMA ClaimStep == ClaimInv /\ [Next]_vars => ClaimInv'
<1> SUFFICES ASSUME ClaimInv, [Next]_vars PROVE NeverOverclaims' /\ SeenInv'
  BY TypeStep DEF ClaimInv
<1> USE ConstantsAssumption DEF ClaimInv, TypeOK
<1>1. ASSUME NEW c \in Configs, upsert_config(c) PROVE NeverOverclaims' /\ SeenInv'
  BY <1>1 DEF upsert_config, NeverOverclaims, SeenInv, At
<1>2. ASSUME NEW w \in Workers, NEW n \in 0..MaxRetries, start(w, n)
      PROVE  NeverOverclaims' /\ SeenInv'
  BY <1>2 DEF start, NeverOverclaims, SeenInv, At, Task, Row
<1>3. ASSUME NEW w \in Workers, NEW success \in BOOLEAN, post(w, success)
      PROVE  NeverOverclaims' /\ SeenInv'
  <2>1. Len(posts') = Len(posts) + 1 /\ Len(posts) \in Nat
    BY <1>3 DEF post
  <2>2. NeverOverclaims'
    BY <1>3, <2>1 DEF post, NeverOverclaims, Row
  <2>3. SeenInv'
    BY <1>3, <2>1 DEF post, SeenInv, At, Task, Row
  <2> QED
    BY <2>2, <2>3
<1>4. ASSUME NEW w \in Workers, record(w) PROVE NeverOverclaims' /\ SeenInv'
  <2>1. SeenInv'
    BY <1>4 DEF record, SeenInv, At, Task
  <2>2. delivery'.attempts <= Len(posts')
    BY <1>4 DEF record, SeenInv, At, Attempts
  <2>3. ASSUME delivery'.status = "failed" PROVE Len(posts') >= MaxRetries
    BY <1>4, <2>3 DEF record, NeverOverclaims, SeenInv, At, Outcome, Flush, Task, Row
  <2> QED
    BY <2>1, <2>2, <2>3 DEF NeverOverclaims
<1>5. ASSUME NEW w \in Workers, retry(w) \/ ack(w) \/ abandon(w) \/ crash(w)
      PROVE  NeverOverclaims' /\ SeenInv'
  <2>1. /\ UNCHANGED <<delivery, posts>>
        /\ \A v \in Workers :
             task'[v] = task[v] \/ task'[v].pc \notin {"loaded", "answered"}
    BY <1>5 DEF retry, ack, abandon, crash, Idle, Task
  <2> QED
    BY <2>1 DEF NeverOverclaims, SeenInv, At
<1>6. CASE UNCHANGED vars
  BY <1>6 DEF vars, NeverOverclaims, SeenInv, At
<1> QED
  BY <1>1, <1>2, <1>3, <1>4, <1>5, <1>6 DEF Next, WorkerStep

\* However tasks are duplicated, lost or overlap, the row never counts more
\* attempts than POSTs, nor gives up before MaxRetries of them.
THEOREM NeverOverclaimsCorrect == Spec => []NeverOverclaims
<1>1. Spec => []ClaimInv
  BY ClaimInit, ClaimStep, PTL DEF Spec
<1> QED
  BY <1>1, PTL DEF ClaimInv

-----------------------------------------------------------------------------
(* Url and secret belong together *)

LEMMA SignedStep ==
  ASSUME TypeOK, SignedForReceiver, [Next]_vars
  PROVE  SignedForReceiver'
<1> USE DEF TypeOK
<1>1. CASE UNCHANGED posts
  BY <1>1 DEF SignedForReceiver
<1>2. ASSUME NEW w \in Workers, NEW success \in BOOLEAN, post(w, success)
      PROVE  SignedForReceiver'
  <2>1. task[w].config \in Configs
    BY DEF Task
  <2>2. \A i \in DOMAIN posts' :
          \/ i \in DOMAIN posts /\ posts'[i] = posts[i]
          \/ posts'[i].url = task[w].config.url /\ posts'[i].secret = task[w].config.secret
    BY <1>2 DEF post
  <2> QED
    BY <2>1, <2>2 DEF SignedForReceiver
<1> QED
  BY <1>1, <1>2 DEF Next, WorkerStep, vars, upsert_config, start, record, retry,
                    ack, abandon, crash

\* Whenever an admin rotates the webhook, no POST mixes one url with the
\* secret of another.
THEOREM SignedCorrect == Spec => []SignedForReceiver
<1>1. Init => SignedForReceiver
  BY DEF Init, SignedForReceiver
<1>2. TypeOK /\ SignedForReceiver /\ [Next]_vars => SignedForReceiver'
  BY SignedStep
<1> QED
  BY TypeInit, TypeStep, <1>1, <1>2, PTL DEF Spec

-----------------------------------------------------------------------------
(* Success is recorded only for answered POSTs *)

\* Workers that know of a success they have not recorded yet.
Unrecorded == {w \in Workers : At(w, "answered") /\ task[w].success}

\* Each of them, and each audit row, has a successful POST of its own.
SuccessInv ==
  /\ TypeOK
  /\ delivery.status = "success" => sent > 0
  /\ sent + Cardinality(Unrecorded) <= Cardinality(Successes)

LEMMA SuccessSetsFinite ==
  ASSUME TypeOK
  PROVE  /\ IsFiniteSet(Unrecorded) /\ Cardinality(Unrecorded) \in Nat
         /\ IsFiniteSet(Successes) /\ Cardinality(Successes) \in Nat
<1>1. IsFiniteSet(Unrecorded)
  BY ConstantsAssumption, FS_Subset DEF Unrecorded
<1>2. Len(posts) \in Nat /\ DOMAIN posts = 1..Len(posts)
  BY DEF TypeOK
<1>3. IsFiniteSet(Successes)
  <2>1. Successes \subseteq 1..Len(posts)
    BY <1>2 DEF Successes
  <2>2. IsFiniteSet(1..Len(posts))
    BY <1>2, FS_Interval
  <2> QED
    BY <2>1, <2>2, FS_Subset
<1> QED
  BY <1>1, <1>3, FS_CardinalityType

LEMMA SuccessInit == Init => SuccessInv
<1> SUFFICES ASSUME Init PROVE SuccessInv
  OBVIOUS
<1>1. Unrecorded = {} /\ Successes = {}
  BY DEF Init, Unrecorded, Successes, At
<1> QED
  BY <1>1, TypeInit, FS_EmptySet DEF SuccessInv, Init

LEMMA SuccessStep == SuccessInv /\ [Next]_vars => SuccessInv'
<1> SUFFICES ASSUME SuccessInv, [Next]_vars
             PROVE  /\ (delivery.status = "success" => sent > 0)'
                    /\ (sent + Cardinality(Unrecorded) <= Cardinality(Successes))'
  BY TypeStep DEF SuccessInv
<1> USE DEF SuccessInv
<1>t. TypeOK'
  BY TypeStep
<1>f. /\ sent \in Nat /\ sent' \in Nat
      /\ IsFiniteSet(Unrecorded) /\ Cardinality(Unrecorded) \in Nat
      /\ IsFiniteSet(Successes) /\ Cardinality(Successes) \in Nat
  BY SuccessSetsFinite, <1>t DEF TypeOK
<1>s. ASSUME Unrecorded' \subseteq Unrecorded, UNCHANGED <<delivery, sent, posts>>
      PROVE  /\ (delivery.status = "success" => sent > 0)'
             /\ (sent + Cardinality(Unrecorded) <= Cardinality(Successes))'
  <2>1. Cardinality(Unrecorded') <= Cardinality(Unrecorded) /\ Cardinality(Unrecorded') \in Nat
    BY <1>f, <1>s, FS_Subset, FS_CardinalityType
  <2> QED
    BY <1>f, <1>s, <2>1 DEF Successes
<1>1. ASSUME NEW w \in Workers, NEW success \in BOOLEAN, post(w, success)
      PROVE  /\ (delivery.status = "success" => sent > 0)'
             /\ (sent + Cardinality(Unrecorded) <= Cardinality(Successes))'
  <2>1. UNCHANGED <<delivery, sent>>
    BY <1>1 DEF post
  <2>2. /\ Len(posts) \in Nat /\ DOMAIN posts = 1..Len(posts)
        /\ DOMAIN posts' = 1..(Len(posts) + 1)
        /\ \A i \in 1..Len(posts) : posts'[i] = posts[i]
        /\ posts'[Len(posts) + 1].success = success
    BY <1>1 DEF post, TypeOK
  <2>3. CASE success
    <3>1. Unrecorded' = Unrecorded \cup {w} /\ w \notin Unrecorded
      BY <1>1, <2>3 DEF post, Unrecorded, At, TypeOK, Task
    <3>2. Successes' = Successes \cup {Len(posts) + 1} /\ Len(posts) + 1 \notin Successes
      <4>1. 1..(Len(posts) + 1) = 1..Len(posts) \cup {Len(posts) + 1}
        BY <2>2
      <4>2. Len(posts) + 1 \notin 1..Len(posts)
        BY <2>2
      <4>3. \A i \in 1..Len(posts) : posts'[i].success <=> posts[i].success
        BY <2>2
      <4>4. posts'[Len(posts) + 1].success
        BY <2>2, <2>3
      <4>5. \A i : i \in Successes' <=> i \in Successes \/ i = Len(posts) + 1
        BY <2>2, <4>1, <4>3, <4>4, Zenon DEF Successes
      <4> QED
        BY <2>2, <4>2, <4>5, Zenon DEF Successes
    <3>3. Cardinality(Unrecorded') = Cardinality(Unrecorded) + 1
      BY <1>f, <3>1, FS_AddElement
    <3>4. Cardinality(Successes') = Cardinality(Successes) + 1
      BY <1>f, <3>2, FS_AddElement
    <3> QED
      BY <1>f, <2>1, <3>3, <3>4
  <2>4. CASE ~success
    <3>1. Unrecorded' = Unrecorded
      BY <1>1, <2>4 DEF post, Unrecorded, At, TypeOK, Task
    <3>2. Successes' = Successes
      BY <2>2, <2>4 DEF Successes
    <3> QED
      BY <2>1, <3>1, <3>2
  <2> QED
    BY <2>3, <2>4
<1>2. ASSUME NEW w \in Workers, record(w)
      PROVE  /\ (delivery.status = "success" => sent > 0)'
             /\ (sent + Cardinality(Unrecorded) <= Cardinality(Successes))'
  <2>1. Unrecorded' = Unrecorded \ {w} /\ (task[w].success <=> w \in Unrecorded)
    BY <1>2 DEF record, Unrecorded, At, TypeOK, Task
  <2>2. Successes' = Successes
    BY <1>2 DEF record, Successes
  <2>3. (delivery.status = "success" => sent > 0)'
    BY <1>2, <1>f DEF record, Outcome, Flush, Sent, TypeOK, Task, Row
  <2>4. CASE task[w].success
    <3>1. Cardinality(Unrecorded') = Cardinality(Unrecorded) - 1
      BY <1>f, <2>1, <2>4, FS_RemoveElement
    <3>2. sent' = sent + 1
      BY <1>2, <2>4 DEF record, Sent
    <3> QED
      BY <1>f, <2>2, <2>3, <3>1, <3>2
  <2>5. CASE ~task[w].success
    <3>1. Unrecorded' = Unrecorded
      BY <2>1, <2>5
    <3>2. sent' = sent
      BY <1>2, <2>5 DEF record, Sent
    <3> QED
      BY <1>f, <2>2, <2>3, <3>1, <3>2
  <2> QED
    BY <2>4, <2>5
<1>3. CASE \E c \in Configs : upsert_config(c)
  BY <1>s, <1>3 DEF upsert_config, Unrecorded, At
<1>4. ASSUME NEW w \in Workers,
             \/ \E n \in 0..MaxRetries : start(w, n)
             \/ retry(w) \/ ack(w) \/ abandon(w) \/ crash(w)
      PROVE  /\ (delivery.status = "success" => sent > 0)'
             /\ (sent + Cardinality(Unrecorded) <= Cardinality(Successes))'
  <2>1. /\ UNCHANGED <<delivery, sent, posts>>
        /\ \A v \in Workers : task'[v] = task[v] \/ task'[v].pc # "answered"
    BY <1>4 DEF start, retry, ack, abandon, crash, Idle, TypeOK, Task
  <2>2. Unrecorded' \subseteq Unrecorded
    BY <2>1 DEF Unrecorded, At
  <2> QED
    BY <1>s, <2>1, <2>2
<1>5. CASE UNCHANGED vars
  BY <1>s, <1>5 DEF vars, Unrecorded, At
<1> QED
  BY <1>1, <1>2, <1>3, <1>4, <1>5 DEF Next, WorkerStep

\* No success and no webhook_sent row without a POST answered with 2xx.
THEOREM SuccessCorrect == Spec => []SuccessIsReal
<1>1. Spec => []SuccessInv
  BY SuccessInit, SuccessStep, PTL DEF Spec
<1>2. SuccessInv => SuccessIsReal
  <2> SUFFICES ASSUME SuccessInv PROVE SuccessIsReal
    OBVIOUS
  <2>1. sent \in Nat /\ Cardinality(Unrecorded) \in Nat /\ Cardinality(Successes) \in Nat
    BY SuccessSetsFinite DEF SuccessInv, TypeOK
  <2> QED
    BY <2>1 DEF SuccessInv, SuccessIsReal
<1> QED
  BY <1>1, <1>2, PTL

-----------------------------------------------------------------------------
(* One task while no worker dies: it is a token, a message or a busy worker *)

\* Whoever holds the token knows the row as it is, and whether it succeeded.
TokenKnowsRow ==
  /\ \A w \in Workers :
       /\ task[w].pc \in {"loaded", "answered"} =>
            task[w].seen = delivery /\ delivery.status # "success"
       /\ At(w, "recorded") /\ ~task[w].success => delivery.status # "success"
  /\ Waiting # {} => delivery.status # "success"
  /\ sent > 0 => delivery.status = "success"

Answered == {w \in Workers : At(w, "answered")}

PostsCounted ==
  errors = 0 =>
    Len(posts) = delivery.attempts + (IF Answered = {} THEN 0 ELSE 1)

TokenInv == TypeOK /\ (crashes = 0 => OneTask /\ TokenKnowsRow /\ PostsCounted)

LEMMA TokenInit == Init => TokenInv
<1> SUFFICES ASSUME Init PROVE TokenInv
  OBVIOUS
<1>1. Busy = {} /\ Answered = {}
  BY DEF Init, Busy, Answered, At
<1>2. Waiting \subseteq {0}
  BY DEF Init, Waiting
<1>3. OneTask
  BY <1>1, <1>2 DEF Init, OneTask
<1>4. TokenKnowsRow
  BY DEF Init, TokenKnowsRow, At
<1>5. PostsCounted
  BY <1>1 DEF Init, PostsCounted
<1> QED
  BY <1>3, <1>4, <1>5, TypeInit DEF TokenInv

\* A step in which no worker dies keeps the token and what it knows.
LEMMA TokenStep == TokenInv /\ [Next]_vars => TokenInv'
<1> SUFFICES ASSUME TokenInv, [Next]_vars, crashes' = 0
             PROVE  OneTask' /\ TokenKnowsRow' /\ PostsCounted'
  BY TypeStep DEF TokenInv
<1> USE ConstantsAssumption DEF TokenInv, TypeOK
<1>1. ASSUME NEW c \in Configs, upsert_config(c)
      PROVE  OneTask' /\ TokenKnowsRow' /\ PostsCounted'
  BY <1>1 DEF upsert_config, OneTask, TokenKnowsRow, PostsCounted, Busy, Waiting, Answered, At
<1>2. ASSUME NEW w \in Workers, NEW n \in 0..MaxRetries, start(w, n)
      PROVE  OneTask' /\ TokenKnowsRow' /\ PostsCounted'
  <2>1. /\ crashes = 0 /\ n \in Waiting /\ tasks[n] = 1
        /\ UNCHANGED <<delivery, sent, posts, errors>>
    BY <1>2 DEF start, OneTask, Waiting
  <2>2. Waiting = {n} /\ Busy = {}
    BY <2>1 DEF OneTask
  <2>3. Waiting' = {}
    BY <1>2, <2>1, <2>2 DEF start, Waiting
  <2>4. Busy' = {w} /\ Answered' = {} /\ Answered = {}
    BY <1>2, <2>2 DEF start, Busy, Answered, At, Task
  <2>5. OneTask'
    BY <1>2, <2>1, <2>3, <2>4 DEF start, OneTask
  <2>6. task' = [task EXCEPT ![w] = task'[w]] /\ task'[w].pc = "loaded" /\ task'[w].seen = delivery
    BY <1>2 DEF start
  <2>7. TokenKnowsRow'
    BY <2>1, <2>2, <2>3, <2>6 DEF TokenKnowsRow, Busy, At
  <2> QED
    BY <2>1, <2>4, <2>5, <2>7 DEF PostsCounted
<1>3. ASSUME NEW w \in Workers, NEW success \in BOOLEAN, post(w, success)
      PROVE  OneTask' /\ TokenKnowsRow' /\ PostsCounted'
  <2>1. crashes = 0 /\ w \in Busy /\ UNCHANGED <<tasks, delivery, sent, errors>>
    BY <1>3 DEF post, Busy, At
  <2>2. Busy = {w} /\ Waiting = {} /\ Waiting' = {}
    BY <2>1 DEF OneTask, Waiting
  <2>3. Busy' = {w} /\ Answered = {} /\ Answered' = {w}
    BY <1>3, <2>2 DEF post, Busy, Answered, At, Task
  <2>4. OneTask'
    BY <2>1, <2>2, <2>3 DEF OneTask
  <2>5. TokenKnowsRow'
    BY <1>3, <2>1, <2>2 DEF post, TokenKnowsRow, Busy, At, Task
  <2>6. PostsCounted'
    BY <1>3, <2>1, <2>3 DEF post, PostsCounted, Row
  <2> QED
    BY <2>4, <2>5, <2>6
<1>4. ASSUME NEW w \in Workers, record(w)
      PROVE  OneTask' /\ TokenKnowsRow' /\ PostsCounted'
  <2>1. crashes = 0 /\ w \in Busy /\ UNCHANGED <<tasks, posts, errors>>
    BY <1>4 DEF record, Busy, At
  <2>2. Busy = {w} /\ Waiting = {} /\ Waiting' = {}
    BY <2>1 DEF OneTask, Waiting
  <2>3. Busy' = {w} /\ Answered = {w} /\ Answered' = {}
    BY <1>4, <2>2 DEF record, Busy, Answered, At, Task
  <2>4. task[w].seen = delivery /\ delivery.status # "success" /\ sent = 0
    BY <1>4, <2>1 DEF record, TokenKnowsRow, At
  <2>5. delivery'.attempts = delivery.attempts + 1
    BY <1>4, <2>4 DEF record, Attempts
  <2>6. IF task[w].success THEN delivery'.status = "success"
                           ELSE delivery'.status # "success" /\ sent' = 0
    BY <1>4, <2>4 DEF record, Outcome, Flush, Sent, Row
  <2>7. OneTask'
    BY <2>1, <2>2, <2>3 DEF OneTask
  <2>8. task' = [task EXCEPT ![w].pc = "recorded"]
    BY <1>4 DEF record
  <2>9. TokenKnowsRow'
    BY <2>2, <2>6, <2>8 DEF TokenKnowsRow, Busy, At, Task
  <2>10. PostsCounted'
    BY <2>1, <2>3, <2>5 DEF PostsCounted, Row
  <2> QED
    BY <2>7, <2>9, <2>10
<1>5. ASSUME NEW w \in Workers, retry(w)
      PROVE  OneTask' /\ TokenKnowsRow' /\ PostsCounted'
  <2>1. crashes = 0 /\ w \in Busy /\ UNCHANGED <<delivery, sent, posts, errors>>
    BY <1>5 DEF retry, Busy, At
  <2>2. Busy = {w} /\ Waiting = {} /\ Answered = {}
    BY <1>5, <2>1 DEF OneTask, retry, Busy, Answered, At
  <2>3. task[w].retries + 1 \in 0..MaxRetries /\ delivery.status # "success"
    BY <1>5, <2>1 DEF retry, Retries, Task, TokenKnowsRow
  <2>4. \A n \in 0..MaxRetries :
          tasks[n] = 0 /\ tasks'[n] = IF n = task[w].retries + 1 THEN 1 ELSE 0
    BY <1>5, <2>2, <2>3 DEF retry, Waiting
  <2>5. Busy' = {} /\ Answered' = {}
    BY <1>5, <2>2 DEF retry, Busy, Answered, At, Task
  <2>6. OneTask'
    BY <2>4, <2>5 DEF OneTask, Waiting
  <2>7. TokenKnowsRow'
    BY <2>1, <2>3, <2>5 DEF TokenKnowsRow, Busy, At
  <2> QED
    BY <2>1, <2>2, <2>5, <2>6, <2>7 DEF PostsCounted
<1>6. ASSUME NEW w \in Workers, ack(w)
      PROVE  OneTask' /\ TokenKnowsRow' /\ PostsCounted'
  <2>1. crashes = 0 /\ UNCHANGED <<tasks, delivery, sent, posts, errors>>
    BY <1>6 DEF ack
  <2>2. Busy' \subseteq Busy /\ Waiting' = Waiting /\ Answered' = Answered
    BY <1>6 DEF ack, Idle, Busy, Waiting, Answered, At, Task
  <2>3. \A v \in Workers : task'[v] = task[v] \/ task'[v].pc = "idle"
    BY <1>6 DEF ack, Idle, Task
  <2>4. TokenKnowsRow'
    BY <2>1, <2>2, <2>3 DEF TokenKnowsRow, At
  <2> QED
    BY <2>1, <2>2, <2>4 DEF OneTask, PostsCounted
<1>7. ASSUME NEW w \in Workers, abandon(w)
      PROVE  OneTask' /\ TokenKnowsRow' /\ PostsCounted'
  <2>1. crashes = 0 /\ UNCHANGED <<tasks, delivery, sent>> /\ errors' # 0
    BY <1>7 DEF abandon
  <2>2. Busy' \subseteq Busy /\ Waiting' = Waiting
    BY <1>7 DEF abandon, Idle, Busy, Waiting, Task
  <2>3. \A v \in Workers : task'[v] = task[v] \/ task'[v].pc = "idle"
    BY <1>7 DEF abandon, Idle, Task
  <2>4. TokenKnowsRow'
    BY <2>1, <2>2, <2>3 DEF TokenKnowsRow, At
  <2> QED
    BY <2>1, <2>2, <2>4 DEF OneTask, PostsCounted
<1>8. ASSUME NEW w \in Workers, crash(w)
      PROVE  FALSE
  BY <1>8 DEF crash
<1>9. CASE UNCHANGED vars
  BY <1>9 DEF vars, OneTask, TokenKnowsRow, PostsCounted, Busy, Waiting, Answered, At
<1> QED
  BY <1>1, <1>2, <1>3, <1>4, <1>5, <1>6, <1>7, <1>8, <1>9 DEF Next, WorkerStep

\* While no worker dies a delivery has one task, for any number of workers:
\* every POST is counted, and no attempt follows or undoes a success.
THEOREM OneTaskCorrect == Spec => []OneTaskWithoutCrashes
<1>1. Spec => []TokenInv
  BY TokenInit, TokenStep, PTL DEF Spec
<1>2. TokenInv => OneTaskWithoutCrashes
  <2> SUFFICES ASSUME TokenInv, crashes = 0
               PROVE  /\ \A w \in Workers : At(w, "loaded") => delivery.status # "success"
                      /\ sent > 0 => delivery.status = "success"
                      /\ errors = 0 =>
                           Len(posts) = delivery.attempts + Cardinality(Answered)
    BY DEF OneTaskWithoutCrashes, Answered
  <2>1. Answered = {} \/ \E w \in Workers : Answered = {w}
    BY DEF TokenInv, OneTask, Busy, Answered, At
  <2>2. Cardinality(Answered) = IF Answered = {} THEN 0 ELSE 1
    BY <2>1, FS_EmptySet, FS_Singleton
  <2> QED
    BY <2>2 DEF TokenInv, TokenKnowsRow, PostsCounted, At
<1> QED
  BY <1>1, <1>2, PTL

-----------------------------------------------------------------------------
(* While there is one task, it comes to the delivery's end *)

\* Whoever holds the task has the row as it is, and the row counts at least as
\* many attempts as the task has had, the copies that a late crash can bring
\* back included; nobody puts the task down while the delivery is pending.
TaskCarriesRow ==
  /\ \A n \in Waiting : delivery.attempts >= n
  /\ \A w \in Workers :
       /\ task[w].pc \in {"loaded", "answered"} =>
            task[w].seen = delivery /\ delivery.attempts >= task[w].retries
       /\ At(w, "recorded") =>
            /\ delivery.attempts >= task[w].retries + 1
            /\ ~Retries(w) => delivery.status # "pending"
       /\ At(w, "retried") => delivery.attempts >= task[w].retries

TaskLeft ==
  errors = 0 /\ delivery.status = "pending" =>
    Waiting # {} \/ \E w \in Busy : At(w, "recorded") => Retries(w)

CarryInv == TaskCarriesRow /\ TaskLeft

LEMMA CarryInit == Init => CarryInv
<1> SUFFICES ASSUME Init PROVE CarryInv
  OBVIOUS
<1>1. 0 \in Waiting /\ \A n \in Waiting : n = 0
  BY ConstantsAssumption DEF Init, Waiting
<1> QED
  BY <1>1 DEF Init, CarryInv, TaskCarriesRow, TaskLeft, At

\* While there is one task, every step keeps what its holder knows: also the
\* crash of a worker that has recorded its attempt and not yet retried.
LEMMA CarryStep ==
  ASSUME TypeOK, OneTask, CarryInv, [Next]_vars
  PROVE  CarryInv'
<1> USE ConstantsAssumption DEF CarryInv, TypeOK
<1>1. ASSUME NEW c \in Configs, upsert_config(c) PROVE CarryInv'
  BY <1>1 DEF upsert_config, TaskCarriesRow, TaskLeft, Busy, Waiting, At, Retries
<1>2. ASSUME NEW w \in Workers, NEW n \in 0..MaxRetries, start(w, n) PROVE CarryInv'
  <2>1. n \in Waiting /\ Waiting' \subseteq Waiting /\ UNCHANGED <<delivery, errors>>
    BY <1>2 DEF start, Waiting
  <2>2. /\ \A v \in Workers : v # w => task'[v] = task[v]
        /\ task'[w].pc = "loaded" /\ task'[w].retries = n /\ task'[w].seen = delivery
    BY <1>2 DEF start
  <2>3. TaskCarriesRow'
    BY <2>1, <2>2 DEF TaskCarriesRow, At, Retries
  <2>4. TaskLeft'
    BY <2>2 DEF TaskLeft, Busy, At
  <2> QED
    BY <2>3, <2>4
<1>3. ASSUME NEW w \in Workers, NEW success \in BOOLEAN, post(w, success) PROVE CarryInv'
  <2>1. Waiting' = Waiting /\ UNCHANGED <<delivery, errors>>
    BY <1>3 DEF post, Waiting
  <2>2. /\ \A v \in Workers : v # w => task'[v] = task[v]
        /\ task[w].pc = "loaded" /\ task'[w].pc = "answered"
        /\ task'[w].retries = task[w].retries /\ task'[w].seen = task[w].seen
    BY <1>3 DEF post, At, Task
  <2>3. TaskCarriesRow'
    BY <2>1, <2>2 DEF TaskCarriesRow, At, Retries
  <2>4. TaskLeft'
    BY <2>2 DEF TaskLeft, Busy, At
  <2> QED
    BY <2>3, <2>4
<1>4. ASSUME NEW w \in Workers, record(w) PROVE CarryInv'
  <2>1. /\ w \in Busy /\ task[w].pc = "answered" /\ task[w].seen = delivery
        /\ delivery.attempts >= task[w].retries
    BY <1>4 DEF record, Busy, At, TaskCarriesRow
  <2>2. Busy = {w} /\ Waiting = {} /\ Waiting' = {}
    BY <1>4, <2>1 DEF record, OneTask, Waiting
  <2>3. /\ \A v \in Workers : v # w => task'[v] = task[v]
        /\ task'[w] = [task[w] EXCEPT !.pc = "recorded"]
        /\ errors' = errors
    BY <1>4 DEF record
  <2>4. /\ task'[w].pc = "recorded" /\ task'[w].retries = task[w].retries
        /\ task'[w].success = task[w].success /\ task[w].success \in BOOLEAN
        /\ task[w].retries \in 0..MaxRetries
    BY <2>3 DEF Task
  <2>5. delivery'.attempts = delivery.attempts + 1 /\ delivery.attempts \in Nat
    BY <1>4, <2>1 DEF record, Attempts, Row
  <2>6. ~Retries(w)' => delivery'.status # "pending"
    <3>1. Retries(w)' = Retries(w)
      BY <2>4 DEF Retries
    <3>2. CASE task[w].success
      BY <1>4, <2>1, <3>2 DEF record, Outcome, Flush, Row
    <3>3. CASE ~task[w].success /\ task[w].retries = MaxRetries
      BY <1>4, <2>1, <2>5, <3>3 DEF record, Outcome, Flush, Row
    <3> QED
      BY <2>4, <3>1, <3>2, <3>3 DEF Retries
  <2>7. \A v \in Workers : v # w => task[v].pc \in {"idle", "retried"}
    BY <2>2 DEF Busy, Task
  <2>8. TaskCarriesRow'
    <3>1. ASSUME NEW v \in Workers, v # w
          PROVE  /\ task'[v].pc \in {"idle", "retried"}
                 /\ task'[v].pc = "retried" => delivery'.attempts >= task'[v].retries
      <4>1. task[v].pc = "retried" => delivery.attempts >= task[v].retries
        BY DEF TaskCarriesRow, At
      <4>2. task[v].retries \in 0..MaxRetries
        BY DEF Task
      <4> QED
        BY <2>3, <2>5, <2>7, <3>1, <4>1, <4>2
    <3>2. delivery'.attempts >= task'[w].retries + 1
      BY <2>1, <2>4, <2>5
    <3> QED
      BY <2>2, <2>4, <2>6, <3>1, <3>2 DEF TaskCarriesRow, At
  <2>9. TaskLeft'
    BY <2>4, <2>6 DEF TaskLeft, Busy, At
  <2> QED
    BY <2>8, <2>9
<1>5. ASSUME NEW w \in Workers, retry(w) PROVE CarryInv'
  <2>1. /\ w \in Busy /\ task[w].pc = "recorded" /\ task[w].retries + 1 \in 0..MaxRetries
        /\ task[w].retries \in 0..MaxRetries
        /\ delivery.attempts >= task[w].retries + 1 /\ delivery.attempts \in Nat
    BY <1>5 DEF retry, Retries, Busy, At, TaskCarriesRow, Task, Row
  <2>2. Busy = {w} /\ Waiting = {}
    BY <2>1 DEF OneTask
  <2>3. Waiting' = {task[w].retries + 1}
    BY <1>5, <2>1, <2>2 DEF retry, Waiting
  <2>4. /\ \A v \in Workers : v # w => task'[v] = task[v]
        /\ task'[w].pc = "retried" /\ task'[w].retries = task[w].retries
        /\ UNCHANGED <<delivery, errors>>
    BY <1>5 DEF retry, Task
  <2>5. TaskCarriesRow'
    <3>1. \A n \in Waiting' : delivery'.attempts >= n
      BY <2>1, <2>3, <2>4
    <3>2. delivery'.attempts >= task'[w].retries
      BY <2>1, <2>4
    <3> QED
      BY <2>4, <3>1, <3>2 DEF TaskCarriesRow, At, Retries
  <2> QED
    BY <2>3, <2>5 DEF TaskLeft
<1>6. ASSUME NEW w \in Workers, ack(w) PROVE CarryInv'
  <2>1. /\ \A v \in Workers : v # w => task'[v] = task[v]
        /\ task'[w].pc = "idle"
        /\ UNCHANGED <<delivery, errors, tasks>> /\ Waiting' = Waiting
    BY <1>6 DEF ack, Idle, Task, Waiting
  <2>2. TaskCarriesRow'
    BY <2>1 DEF TaskCarriesRow, At, Retries
  <2>3. task[w].pc = "retried" \/ (task[w].pc = "recorded" /\ delivery.status # "pending")
    BY <1>6 DEF ack, At, TaskCarriesRow
  <2>4. TaskLeft'
    BY <2>1, <2>3 DEF TaskLeft, Busy, At, Retries
  <2> QED
    BY <2>2, <2>4
<1>7. ASSUME NEW w \in Workers, abandon(w) PROVE CarryInv'
  <2>1. /\ \A v \in Workers : v # w => task'[v] = task[v]
        /\ task'[w].pc = "idle"
        /\ UNCHANGED <<delivery, tasks>> /\ Waiting' = Waiting /\ errors' # 0
    BY <1>7 DEF abandon, Idle, Task, Waiting
  <2>2. TaskCarriesRow'
    BY <2>1 DEF TaskCarriesRow, At, Retries
  <2> QED
    BY <2>1, <2>2 DEF TaskLeft
<1>8. ASSUME NEW w \in Workers, crash(w) PROVE CarryInv'
  <2>1. /\ \A v \in Workers : v # w => task'[v] = task[v]
        /\ task'[w].pc = "idle"
        /\ UNCHANGED <<delivery, errors>>
    BY <1>8 DEF crash, Idle, Task
  <2>2. /\ task[w].pc \in {"loaded", "answered", "recorded", "retried"}
        /\ task[w].retries \in 0..MaxRetries /\ delivery.attempts \in Nat
    BY <1>8 DEF crash, At, Task, Row
  <2>3. delivery.attempts >= task[w].retries
    BY <2>2 DEF TaskCarriesRow, At
  <2>4. Waiting' = Waiting \cup {task[w].retries}
    BY <1>8, <2>2 DEF crash, Waiting
  <2>5. TaskCarriesRow'
    BY <2>1, <2>3, <2>4 DEF TaskCarriesRow, At, Retries
  <2> QED
    BY <2>4, <2>5 DEF TaskLeft
<1>9. CASE UNCHANGED vars
  BY <1>9 DEF vars, TaskCarriesRow, TaskLeft, Busy, Waiting, At, Retries
<1> QED
  BY <1>1, <1>2, <1>3, <1>4, <1>5, <1>6, <1>7, <1>8, <1>9 DEF Next, WorkerStep

\* As long as nothing has brought a second task or ended one, a pending delivery
\* still has its task: no sequence of failures, retries and crashed workers
\* loses it, for any number of workers and retries.
THEOREM NeverLostCorrect == Spec => NeverLost
<1>1. TypeOK /\ OneTask /\ CarryInv /\ [Next]_vars => CarryInv'
  BY CarryStep
<1>2. CarryInv => TaskLeft
  BY DEF CarryInv
<1>3. Spec /\ [](errors = 0 /\ OneTask) => [](errors = 0 /\ TaskLeft)
  BY TypeInit, TypeStep, CarryInit, <1>1, <1>2, PTL DEF Spec
<1>4. errors = 0 /\ TaskLeft =>
        (delivery.status = "pending" =>
           \/ Waiting # {}
           \/ \E w \in Busy : At(w, "recorded") => Retries(w))
  BY DEF TaskLeft
<1> QED
  BY <1>3, <1>4, PTL DEF NeverLost

-----------------------------------------------------------------------------
(* Retries are bounded *)

\* The attempts a message may still lead to if every answer is a failure: one
\* for each retry count from its own to MaxRetries, for every message waiting.
MessageTries ==
  {t \in (0..MaxRetries) \X Nat \X (0..MaxRetries) :
     t[2] >= 1 /\ t[2] <= tasks[t[1]] /\ t[3] >= t[1]}

\* The retry count of the next attempt of a worker's task.
NextTry(w) ==
  IF task[w].pc = "loaded" THEN task[w].retries
  ELSE IF task[w].pc \in {"answered", "recorded"} THEN task[w].retries + 1
  ELSE MaxRetries + 1

WorkerTries == {t \in Workers \X (0..MaxRetries) : t[2] >= NextTry(t[1])}

Limit(n) == (MaxRetries + 1) * (1 + n)

\* The POSTs made and those that may still come: only a crash adds to them.
TriesInv ==
  /\ TypeOK
  /\ IsFiniteSet(MessageTries)
  /\ Len(posts) + Cardinality(MessageTries) + Cardinality(WorkerTries)
       <= Limit(crashes)

MessageSlice(n, k) == {<<n, k, j>> : j \in n..MaxRetries}
WorkerSlice(w, n) == {<<w, j>> : j \in n..MaxRetries}

LEMMA MessageSliceSize ==
  ASSUME NEW n \in 0..MaxRetries, NEW k \in Nat
  PROVE  /\ IsFiniteSet(MessageSlice(n, k))
         /\ Cardinality(MessageSlice(n, k)) = MaxRetries + 1 - n
<1> DEFINE f == [j \in n..MaxRetries |-> <<n, k, j>>]
<1>1. f \in Bijection(n..MaxRetries, MessageSlice(n, k))
  BY DEF MessageSlice, Bijection, Injection, Surjection, IsInjective
<1>2. IsFiniteSet(n..MaxRetries) /\ Cardinality(n..MaxRetries) = MaxRetries + 1 - n
  BY ConstantsAssumption, FS_Interval
<1> QED
  BY <1>1, <1>2, FS_Bijection DEF ExistsBijection

LEMMA MessageSliceOf ==
  ASSUME NEW n \in 0..MaxRetries, NEW k \in Nat
  PROVE  MessageSlice(n, k) =
           {t \in (0..MaxRetries) \X Nat \X (0..MaxRetries) : t[1] = n /\ t[2] = k /\ t[3] >= n}
<1>1. \A t \in (0..MaxRetries) \X Nat \X (0..MaxRetries) : t = <<t[1], t[2], t[3]>>
  OBVIOUS
<1>2. n..MaxRetries = {j \in 0..MaxRetries : j >= n}
  BY ConstantsAssumption
<1> QED
  BY <1>1, <1>2 DEF MessageSlice

LEMMA WorkerSliceSize ==
  ASSUME NEW w \in Workers, NEW n \in 0..MaxRetries + 1
  PROVE  /\ IsFiniteSet(WorkerSlice(w, n))
         /\ Cardinality(WorkerSlice(w, n)) = MaxRetries + 1 - n
<1> DEFINE f == [j \in n..MaxRetries |-> <<w, j>>]
<1>1. f \in Bijection(n..MaxRetries, WorkerSlice(w, n))
  BY DEF WorkerSlice, Bijection, Injection, Surjection, IsInjective
<1>2. IsFiniteSet(n..MaxRetries) /\ Cardinality(n..MaxRetries) = MaxRetries + 1 - n
  BY ConstantsAssumption, FS_Interval
<1> QED
  BY <1>1, <1>2, FS_Bijection DEF ExistsBijection

\* A slice that is put in, or taken out, counts.
LEMMA PutIn ==
  ASSUME NEW S, IsFiniteSet(S), NEW T, IsFiniteSet(T), S \cap T = {}
  PROVE  IsFiniteSet(S \cup T) /\ Cardinality(S \cup T) = Cardinality(S) + Cardinality(T)
<1>1. Cardinality(S \cap T) = 0
  BY FS_EmptySet
<1> QED
  BY <1>1, FS_Union, FS_CardinalityType

LEMMA TakeOut ==
  ASSUME NEW S, IsFiniteSet(S), NEW T, T \subseteq S
  PROVE  IsFiniteSet(S \ T) /\ Cardinality(S \ T) = Cardinality(S) - Cardinality(T)
<1>1. S \cap T = T
  OBVIOUS
<1> QED
  BY <1>1, FS_Difference

LEMMA WorkerTriesFinite ==
  /\ IsFiniteSet(WorkerTries) /\ Cardinality(WorkerTries) \in Nat
  /\ IsFiniteSet(WorkerTries') /\ Cardinality(WorkerTries') \in Nat
<1>1. IsFiniteSet(Workers) /\ IsFiniteSet(0..MaxRetries)
  BY ConstantsAssumption, FS_Interval
<1>2. IsFiniteSet(Workers \X (0..MaxRetries))
  BY <1>1, FS_Product
<1>3. /\ WorkerTries \in SUBSET (Workers \X (0..MaxRetries))
      /\ WorkerTries' \in SUBSET (Workers \X (0..MaxRetries))
  BY DEF WorkerTries
<1> QED
  BY <1>2, <1>3, FS_Subset, FS_CardinalityType

LEMMA TriesInit == Init => TriesInv
<1> SUFFICES ASSUME Init PROVE TriesInv
  OBVIOUS
<1>1. MessageTries = MessageSlice(0, 1)
  BY ConstantsAssumption DEF Init, MessageTries, MessageSlice
<1>2. WorkerTries = {}
  BY ConstantsAssumption DEF Init, WorkerTries, NextTry
<1>3. IsFiniteSet(MessageTries) /\ Cardinality(MessageTries) = MaxRetries + 1
  BY <1>1, MessageSliceSize, ConstantsAssumption
<1> QED
  BY <1>2, <1>3, TypeInit, FS_EmptySet, ConstantsAssumption DEF Init, TriesInv, Limit

\* A reserved message takes its attempts with it.
LEMMA TriesStart ==
  ASSUME TriesInv, NEW w \in Workers, NEW n \in 0..MaxRetries, start(w, n)
  PROVE  /\ IsFiniteSet(MessageTries')
         /\ Cardinality(MessageTries') = Cardinality(MessageTries) - (MaxRetries + 1 - n)
         /\ Cardinality(WorkerTries') = Cardinality(WorkerTries) + (MaxRetries + 1 - n)
<1> USE ConstantsAssumption DEF TriesInv, TypeOK
<1>1. tasks[n] \in Nat /\ tasks[n] >= 1 /\ tasks' = [tasks EXCEPT ![n] = tasks[n] - 1]
  BY DEF start
<1>s. MessageSlice(n, tasks[n]) =
        {t \in (0..MaxRetries) \X Nat \X (0..MaxRetries) :
           t[1] = n /\ t[2] = tasks[n] /\ t[3] >= n}
  BY <1>1, MessageSliceOf
<1>p. \A m \in 0..MaxRetries :
        /\ tasks[m] \in Nat
        /\ tasks'[m] = IF m = n THEN tasks[n] - 1 ELSE tasks[m]
  BY <1>1
<1>2. MessageSlice(n, tasks[n]) \subseteq MessageTries
  BY <1>1, <1>s DEF MessageTries
<1>3. MessageTries' = MessageTries \ MessageSlice(n, tasks[n])
  <2> DEFINE All == (0..MaxRetries) \X Nat \X (0..MaxRetries)
  <2>1. ASSUME NEW t \in All
        PROVE  t \in MessageTries' <=> t \in MessageTries /\ t \notin MessageSlice(n, tasks[n])
    <3>1. t[1] \in 0..MaxRetries /\ t[2] \in Nat
      OBVIOUS
    <3>2. /\ t \in MessageTries <=> t[2] >= 1 /\ t[2] <= tasks[t[1]] /\ t[3] >= t[1]
          /\ t \in MessageTries' <=> t[2] >= 1 /\ t[2] <= tasks'[t[1]] /\ t[3] >= t[1]
      BY DEF MessageTries
    <3>3. t \in MessageSlice(n, tasks[n]) <=> t[1] = n /\ t[2] = tasks[n] /\ t[3] >= n
      BY <1>s
    <3> QED
      BY ONLY <1>1, <1>p, <3>1, <3>2, <3>3
  <2>2. /\ MessageTries \subseteq All /\ MessageTries' \subseteq All
        /\ MessageSlice(n, tasks[n]) \subseteq All
    BY <1>s DEF MessageTries
  <2> HIDE DEF All
  <2> QED
    BY <2>1, <2>2
<1>4. /\ \A v \in Workers : v # w => NextTry(v)' = NextTry(v)
      /\ NextTry(w) = MaxRetries + 1 /\ NextTry(w)' = n
  BY DEF start, At, NextTry, Task
<1>5. WorkerTries \cap WorkerSlice(w, n) = {}
  BY <1>4 DEF WorkerTries, WorkerSlice
<1>6. WorkerTries' = WorkerTries \cup WorkerSlice(w, n)
  BY <1>4 DEF WorkerTries, WorkerSlice
<1>7. IsFiniteSet(WorkerTries)
  BY WorkerTriesFinite
<1>8. /\ Cardinality(MessageSlice(n, tasks[n])) = MaxRetries + 1 - n
      /\ IsFiniteSet(WorkerSlice(w, n)) /\ Cardinality(WorkerSlice(w, n)) = MaxRetries + 1 - n
  BY <1>1, MessageSliceSize, WorkerSliceSize
<1>9. /\ IsFiniteSet(MessageTries')
      /\ Cardinality(MessageTries') = Cardinality(MessageTries) - (MaxRetries + 1 - n)
  BY <1>2, <1>3, <1>8, TakeOut
<1>10. Cardinality(WorkerTries') = Cardinality(WorkerTries) + (MaxRetries + 1 - n)
  BY <1>5, <1>6, <1>7, <1>8, PutIn
<1> QED
  BY <1>9, <1>10

\* A POST uses up one of its worker's attempts.
LEMMA TriesPost ==
  ASSUME TriesInv, NEW w \in Workers, NEW success \in BOOLEAN, post(w, success)
  PROVE  /\ MessageTries' = MessageTries
         /\ Cardinality(WorkerTries') = Cardinality(WorkerTries) - 1
<1> USE ConstantsAssumption DEF TriesInv, TypeOK
<1>1. tasks' = tasks
  BY DEF post
<1>2. /\ \A v \in Workers : v # w => NextTry(v)' = NextTry(v)
      /\ NextTry(w) \in 0..MaxRetries /\ NextTry(w)' = NextTry(w) + 1
  BY DEF post, At, NextTry, Task
<1>3. <<w, NextTry(w)>> \in WorkerTries
  BY <1>2 DEF WorkerTries
<1>4. WorkerTries' = WorkerTries \ {<<w, NextTry(w)>>}
  BY <1>2 DEF WorkerTries
<1> QED
  BY <1>1, <1>3, <1>4, WorkerTriesFinite, FS_RemoveElement DEF MessageTries

\* A message that is published, by a retry or again after a crash.
LEMMA TriesPublish ==
  ASSUME TriesInv, NEW n \in 0..MaxRetries, tasks' = [tasks EXCEPT ![n] = @ + 1]
  PROVE  /\ IsFiniteSet(MessageTries')
         /\ Cardinality(MessageTries') = Cardinality(MessageTries) + (MaxRetries + 1 - n)
<1> USE ConstantsAssumption DEF TriesInv, TypeOK
<1>1. tasks[n] \in Nat
  OBVIOUS
<1>s. MessageSlice(n, tasks[n] + 1) =
        {t \in (0..MaxRetries) \X Nat \X (0..MaxRetries) :
           t[1] = n /\ t[2] = tasks[n] + 1 /\ t[3] >= n}
  BY <1>1, MessageSliceOf
<1>p. \A m \in 0..MaxRetries :
        /\ tasks[m] \in Nat
        /\ tasks'[m] = IF m = n THEN tasks[n] + 1 ELSE tasks[m]
  <2>1. tasks \in [0..MaxRetries -> Nat]
    OBVIOUS
  <2> QED
    BY <2>1
<1>2. MessageTries \cap MessageSlice(n, tasks[n] + 1) = {}
  BY <1>1, <1>s DEF MessageTries
<1>3. MessageTries' = MessageTries \cup MessageSlice(n, tasks[n] + 1)
  <2> DEFINE All == (0..MaxRetries) \X Nat \X (0..MaxRetries)
  <2>1. ASSUME NEW t \in All
        PROVE  t \in MessageTries' <=> t \in MessageTries \/ t \in MessageSlice(n, tasks[n] + 1)
    <3>1. t[1] \in 0..MaxRetries /\ t[2] \in Nat
      OBVIOUS
    <3>2. /\ t \in MessageTries <=> t[2] >= 1 /\ t[2] <= tasks[t[1]] /\ t[3] >= t[1]
          /\ t \in MessageTries' <=> t[2] >= 1 /\ t[2] <= tasks'[t[1]] /\ t[3] >= t[1]
      BY DEF MessageTries
    <3>3. t \in MessageSlice(n, tasks[n] + 1) <=> t[1] = n /\ t[2] = tasks[n] + 1 /\ t[3] >= n
      BY <1>s
    <3> QED
      BY ONLY <1>1, <1>p, <3>1, <3>2, <3>3
  <2>2. /\ MessageTries \subseteq All /\ MessageTries' \subseteq All
        /\ MessageSlice(n, tasks[n] + 1) \subseteq All
    BY <1>s DEF MessageTries
  <2> HIDE DEF All
  <2> QED
    BY <2>1, <2>2
<1>4. /\ IsFiniteSet(MessageSlice(n, tasks[n] + 1))
      /\ Cardinality(MessageSlice(n, tasks[n] + 1)) = MaxRetries + 1 - n
  BY <1>1, MessageSliceSize
<1> QED
  BY <1>2, <1>3, <1>4, PutIn

\* A retry hands its worker's attempts to the message it publishes.
LEMMA TriesRetry ==
  ASSUME TriesInv, NEW w \in Workers, retry(w)
  PROVE  /\ IsFiniteSet(MessageTries')
         /\ Cardinality(MessageTries') + Cardinality(WorkerTries')
              = Cardinality(MessageTries) + Cardinality(WorkerTries)
<1> USE ConstantsAssumption DEF TriesInv, TypeOK
<1> DEFINE n == task[w].retries + 1
<1>1. n \in 0..MaxRetries /\ tasks' = [tasks EXCEPT ![n] = @ + 1]
  BY DEF retry, Retries, Task
<1>2. /\ \A v \in Workers : v # w => NextTry(v)' = NextTry(v)
      /\ NextTry(w) = n /\ NextTry(w)' = MaxRetries + 1
  BY DEF retry, At, NextTry, Task
<1> HIDE DEF n
<1>3. WorkerSlice(w, n) \subseteq WorkerTries
  BY <1>1, <1>2 DEF WorkerTries, WorkerSlice
<1>4. WorkerTries' = WorkerTries \ WorkerSlice(w, n)
  BY <1>1, <1>2 DEF WorkerTries, WorkerSlice
<1>5. Cardinality(WorkerTries') = Cardinality(WorkerTries) - (MaxRetries + 1 - n)
  <2>1. Cardinality(WorkerSlice(w, n)) = MaxRetries + 1 - n
    BY <1>1, WorkerSliceSize
  <2> QED
    BY <1>3, <1>4, <2>1, WorkerTriesFinite, TakeOut
<1>6. /\ IsFiniteSet(MessageTries')
      /\ Cardinality(MessageTries') = Cardinality(MessageTries) + (MaxRetries + 1 - n)
  BY <1>1, TriesPublish
<1>7. Cardinality(MessageTries) \in Nat /\ Cardinality(WorkerTries) \in Nat
  BY WorkerTriesFinite, FS_CardinalityType
<1> QED
  BY <1>1, <1>5, <1>6, <1>7

\* A task that is put down takes its attempts out of the count.
LEMMA TriesPutDown ==
  ASSUME TriesInv, NEW w \in Workers, task' = [task EXCEPT ![w] = Idle(w)]
  PROVE  Cardinality(WorkerTries') <= Cardinality(WorkerTries)
<1> USE ConstantsAssumption DEF TriesInv, TypeOK
<1>1. /\ \A v \in Workers \ {w} : task'[v] = task[v]
      /\ task'[w].pc = "idle"
  BY DEF Idle, Task
<1>2. /\ \A v \in Workers \ {w} : NextTry(v)' = NextTry(v)
      /\ NextTry(w)' = MaxRetries + 1
  BY <1>1 DEF NextTry
<1>3. ASSUME NEW t \in WorkerTries' PROVE t \in WorkerTries
  <2>1. t \in Workers \X (0..MaxRetries) /\ t[2] >= NextTry(t[1])'
    BY <1>3 DEF WorkerTries
  <2>2. t[1] \in Workers /\ t[2] \in 0..MaxRetries
    BY <2>1
  <2>3. t[1] # w
    BY <1>2, <2>1, <2>2
  <2> QED
    BY <1>2, <2>1, <2>2, <2>3 DEF WorkerTries
<1> QED
  BY <1>3, WorkerTriesFinite, FS_Subset

LEMMA TriesStep == TriesInv /\ [Next]_vars => TriesInv'
<1> SUFFICES ASSUME TriesInv, [Next]_vars
             PROVE  /\ IsFiniteSet(MessageTries')
                    /\ Len(posts') + Cardinality(MessageTries') + Cardinality(WorkerTries')
                         <= Limit(crashes')
  BY TypeStep DEF TriesInv
<1> DEFINE Tries == Len(posts) + Cardinality(MessageTries) + Cardinality(WorkerTries)
<1>t. TypeOK /\ TypeOK' /\ IsFiniteSet(MessageTries) /\ Tries <= Limit(crashes)
  BY TypeStep DEF TriesInv
<1>f. /\ Cardinality(MessageTries) \in Nat /\ Cardinality(WorkerTries) \in Nat
      /\ Cardinality(WorkerTries') \in Nat
      /\ Len(posts) \in Nat /\ MaxRetries \in Nat /\ crashes \in Nat
  BY <1>t, WorkerTriesFinite, FS_CardinalityType, ConstantsAssumption DEF TypeOK
<1>l. Limit(crashes) \in Nat /\ Limit(crashes + 1) = Limit(crashes) + (MaxRetries + 1)
  BY <1>f DEF Limit
<1> DEFINE Goal == IsFiniteSet(MessageTries') /\ Tries' <= Limit(crashes')
<1> SUFFICES Goal
  OBVIOUS
<1>1. ASSUME UNCHANGED <<tasks, task, posts, crashes>> PROVE Goal
  <2>1. MessageTries' = MessageTries /\ WorkerTries' = WorkerTries
    BY <1>1 DEF MessageTries, WorkerTries, NextTry
  <2> QED
    BY <1>t, <1>1, <2>1
<1>2. ASSUME NEW w \in Workers, NEW n \in 0..MaxRetries, start(w, n) PROVE Goal
  <2>1. /\ IsFiniteSet(MessageTries')
        /\ Cardinality(MessageTries') = Cardinality(MessageTries) - (MaxRetries + 1 - n)
        /\ Cardinality(WorkerTries') = Cardinality(WorkerTries) + (MaxRetries + 1 - n)
    BY <1>2, TriesStart
  <2>2. posts' = posts /\ crashes' = crashes
    BY <1>2 DEF start
  <2>3. Tries' = Tries
    BY <1>f, <2>1, <2>2
  <2> QED
    BY <1>t, <2>1, <2>2, <2>3
<1>3. ASSUME NEW w \in Workers, NEW success \in BOOLEAN, post(w, success) PROVE Goal
  <2>1. Len(posts') = Len(posts) + 1 /\ crashes' = crashes
    BY <1>3, <1>t DEF post, TypeOK
  <2>2. /\ MessageTries' = MessageTries
        /\ Cardinality(WorkerTries') = Cardinality(WorkerTries) - 1
    BY <1>3, TriesPost
  <2>3. Tries' = Tries
    BY <1>f, <2>1, <2>2
  <2> QED
    BY <1>t, <2>1, <2>2, <2>3
<1>4. ASSUME NEW w \in Workers, record(w) PROVE Goal
  <2>1. \A v \in Workers : NextTry(v)' = NextTry(v)
    BY <1>4, <1>t DEF record, At, NextTry, TypeOK, Task
  <2>2. MessageTries' = MessageTries /\ WorkerTries' = WorkerTries
    BY <1>4, <2>1 DEF record, MessageTries, WorkerTries
  <2> QED
    BY <1>4, <1>t, <2>2 DEF record
<1>5. ASSUME NEW w \in Workers, retry(w) PROVE Goal
  <2>1. /\ IsFiniteSet(MessageTries')
        /\ Cardinality(MessageTries') + Cardinality(WorkerTries')
             = Cardinality(MessageTries) + Cardinality(WorkerTries)
    BY <1>5, TriesRetry
  <2>2. posts' = posts /\ crashes' = crashes /\ Cardinality(MessageTries') \in Nat
    BY <1>5, <2>1, FS_CardinalityType DEF retry
  <2>3. Tries' = Tries
    BY <1>f, <2>1, <2>2
  <2> QED
    BY <1>t, <2>1, <2>2, <2>3
<1>6. ASSUME NEW w \in Workers, ack(w) \/ abandon(w) PROVE Goal
  <2>1. task' = [task EXCEPT ![w] = Idle(w)] /\ UNCHANGED <<tasks, posts, crashes>>
    BY <1>6 DEF ack, abandon
  <2>2. Cardinality(WorkerTries') <= Cardinality(WorkerTries) /\ MessageTries' = MessageTries
    BY <2>1, TriesPutDown DEF MessageTries
  <2>3. Tries' <= Tries
    BY <1>f, <2>1, <2>2
  <2>4. Tries \in Nat /\ Tries' \in Nat
    BY <1>f, <2>1, <2>2
  <2> QED
    BY <1>t, <1>l, <2>1, <2>2, <2>3, <2>4
<1>7. ASSUME NEW w \in Workers, crash(w) PROVE Goal
  <2>1. /\ task' = [task EXCEPT ![w] = Idle(w)] /\ posts' = posts
        /\ crashes' = crashes + 1
        /\ tasks' = [tasks EXCEPT ![task[w].retries] = @ + 1]
    BY <1>7 DEF crash
  <2>2. task[w].retries \in 0..MaxRetries
    BY <1>t DEF TypeOK, Task
  <2>3. /\ IsFiniteSet(MessageTries')
        /\ Cardinality(MessageTries')
             = Cardinality(MessageTries) + (MaxRetries + 1 - task[w].retries)
    BY <2>1, <2>2, TriesPublish
  <2>4. Cardinality(WorkerTries') <= Cardinality(WorkerTries)
    BY <2>1, TriesPutDown
  <2>5. Tries' <= Tries + (MaxRetries + 1) /\ Tries \in Nat /\ Tries' \in Nat
    <3>1. Cardinality(MessageTries') \in Nat
      BY <2>3, FS_CardinalityType
    <3>2. Cardinality(MessageTries') <= Cardinality(MessageTries) + (MaxRetries + 1)
      BY <1>f, <2>2, <2>3
    <3>3. Len(posts') = Len(posts)
      BY <2>1
    <3> QED
      BY <1>f, <2>4, <3>1, <3>2, <3>3
  <2>6. Limit(crashes') = Limit(crashes) + (MaxRetries + 1)
    BY <1>l, <2>1
  <2> HIDE DEF Tries
  <2> QED
    BY <1>f, <1>t, <1>l, <2>3, <2>5, <2>6
<1> QED
  BY <1>1, <1>2, <1>3, <1>4, <1>5, <1>6, <1>7
     DEF Next, WorkerStep, vars, upsert_config

\* A receiver gets at most MaxRetries + 1 POSTs of a delivery, and as many
\* again for each worker that dies: for any number of workers and retries.
THEOREM PostsCorrect == Spec => []PostsBounded
<1>1. TriesInv => PostsBounded
  <2> SUFFICES ASSUME TriesInv PROVE PostsBounded
    OBVIOUS
  <2>1. /\ Cardinality(MessageTries) \in Nat /\ Cardinality(WorkerTries) \in Nat
        /\ Len(posts) \in Nat /\ MaxRetries \in Nat /\ crashes \in Nat
    BY WorkerTriesFinite, FS_CardinalityType, ConstantsAssumption DEF TriesInv, TypeOK
  <2>2. Limit(crashes) \in Nat
    BY <2>1 DEF Limit
  <2>3. Len(posts) <= Limit(crashes)
    BY <2>1, <2>2 DEF TriesInv
  <2> QED
    BY <2>3 DEF PostsBounded, Limit
<1> QED
  BY <1>1, TriesInit, TriesStep, PTL DEF Spec

=============================================================================
