--------------------------- MODULE AccountsProofs ---------------------------
(***************************************************************************)
(* Proofs about Accounts for every number of requests, names, emails and   *)
(* passwords and every bound on what happens at the same time.             *)
(***************************************************************************)
EXTENDS Accounts, TLAPS

-----------------------------------------------------------------------------
(* Types *)

LEMMA InitTypeOK == Init => TypeOK
  <1> SUFFICES ASSUME Init PROVE TypeOK
    OBVIOUS
  <1> USE ConstantsAssumption
  <1>1. Fresh \in Session
    BY DEF Fresh, Session
  <1> QED
    BY <1>1 DEF Init, TypeOK

\* The answers that carry nothing else.
LEMMA RefusedType ==
  ASSUME NEW op \in {"none", "register", "login", "refresh", "create_user"},
         NEW answer \in {"none", "ok", "unauthorized", "forbidden", "conflict",
                         "error", "lost"}
  PROVE  Refused(op, answer) \in Session
  BY DEF Refused, Fresh, Session

LEMMA TokenPairType ==
  ASSUME NEW u \in Requests, NEW row \in User
  PROVE  token_pair(u, row) \subseteq Token
  BY DEF token_pair, Token, User

\* A step of one request changes its own session only.
LEMMA SessionType ==
  ASSUME session \in [Requests -> Session], NEW r \in Requests, NEW v \in Session,
         session' = [session EXCEPT ![r] = v]
  PROVE  session' \in [Requests -> Session]
  OBVIOUS

-----------------------------------------------------------------------------
(* What a handler holds at each stage *)

\* A handler that checks or inserts as an admin.
Admitted(r) == At(r, "authorized") \/ (At(r, "checked") /\ session[r].op = "create_user")

\* The request gave the email and the password of its actor.
Knows(r) ==
  /\ session[r].email \in Emails /\ session[r].password \in Passwords
  /\ lower[users[session[r].actor].email] = lower[session[r].email]
  /\ verify_password(session[r].password, users[session[r].actor].hashed_password)

\* The row the handler loaded, and so the organization it works in.
Loaded(r) ==
  /\ session[r].actor \in UserIds
  /\ session[r].seen \in User
  /\ session[r].seen.organization = users[session[r].actor].organization

SessionHolds(r) ==
  /\ At(r, "checked") =>
       /\ session[r].op \in {"register", "create_user"}
       /\ session[r].email \in Emails /\ session[r].password \in Passwords
       /\ session[r].op = "register" => session[r].name \in Names
  /\ Admitted(r) =>
       /\ session[r].op = "create_user"
       /\ session[r].email \in Emails /\ session[r].password \in Passwords
       /\ session[r].role \in Role
       /\ Loaded(r)
       /\ session[r].seen.role = "admin" /\ session[r].seen.is_active
  /\ At(r, "committed") =>
       session[r].op = "register" /\ session[r].actor = r /\ users[r] # None /\ Knows(r)
  /\ At(r, "authenticated") \/ At(r, "audited") =>
       session[r].op = "login" /\ Loaded(r) /\ Knows(r)
  /\ session[r].answer # "none" => At(r, "done")
  /\ users[r] # None => session[r].pc \in {"committed", "done"}

SessionsHold == \A r \in Requests : SessionHolds(r)

TypeInv == TypeOK /\ SessionsHold

\* Rows are never deleted, and only role and is_active ever change.
Persist(u) ==
  users[u] # None =>
    /\ users'[u] # None
    /\ users'[u].organization = users[u].organization
    /\ users'[u].email = users[u].email
    /\ users'[u].hashed_password = users[u].hashed_password

LEMMA RowsType == ASSUME TypeOK, NEW u \in UserIds PROVE u \in Requests /\ users[u] \in User
  BY DEF TypeOK, UserIds

LEMMA InitTypeInv == Init => TypeInv
  <1> SUFFICES ASSUME Init PROVE TypeInv
    OBVIOUS
  <1>1. SessionsHold
    BY DEF Init, SessionsHold, SessionHolds, At, Admitted, Fresh
  <1> QED
    BY <1>1, InitTypeOK DEF TypeInv

\* A session that a step does not touch still holds what it held.
LEMMA OtherSession ==
  ASSUME TypeOK, NEW r \in Requests, SessionHolds(r), session'[r] = session[r],
         users'[r] = None <=> users[r] = None, \A u \in Requests : Persist(u)
  PROVE  SessionHolds(r)'
  BY DEF TypeOK, SessionHolds, At, Admitted, Knows, Loaded, UserIds, Persist, verify_password

\* So a step of one request is left to show what that request holds then.
LEMMA OwnSession ==
  ASSUME TypeInv, NEW r \in Requests, NEW v \in Session,
         session' = [session EXCEPT ![r] = v],
         \A u \in Requests : Persist(u),
         \A u \in Requests \ {r} : users'[u] = None <=> users[u] = None,
         SessionHolds(r)'
  PROVE  session' \in [Requests -> Session] /\ SessionsHold'
  <1>1. session' \in [Requests -> Session]
    BY DEF TypeInv, TypeOK
  <1>2. ASSUME NEW q \in Requests \ {r} PROVE SessionHolds(q)'
    <2>1. session'[q] = session[q]
      BY DEF TypeInv, TypeOK
    <2>2. TypeOK /\ SessionHolds(q)
      BY DEF TypeInv, SessionsHold
    <2> QED
      BY <2>1, <2>2, OtherSession
  <1> QED
    BY <1>1, <1>2 DEF SessionsHold

LEMMA UsersUnchanged ==
  ASSUME users' = users
  PROVE  /\ \A u \in Requests : Persist(u)
         /\ \A u \in Requests : users'[u] = None <=> users[u] = None
  BY DEF Persist

\* A refused or aborted request holds nothing.
LEMMA RefusedHolds ==
  ASSUME TypeInv, NEW r \in Requests, users' = users,
         NEW op \in {"none", "register", "login", "refresh", "create_user"},
         NEW answer \in {"unauthorized", "forbidden", "conflict", "error", "lost"},
         session' = [session EXCEPT ![r] = Refused(op, answer)]
  PROVE  session' \in [Requests -> Session] /\ SessionsHold'
  <1>1. session'[r] = Refused(op, answer)
    BY DEF TypeInv, TypeOK
  <1>2. session'[r].pc = "done"
    BY <1>1 DEF Refused, Fresh
  <1>3. SessionHolds(r)'
    BY <1>2 DEF SessionHolds, At, Admitted
  <1> QED
    BY <1>3, RefusedType, UsersUnchanged, OwnSession

LEMMA RegisterTypeInv ==
  ASSUME TypeInv, NEW r \in Requests, NEW name \in Names, NEW email \in Emails,
         NEW password \in Passwords, register(r, name, email, password)
  PROVE  TypeInv'
  <1> DEFINE v == [Fresh EXCEPT !.pc = "checked", !.op = "register", !.name = name,
                                !.email = email, !.password = password]
  <1>1. session' \in [Requests -> Session] /\ SessionsHold'
    <2>1. CASE NameTaken(name)
      BY <2>1, RefusedHolds DEF register
    <2>2. CASE ~NameTaken(name)
      <3>1. v \in Session /\ session' = [session EXCEPT ![r] = v]
        BY <2>2, ConstantsAssumption DEF register, Fresh, Session
      <3>2. session'[r] = v /\ users'[r] = None
        BY <3>1 DEF register, TypeInv, TypeOK, SessionsHold, SessionHolds, Start, At
      <3>3. SessionHolds(r)'
        BY <3>2 DEF SessionHolds, At, Admitted, Fresh
      <3> QED
        BY <3>1, <3>3, UsersUnchanged, OwnSession DEF register
    <2> QED
      BY <2>1, <2>2
  <1> QED
    BY <1>1 DEF register, TypeInv, TypeOK

LEMMA NewUserType ==
  ASSUME TypeInv, NEW r \in Requests, NEW organization \in Requests, NEW role \in Role,
         session[r].email \in Emails, session[r].password \in Passwords
  PROVE  NewUser(r, organization, role) \in User
  BY ConstantsAssumption DEF NewUser, User, hash_password

\* A row inserted where there was none.
LEMMA UserInserted ==
  ASSUME TypeInv, NEW r \in Requests, users[r] = None, NEW row \in User,
         users' = [users EXCEPT ![r] = row]
  PROVE  /\ users' \in [Requests -> User \cup {None}]
         /\ users'[r] = row /\ row # None
         /\ \A u \in Requests : Persist(u)
         /\ \A u \in Requests \ {r} : users'[u] = users[u]
  BY NullAssumption DEF TypeInv, TypeOK, Persist

LEMMA RegisterCommitTypeInv ==
  ASSUME TypeInv, NEW r \in Requests, register_commit(r)
  PROVE  TypeInv'
  <1> USE DEF register_commit
  <1>h. SessionHolds(r) /\ TypeOK
    BY DEF TypeInv, SessionsHold
  <1>1. CASE NameTaken(session[r].name)
    <2>1. session' \in [Requests -> Session] /\ SessionsHold'
      BY <1>1, RefusedHolds
    <2> QED
      BY <1>1, <2>1 DEF TypeInv, TypeOK
  <1>2. CASE ~NameTaken(session[r].name)
    <2> DEFINE v == [session[r] EXCEPT !.pc = "committed", !.actor = r]
    <2>1. /\ session[r].name \in Names
          /\ session[r].email \in Emails /\ session[r].password \in Passwords
          /\ users[r] = None /\ session[r].answer = "none"
      BY <1>h DEF SessionHolds, At
    <2>2. NewUser(r, r, "admin") \in User
      BY <2>1, NewUserType DEF Role
    <2>3. users' = [users EXCEPT ![r] = NewUser(r, r, "admin")]
      BY <1>2
    <2>4. /\ users' \in [Requests -> User \cup {None}]
          /\ users'[r] = NewUser(r, r, "admin") /\ users'[r] # None
          /\ \A u \in Requests : Persist(u)
          /\ \A u \in Requests \ {r} : users'[u] = users[u]
      BY <2>1, <2>2, <2>3, UserInserted
    <2>5. v \in Session
      <3>1. session[r] \in Session
        BY <1>h DEF TypeOK
      <3> QED
        BY <3>1 DEF Session
    <2>6. session' = [session EXCEPT ![r] = v]
      BY <1>2, <1>h DEF TypeOK
    <2>7. session'[r] = v
      BY <2>6, <1>h DEF TypeOK
    <2>8. SessionHolds(r)'
      <3>1. /\ session'[r].pc = "committed" /\ session'[r].op = "register"
            /\ session'[r].actor = r /\ session'[r].answer = "none"
            /\ session'[r].email = session[r].email
            /\ session'[r].password = session[r].password
        BY <2>1, <2>7, <1>h DEF TypeOK, Session
      <3> QED
        BY <2>1, <2>4, <3>1, ConstantsAssumption
        DEF SessionHolds, At, Admitted, Knows, NewUser, hash_password, verify_password
    <2>9. session' \in [Requests -> Session] /\ SessionsHold'
      BY <2>4, <2>5, <2>6, <2>8, OwnSession
    <2> QED
      BY <1>2, <1>h, <2>1, <2>4, <2>9 DEF TypeInv, TypeOK
  <1> QED
    BY <1>1, <1>2

LEMMA AnsweredType ==
  ASSUME TypeInv, NEW r \in Requests
  PROVE  /\ Answered(r) \in Session
         /\ Answered(r).pc = "done" /\ Answered(r).answer = "ok"
         /\ Answered(r).op = session[r].op /\ Answered(r).actor = session[r].actor
         /\ Answered(r).seen = session[r].seen /\ Answered(r).email = session[r].email
         /\ Answered(r).password = session[r].password
  <1>1. session[r] \in Session
    BY DEF TypeInv, TypeOK
  <1> DEFINE t == [session[r] EXCEPT !.pc = "done"]
  <1>2. Answered(r) \in Session
    <2>1. t \in Session
      BY <1>1 DEF Session
    <2>2. [t EXCEPT !.answer = "ok"] \in Session
      <3> HIDE DEF t
      <3> QED
        BY <2>1 DEF Session
    <2>3. Answered(r) = [t EXCEPT !.answer = "ok"]
      BY <1>1 DEF Answered, Session
    <2> QED
      BY <2>2, <2>3
  <1>3. Answered(r).pc = "done" /\ Answered(r).answer = "ok"
    BY <1>1 DEF Answered, Session
  <1>4. /\ Answered(r).op = session[r].op /\ Answered(r).actor = session[r].actor
        /\ Answered(r).seen = session[r].seen /\ Answered(r).email = session[r].email
        /\ Answered(r).password = session[r].password
    BY <1>1 DEF Answered, Session
  <1> QED
    BY <1>2, <1>3, <1>4

\* An answer ends the request, whatever it did before.
LEMMA AnsweredHolds ==
  ASSUME TypeInv, NEW r \in Requests, session' = [session EXCEPT ![r] = Answered(r)],
         \A u \in Requests : Persist(u),
         \A u \in Requests \ {r} : users'[u] = None <=> users[u] = None
  PROVE  session' \in [Requests -> Session] /\ SessionsHold'
  <1>1. session'[r] = Answered(r)
    BY DEF TypeInv, TypeOK
  <1>2. SessionHolds(r)'
    BY <1>1, AnsweredType DEF SessionHolds, At, Admitted
  <1> QED
    BY <1>2, AnsweredType, OwnSession

LEMMA RegisterAnswerTypeInv ==
  ASSUME TypeInv, NEW r \in Requests, register_answer(r)
  PROVE  TypeInv'
  <1>h. SessionHolds(r) /\ TypeOK
    BY DEF TypeInv, SessionsHold
  <1>1. session' \in [Requests -> Session] /\ SessionsHold'
    BY AnsweredHolds, UsersUnchanged DEF register_answer
  <1>2. users[r] \in User
    BY <1>h DEF register_answer, SessionHolds, At, TypeOK
  <1>3. token_pair(r, users[r]) \subseteq Token
    BY <1>2, TokenPairType
  <1> QED
    BY <1>h, <1>1, <1>3 DEF register_answer, TypeInv, TypeOK

LEMMA AuthenticateTypeInv ==
  ASSUME TypeInv, NEW r \in Requests, NEW email \in Emails,
         NEW password \in Passwords, authenticate(r, email, password)
  PROVE  TypeInv'
  <1>h. SessionHolds(r) /\ TypeOK
    BY DEF TypeInv, SessionsHold
  <1>n. users[r] = None
    BY <1>h DEF authenticate, Start, SessionHolds, At
  <1>1. PICK u \in IF Holders(email) = {} THEN {None} ELSE Holders(email) :
          session' = [session EXCEPT ![r] =
            IF u # None /\ users[u].is_active
                 /\ verify_password(password, users[u].hashed_password)
            THEN [Fresh EXCEPT !.pc = "authenticated", !.op = "login", !.email = email,
                               !.password = password, !.actor = u, !.seen = users[u]]
            ELSE [Fresh EXCEPT !.pc = "rejected", !.op = "login", !.email = email,
                               !.password = password]]
    BY DEF authenticate
  <1>2. session' \in [Requests -> Session] /\ SessionsHold'
    <2>1. CASE u # None /\ users[u].is_active
                 /\ verify_password(password, users[u].hashed_password)
      <3> DEFINE v == [Fresh EXCEPT !.pc = "authenticated", !.op = "login", !.email = email,
                         !.password = password, !.actor = u, !.seen = users[u]]
      <3>1. u \in UserIds /\ lower[users[u].email] = lower[email]
        BY <2>1 DEF Holders
      <3>2. u \in Requests /\ users[u] \in User
        BY <3>1, <1>h, RowsType
      <3>3. v \in Session
        BY <3>2 DEF Fresh, Session
      <3>4. session' = [session EXCEPT ![r] = v]
        BY <1>1, <2>1
      <3>5. session'[r] = v
        BY <3>4, <1>h DEF TypeOK
      <3>6. SessionHolds(r)'
        <4>1. /\ session'[r].pc = "authenticated" /\ session'[r].op = "login"
              /\ session'[r].email = email /\ session'[r].password = password
              /\ session'[r].actor = u /\ session'[r].seen = users[u]
              /\ session'[r].answer = "none" /\ users' = users
          BY <3>5 DEF Fresh, authenticate
        <4> QED
          BY <1>n, <2>1, <3>1, <3>2, <4>1
          DEF SessionHolds, At, Admitted, Knows, Loaded, UserIds
      <3> QED
        BY <3>3, <3>4, <3>6, UsersUnchanged, OwnSession DEF authenticate
    <2>2. CASE ~ (u # None /\ users[u].is_active
                 /\ verify_password(password, users[u].hashed_password))
      <3> DEFINE v == [Fresh EXCEPT !.pc = "rejected", !.op = "login", !.email = email,
                         !.password = password]
      <3>1. v \in Session
        BY DEF Fresh, Session
      <3>2. session' = [session EXCEPT ![r] = v]
        BY <1>1, <2>2
      <3>3. session'[r] = v
        BY <3>2, <1>h DEF TypeOK
      <3>4. SessionHolds(r)'
        BY <1>n, <3>3 DEF authenticate, SessionHolds, At, Admitted, Fresh
      <3> QED
        BY <3>1, <3>2, <3>4, UsersUnchanged, OwnSession DEF authenticate
    <2> QED
      BY <2>1, <2>2
  <1> QED
    BY <1>h, <1>2 DEF authenticate, TypeInv, TypeOK

LEMMA LoginTypeInv ==
  ASSUME TypeInv, NEW r \in Requests,
         login_success(r) \/ login_answer(r) \/ login_failed(r)
  PROVE  TypeInv'
  <1>h. SessionHolds(r) /\ TypeOK
    BY DEF TypeInv, SessionsHold
  <1>1. CASE login_success(r)
    <2> DEFINE v == [session[r] EXCEPT !.pc = "audited"]
    <2>1. /\ session[r] \in Session /\ At(r, "authenticated")
          /\ session' = [session EXCEPT ![r] = v]
      BY <1>1, <1>h DEF login_success, TypeOK
    <2>2. /\ v \in Session /\ v.pc = "audited"
          /\ v.op = session[r].op /\ v.actor = session[r].actor /\ v.seen = session[r].seen
          /\ v.email = session[r].email /\ v.password = session[r].password
          /\ v.answer = session[r].answer
      BY <2>1 DEF Session
    <2> HIDE DEF v
    <2>3. session'[r] = v /\ users' = users
      BY <1>1, <1>h, <2>1 DEF login_success, TypeOK
    <2>4. SessionHolds(r)'
      BY <1>h, <2>1, <2>2, <2>3
      DEF SessionHolds, At, Admitted, Loaded, Knows, UserIds, verify_password
    <2>5. session' \in [Requests -> Session] /\ SessionsHold'
      BY <2>1, <2>2, <2>3, <2>4, UsersUnchanged, OwnSession
    <2>6. session[r].actor \in Requests /\ session[r].seen \in User
      BY <1>h, <2>1 DEF SessionHolds, At, Loaded, UserIds
    <2>7. session[r].seen.organization \in Requests
      BY <2>6 DEF User
    <2>8. audit_logs' \subseteq AuditLog
      BY <1>1, <1>h, <2>6, <2>7 DEF login_success, AuditLog, TypeOK
    <2> QED
      BY <1>1, <1>h, <2>5, <2>8 DEF login_success, TypeInv, TypeOK
  <1>a. CASE login_answer(r)
    <2>1. session' \in [Requests -> Session] /\ SessionsHold'
      BY <1>a, AnsweredHolds, UsersUnchanged DEF login_answer
    <2>2. session[r].actor \in Requests /\ session[r].seen \in User
      BY <1>a, <1>h DEF login_answer, SessionHolds, At, Loaded, UserIds
    <2>3. token_pair(session[r].actor, session[r].seen) \subseteq Token
      BY <2>2, TokenPairType
    <2> QED
      BY <1>a, <1>h, <2>1, <2>3 DEF login_answer, TypeInv, TypeOK
  <1>2. CASE login_failed(r)
    <2>1. session' \in [Requests -> Session] /\ SessionsHold'
      BY <1>2, RefusedHolds DEF login_failed
    <2>2. audit_logs' \subseteq AuditLog
      BY <1>2, <1>h DEF login_failed, AuditLog, TypeOK
    <2> QED
      BY <1>2, <1>h, <2>1, <2>2 DEF login_failed, TypeInv, TypeOK
  <1> QED
    BY <1>1, <1>a, <1>2

\* An accepted token is one that was issued, for an active user.
LEMMA AcceptedUser ==
  ASSUME TypeInv, NEW token \in Presented, NEW type, Accepted(token, type)
  PROVE  /\ token \in tokens /\ token.sub \in UserIds
         /\ token.sub \in Requests /\ users[token.sub] \in User
         /\ users[token.sub].is_active
  <1>1. token \in tokens /\ token \in Token
    BY DEF Accepted, Presented, TypeInv, TypeOK
  <1>2. token.sub \in Requests
    BY <1>1 DEF Token
  <1> QED
    BY <1>1, <1>2 DEF Accepted, UserIds, TypeInv, TypeOK

LEMMA RefreshTypeInv ==
  ASSUME TypeInv, NEW r \in Requests, NEW token \in Presented, refresh(r, token)
  PROVE  TypeInv'
  <1>h. SessionHolds(r) /\ TypeOK
    BY DEF TypeInv, SessionsHold
  <1>n. users[r] = None /\ users' = users
    BY <1>h DEF refresh, Start, SessionHolds, At
  <1>1. CASE Accepted(token, "refresh")
    <2> DEFINE v == [Fresh EXCEPT !.pc = "done", !.op = "refresh", !.actor = token.sub,
                       !.seen = users[token.sub], !.answer = "ok"]
    <2>1. token.sub \in UserIds /\ token.sub \in Requests /\ users[token.sub] \in User
      BY <1>1, AcceptedUser
    <2>2. v \in Session
      BY <2>1 DEF Fresh, Session
    <2>3. session' = [session EXCEPT ![r] = v]
      BY <1>1 DEF refresh
    <2>4. session'[r].pc = "done"
      BY <2>3, <1>h DEF TypeOK, Fresh
    <2>5. SessionHolds(r)'
      BY <1>n, <2>4 DEF SessionHolds, At, Admitted
    <2>6. session' \in [Requests -> Session] /\ SessionsHold'
      BY <1>n, <2>2, <2>3, <2>5, UsersUnchanged, OwnSession
    <2>7. token_pair(token.sub, users[token.sub]) \subseteq Token
      BY <2>1, TokenPairType
    <2> QED
      BY <1>1, <1>h, <2>6, <2>7 DEF refresh, TypeInv, TypeOK
  <1>2. CASE ~Accepted(token, "refresh")
    <2>1. session' \in [Requests -> Session] /\ SessionsHold'
      BY <1>2, <1>n, RefusedHolds DEF refresh
    <2> QED
      BY <1>2, <1>h, <2>1 DEF refresh, TypeInv, TypeOK
  <1> QED
    BY <1>1, <1>2

LEMMA RequireAdminTypeInv ==
  ASSUME TypeInv, NEW r \in Requests, NEW token \in Presented, NEW email \in Emails,
         NEW password \in Passwords, NEW role \in Role,
         require_admin(r, token, email, password, role)
  PROVE  TypeInv'
  <1>h. SessionHolds(r) /\ TypeOK
    BY DEF TypeInv, SessionsHold
  <1>n. users[r] = None /\ users' = users
    BY <1>h DEF require_admin, Start, SessionHolds, At
  <1>1. session' \in [Requests -> Session] /\ SessionsHold'
    <2>1. CASE Accepted(token, "access") /\ users[token.sub].role = "admin"
      <3> DEFINE v == [Fresh EXCEPT !.pc = "authorized", !.op = "create_user",
                         !.email = email, !.password = password, !.role = role,
                         !.actor = token.sub, !.seen = users[token.sub]]
      <3>1. /\ token.sub \in UserIds /\ token.sub \in Requests
            /\ users[token.sub] \in User /\ users[token.sub].is_active
        BY <2>1, AcceptedUser
      <3>2. v \in Session
        BY <3>1 DEF Fresh, Session
      <3>3. session' = [session EXCEPT ![r] = v]
        BY <2>1 DEF require_admin
      <3>4. session'[r] = v
        BY <3>3, <1>h DEF TypeOK
      <3>5. SessionHolds(r)'
        <4>1. /\ session'[r].pc = "authorized" /\ session'[r].op = "create_user"
              /\ session'[r].email = email /\ session'[r].password = password
              /\ session'[r].role = role /\ session'[r].actor = token.sub
              /\ session'[r].seen = users[token.sub] /\ session'[r].answer = "none"
          BY <3>4 DEF Fresh
        <4> QED
          BY <1>n, <2>1, <3>1, <4>1 DEF SessionHolds, At, Admitted, Loaded, UserIds
      <3> QED
        BY <1>n, <3>2, <3>3, <3>5, UsersUnchanged, OwnSession
    <2>2. CASE ~Accepted(token, "access")
      BY <1>n, <2>2, RefusedHolds DEF require_admin
    <2>3. CASE Accepted(token, "access") /\ users[token.sub].role # "admin"
      BY <1>n, <2>3, RefusedHolds DEF require_admin
    <2> QED
      BY <2>1, <2>2, <2>3
  <1> QED
    BY <1>1, <1>h DEF require_admin, TypeInv, TypeOK

LEMMA CreateUserTypeInv ==
  ASSUME TypeInv, NEW r \in Requests, create_user(r)
  PROVE  TypeInv'
  <1>h. SessionHolds(r) /\ TypeOK
    BY DEF TypeInv, SessionsHold
  <1>n. users[r] = None /\ users' = users
    BY <1>h DEF create_user, SessionHolds, At
  <1> DEFINE taken == \E u \in Holders(session[r].email) :
                         users[u].organization = session[r].seen.organization
  <1>1. session' \in [Requests -> Session] /\ SessionsHold'
    <2>1. CASE taken
      BY <1>n, <2>1, RefusedHolds DEF create_user
    <2>2. CASE ~taken
      <3> DEFINE v == [session[r] EXCEPT !.pc = "checked"]
      <3>1. session[r] \in Session
        BY <1>h DEF TypeOK
      <3>2. v \in Session
        BY <3>1 DEF Session
      <3>3. session' = [session EXCEPT ![r] = v]
        BY <2>2 DEF create_user
      <3>4. session'[r] = v
        BY <3>3, <1>h DEF TypeOK
      <3>5. /\ session'[r].pc = "checked" /\ session'[r].op = session[r].op
            /\ session'[r].email = session[r].email
            /\ session'[r].password = session[r].password
            /\ session'[r].role = session[r].role /\ session'[r].actor = session[r].actor
            /\ session'[r].seen = session[r].seen
            /\ session'[r].answer = session[r].answer
        BY <3>1, <3>4 DEF Session
      <3>6. At(r, "authorized")
        BY DEF create_user
      <3>7. SessionHolds(r)'
        BY <1>h, <1>n, <3>5, <3>6 DEF SessionHolds, At, Admitted, Loaded, UserIds
      <3> QED
        BY <1>n, <3>2, <3>3, <3>7, UsersUnchanged, OwnSession
    <2> QED
      BY <2>1, <2>2
  <1> QED
    BY <1>1, <1>h DEF create_user, TypeInv, TypeOK

LEMMA CreateCommitTypeInv ==
  ASSUME TypeInv, NEW r \in Requests, create_commit(r)
  PROVE  TypeInv'
  <1>h. SessionHolds(r) /\ TypeOK
    BY DEF TypeInv, SessionsHold
  <1> DEFINE organization == session[r].seen.organization
  <1>1. CASE EmailStored(organization, lower[session[r].email])
    <2>1. users' = users
      BY <1>1 DEF create_commit
    <2>2. session' \in [Requests -> Session] /\ SessionsHold'
      BY <1>1, <2>1, RefusedHolds DEF create_commit
    <2> QED
      BY <1>h, <2>1, <2>2 DEF create_commit, TypeInv, TypeOK
  <1>2. CASE ~EmailStored(organization, lower[session[r].email])
    <2>1. /\ session[r].email \in Emails /\ session[r].password \in Passwords
          /\ session[r].role \in Role /\ session[r].seen \in User /\ users[r] = None
      BY <1>h DEF create_commit, SessionHolds, At, Admitted, Loaded
    <2>2. organization \in Requests
      BY <2>1 DEF User
    <2>3. NewUser(r, organization, session[r].role) \in User
      BY <2>1, <2>2, NewUserType
    <2>4. users' = [users EXCEPT ![r] = NewUser(r, organization, session[r].role)]
      BY <1>2 DEF create_commit
    <2>5. /\ users' \in [Requests -> User \cup {None}]
          /\ \A u \in Requests : Persist(u)
          /\ \A u \in Requests \ {r} : users'[u] = users[u]
      BY <2>1, <2>3, <2>4, UserInserted
    <2>6. session' \in [Requests -> Session] /\ SessionsHold'
      BY <1>2, <2>5, AnsweredHolds DEF create_commit
    <2> QED
      BY <1>h, <2>5, <2>6 DEF create_commit, TypeInv, TypeOK
  <1> QED
    BY <1>1, <1>2

LEMMA AdministerRows ==
  ASSUME TypeInv, NEW u \in Requests, NEW role \in Role, NEW is_active \in BOOLEAN,
         administer(u, role, is_active)
  PROVE  /\ users' \in [Requests -> User \cup {None}]
         /\ \A v \in Requests : Persist(v)
         /\ \A v \in Requests : users'[v] = None <=> users[v] = None
  <1> DEFINE row == [users[u] EXCEPT !.role = role, !.is_active = is_active]
  <1>1. users[u] \in User
    BY DEF administer, TypeInv, TypeOK
  <1>2. row \in User
    BY <1>1 DEF User
  <1>3. /\ row.organization = users[u].organization /\ row.email = users[u].email
        /\ row.hashed_password = users[u].hashed_password
    BY <1>1 DEF User
  <1>4. users' = [users EXCEPT ![u] = row]
    BY DEF administer
  <1> HIDE DEF row
  <1> QED
    BY <1>1, <1>2, <1>3, <1>4, NullAssumption DEF TypeInv, TypeOK, Persist

LEMMA EnvironmentTypeInv ==
  ASSUME TypeInv,
         \/ \E r \in Requests : abort_request(r)
         \/ \E token \in tokens : expire(token)
         \/ \E u \in Requests, role \in Role, is_active \in BOOLEAN :
              administer(u, role, is_active)
  PROVE  TypeInv'
  <1> USE ConstantsAssumption
  <1>1. ASSUME NEW r \in Requests, abort_request(r) PROVE TypeInv'
    <2>1. session[r].op \in {"none", "register", "login", "refresh", "create_user"}
      BY DEF TypeInv, TypeOK, Session
    <2>2. session' \in [Requests -> Session] /\ SessionsHold'
      BY <1>1, <2>1, RefusedHolds DEF abort_request
    <2> QED
      BY <1>1, <2>2 DEF abort_request, TypeInv, TypeOK
  <1>2. ASSUME NEW token \in tokens, expire(token) PROVE TypeInv'
    <2>1. SessionsHold'
      BY <1>2, UsersUnchanged, OtherSession DEF expire, TypeInv, SessionsHold
    <2> QED
      BY <1>2, <2>1 DEF expire, TypeInv, TypeOK
  <1>3. ASSUME NEW u \in Requests, NEW role \in Role, NEW is_active \in BOOLEAN,
               administer(u, role, is_active)
        PROVE  TypeInv'
    <2>1. SessionsHold'
      BY <1>3, AdministerRows, OtherSession DEF administer, TypeInv, SessionsHold
    <2>2. users' \in [Requests -> User \cup {None}]
      BY <1>3, AdministerRows
    <2>3. changes < MaxChanges /\ changes' = changes + 1
      BY <1>3 DEF administer
    <2>4. changes' \in 0..MaxChanges
      BY <2>3 DEF TypeInv, TypeOK
    <2>5. UNCHANGED <<organizations, audit_logs, tokens, session, failures>>
      BY <1>3 DEF administer
    <2> QED
      BY <2>1, <2>2, <2>4, <2>5 DEF TypeInv, TypeOK
  <1> QED
    BY <1>1, <1>2, <1>3

LEMMA StepTypeInv == TypeInv /\ [Next]_vars => TypeInv'
  <1> SUFFICES ASSUME TypeInv, [Next]_vars PROVE TypeInv'
    OBVIOUS
  <1>1. CASE UNCHANGED vars
    <2>1. TypeOK'
      BY <1>1 DEF vars, TypeInv, TypeOK
    <2>2. SessionsHold'
      BY <1>1, UsersUnchanged, OtherSession DEF vars, TypeInv, SessionsHold
    <2> QED
      BY <2>1, <2>2 DEF TypeInv
  <1>2. CASE Next
    BY <1>2, RegisterTypeInv, RegisterCommitTypeInv, RegisterAnswerTypeInv,
       AuthenticateTypeInv, LoginTypeInv, RefreshTypeInv, RequireAdminTypeInv,
       CreateUserTypeInv, CreateCommitTypeInv, EnvironmentTypeInv DEF Next
  <1> QED
    BY <1>1, <1>2

\* The types, and what each handler holds at each stage, always.
THEOREM TypeInvariance == Spec => []TypeInv
  BY InitTypeInv, StepTypeInv, PTL DEF Spec

\* Type correctness.
THEOREM TypeCorrect == Spec => []TypeOK
  <1>1. TypeInv => TypeOK
    BY DEF TypeInv
  <1> QED
    BY <1>1, TypeInvariance, PTL

-----------------------------------------------------------------------------
(* What a step does to the rows *)

\* No row appears, and the ones there are keep what identifies them.
SameRows ==
  /\ organizations' = organizations
  /\ \A u \in Requests : users'[u] = None <=> users[u] = None

Registers(r) ==
  /\ At(r, "checked") /\ session[r].op = "register"
  /\ session[r].email \in Emails /\ session[r].password \in Passwords
  /\ session[r].name \in Names /\ ~NameTaken(session[r].name)
  /\ users[r] = None
  /\ NewUser(r, r, "admin") \in User
  /\ organizations' = [organizations EXCEPT ![r] = session[r].name]
  /\ users' = [users EXCEPT ![r] = NewUser(r, r, "admin")]

Creates(r) ==
  /\ Admitted(r) /\ Loaded(r)
  /\ session[r].email \in Emails /\ session[r].password \in Passwords
  /\ session[r].role \in Role
  /\ session[r].seen.role = "admin" /\ session[r].seen.is_active
  /\ ~EmailStored(session[r].seen.organization, lower[session[r].email])
  /\ users[r] = None
  /\ NewUser(r, session[r].seen.organization, session[r].role) \in User
  /\ organizations' = organizations
  /\ users' = [users EXCEPT ![r] = NewUser(r, session[r].seen.organization, session[r].role)]
  /\ session' = [session EXCEPT ![r] = Answered(r)]

\* A step leaves the rows alone, or registers, or creates or changes a user.
LEMMA RowsCases ==
  ASSUME TypeInv, [Next]_vars
  PROVE  \/ UNCHANGED <<users, organizations>>
         \/ \E r \in Requests : Registers(r) \/ Creates(r)
         \/ \E u \in Requests, role \in Role, is_active \in BOOLEAN :
              administer(u, role, is_active)
  <1>1. CASE UNCHANGED vars
    BY <1>1 DEF vars
  <1>3. ASSUME NEW r \in Requests, register_commit(r)
        PROVE  UNCHANGED <<users, organizations>> \/ Registers(r)
    <2>h. SessionHolds(r)
      BY DEF TypeInv, SessionsHold
    <2>1. CASE NameTaken(session[r].name)
      BY <1>3, <2>1 DEF register_commit
    <2>2. CASE ~NameTaken(session[r].name)
      <3>1. /\ session[r].name \in Names /\ users[r] = None
            /\ session[r].email \in Emails /\ session[r].password \in Passwords
        BY <1>3, <2>h DEF register_commit, SessionHolds, At
      <3>2. NewUser(r, r, "admin") \in User
        BY <3>1, NewUserType DEF Role
      <3> QED
        BY <1>3, <2>2, <3>1, <3>2 DEF register_commit, Registers
    <2> QED
      BY <2>1, <2>2
  <1>4. ASSUME NEW r \in Requests, create_commit(r)
        PROVE  UNCHANGED <<users, organizations>> \/ Creates(r)
    <2>h. SessionHolds(r)
      BY DEF TypeInv, SessionsHold
    <2>1. CASE EmailStored(session[r].seen.organization, lower[session[r].email])
      BY <1>4, <2>1 DEF create_commit
    <2>2. CASE ~EmailStored(session[r].seen.organization, lower[session[r].email])
      <3>1. /\ Admitted(r) /\ Loaded(r) /\ users[r] = None
            /\ session[r].email \in Emails /\ session[r].password \in Passwords
            /\ session[r].role \in Role
            /\ session[r].seen.role = "admin" /\ session[r].seen.is_active
        BY <1>4, <2>h DEF create_commit, SessionHolds, Admitted, At
      <3>2. session[r].seen.organization \in Requests
        BY <3>1 DEF Loaded, User
      <3>3. NewUser(r, session[r].seen.organization, session[r].role) \in User
        BY <3>1, <3>2, NewUserType
      <3> QED
        BY <1>4, <2>2, <3>1, <3>3 DEF create_commit, Creates
    <2> QED
      BY <2>1, <2>2
  <1>6. ASSUME NEW r \in Requests,
               \/ \E email \in Emails, password \in Passwords :
                    \/ \E name \in Names : register(r, name, email, password)
                    \/ authenticate(r, email, password)
                    \/ \E token \in Presented, role \in Role :
                         require_admin(r, token, email, password, role)
               \/ \E token \in Presented : refresh(r, token)
               \/ register_answer(r)
               \/ login_success(r) \/ login_answer(r) \/ login_failed(r)
               \/ create_user(r) \/ abort_request(r)
        PROVE  UNCHANGED <<users, organizations>>
    BY <1>6 DEF register, authenticate, require_admin, refresh, register_answer,
       login_success, login_answer, login_failed, create_user, abort_request
  <1>7. ASSUME NEW token \in tokens, expire(token)
        PROVE  UNCHANGED <<users, organizations>>
    BY <1>7 DEF expire
  <1> QED
    BY <1>1, <1>3, <1>4, <1>6, <1>7 DEF Next

\* Rows persist, and only registrations and creations add any.
LEMMA RowsStep ==
  ASSUME TypeInv, [Next]_vars
  PROVE  /\ \A u \in Requests : Persist(u)
         /\ SameRows \/ \E r \in Requests : Registers(r) \/ Creates(r)
  <1>1. CASE UNCHANGED <<users, organizations>>
    BY <1>1 DEF Persist, SameRows
  <1>2. ASSUME NEW r \in Requests, Registers(r) \/ Creates(r)
        PROVE  \A u \in Requests : Persist(u)
    BY <1>2, UserInserted DEF Registers, Creates
  <1>3. ASSUME NEW u \in Requests, NEW role \in Role, NEW is_active \in BOOLEAN,
               administer(u, role, is_active)
        PROVE  SameRows /\ \A v \in Requests : Persist(v)
    BY <1>3, AdministerRows DEF administer, SameRows
  <1> QED
    BY <1>1, <1>2, <1>3, RowsCases

\* A request that was answered stays as it is.
LEMMA DoneStays ==
  ASSUME TypeInv, [Next]_vars, NEW q \in Requests, At(q, "done")
  PROVE  session'[q] = session[q]
  <1>1. CASE UNCHANGED vars
    BY <1>1 DEF vars
  <1>2. ASSUME NEW r \in Requests,
               session' = session \/ \E v : session' = [session EXCEPT ![r] = v],
               ~At(r, "done")
        PROVE  session'[q] = session[q]
    BY <1>2 DEF TypeInv, TypeOK, At
  <1>3. ASSUME NEW r \in Requests,
               \/ \E email \in Emails, password \in Passwords :
                    \/ \E name \in Names : register(r, name, email, password)
                    \/ authenticate(r, email, password)
                    \/ \E token \in Presented, role \in Role :
                         require_admin(r, token, email, password, role)
               \/ \E token \in Presented : refresh(r, token)
        PROVE  session'[q] = session[q]
    <2>1. ~At(r, "done")
      BY <1>3 DEF register, authenticate, require_admin, refresh, Start, At
    <2>2. \E v : session' = [session EXCEPT ![r] = v]
      BY <1>3 DEF register, authenticate, require_admin, refresh
    <2> QED
      BY <1>2, <2>1, <2>2
  <1>4. ASSUME NEW r \in Requests,
               \/ register_commit(r) \/ register_answer(r)
               \/ login_success(r) \/ login_answer(r) \/ login_failed(r)
               \/ create_user(r) \/ create_commit(r) \/ abort_request(r)
        PROVE  session'[q] = session[q]
    <2>1. ~At(r, "done")
      BY <1>4 DEF register_commit, register_answer, login_success, login_answer,
         login_failed, create_user, create_commit, abort_request, InFlight, At
    <2>2. \E v : session' = [session EXCEPT ![r] = v]
      BY <1>4 DEF register_commit, register_answer, login_success, login_answer,
         login_failed, create_user, create_commit, abort_request
    <2> QED
      BY <1>2, <2>1, <2>2
  <1>5. CASE \/ \E token \in tokens : expire(token)
             \/ \E u \in Requests, role \in Role, is_active \in BOOLEAN :
                  administer(u, role, is_active)
    BY <1>5 DEF expire, administer
  <1> QED
    BY <1>1, <1>3, <1>4, <1>5 DEF Next

-----------------------------------------------------------------------------
(* Organizations and users *)

\* What makes the unique constraint, which compares what is stored, agree
\* with the queries, which compare without regard to case.
StoredLower == \A u \in UserIds : users[u].email = lower[users[u].email]

RowsInv == StoredLower /\ AccountsUnique /\ RegistrationAtomic

LEMMA InitRows == Init => RowsInv
  BY DEF Init, RowsInv, StoredLower, AccountsUnique, RegistrationAtomic, UserIds,
     OrganizationIds

\* Where no row appears nothing that RowsInv speaks of changes.
LEMMA SameRowsInv ==
  ASSUME TypeInv, RowsInv, SameRows, \A u \in Requests : Persist(u)
  PROVE  RowsInv'
  <1>1. UserIds' = UserIds /\ OrganizationIds' = OrganizationIds
    BY DEF SameRows, UserIds, OrganizationIds
  <1>2. \A u \in UserIds : /\ users'[u].organization = users[u].organization
                           /\ users'[u].email = users[u].email
    BY DEF UserIds, Persist
  <1> QED
    BY <1>1, <1>2 DEF SameRows, RowsInv, StoredLower, AccountsUnique, RegistrationAtomic

LEMMA RegistersInv ==
  ASSUME TypeInv, RowsInv, NEW r \in Requests, Registers(r)
  PROVE  RowsInv'
  <1> DEFINE row == NewUser(r, r, "admin")
  <1>1. /\ row # None /\ row.organization = r
        /\ row.email = lower[session[r].email] /\ row.email = lower[row.email]
    BY ConstantsAssumption, NullAssumption DEF Registers, NewUser
  <1> HIDE DEF row
  <1>2. /\ users'[r] = row /\ UserIds' = UserIds \cup {r} /\ r \notin UserIds
        /\ \A u \in UserIds : users'[u] = users[u]
    BY <1>1 DEF Registers, row, UserIds, TypeInv, TypeOK
  <1>3. /\ organizations'[r] = session[r].name
        /\ OrganizationIds' = OrganizationIds \cup {r}
        /\ \A o \in OrganizationIds \ {r} : organizations'[o] = organizations[o]
    BY ConstantsAssumption DEF Registers, OrganizationIds, TypeInv, TypeOK
  <1>4. r \notin OrganizationIds
    BY <1>2 DEF RowsInv, RegistrationAtomic
  <1>5. RegistrationAtomic'
    BY <1>1, <1>2, <1>3, <1>4 DEF RowsInv, RegistrationAtomic
  <1>6. StoredLower'
    BY <1>1, <1>2 DEF RowsInv, StoredLower
  <1>7. AccountsUnique'
    <2>1. ASSUME NEW o \in OrganizationIds PROVE organizations[o] # session[r].name
      BY DEF Registers, NameTaken
    <2>2. ASSUME NEW o \in OrganizationIds', NEW p \in OrganizationIds',
                 organizations'[o] = organizations'[p]
          PROVE  o = p
      BY <1>3, <1>4, <2>1, <2>2 DEF RowsInv, AccountsUnique
    <2>3. ASSUME NEW u \in UserIds PROVE users[u].organization # r
      BY <1>4 DEF RowsInv, RegistrationAtomic
    <2>4. ASSUME NEW u \in UserIds', NEW v \in UserIds',
                 users'[u].organization = users'[v].organization,
                 lower[users'[u].email] = lower[users'[v].email]
          PROVE  u = v
      BY <1>1, <1>2, <2>3, <2>4 DEF RowsInv, AccountsUnique
    <2> QED
      BY <2>2, <2>4 DEF AccountsUnique
  <1> QED
    BY <1>5, <1>6, <1>7 DEF RowsInv

LEMMA CreatesInv ==
  ASSUME TypeInv, RowsInv, NEW r \in Requests, Creates(r)
  PROVE  RowsInv'
  <1> DEFINE organization == session[r].seen.organization
             row == NewUser(r, organization, session[r].role)
  <1>1. /\ row # None /\ row.organization = organization
        /\ row.email = lower[session[r].email] /\ row.email = lower[row.email]
    BY ConstantsAssumption, NullAssumption DEF Creates, NewUser
  <1>o. /\ OrganizationIds' = OrganizationIds /\ organizations' = organizations
        /\ organization \in OrganizationIds
    BY DEF Creates, Loaded, OrganizationIds, RowsInv, RegistrationAtomic
  <1>s. ~EmailStored(organization, row.email)
    BY <1>1 DEF Creates
  <1>u. users' = [users EXCEPT ![r] = row] /\ users[r] = None
    BY DEF Creates
  <1> HIDE DEF row, organization
  <1>2. /\ users'[r] = row /\ UserIds' = UserIds \cup {r} /\ r \notin UserIds
        /\ \A u \in UserIds : users'[u] = users[u]
    BY <1>1, <1>u DEF UserIds, TypeInv, TypeOK
  <1>5. RegistrationAtomic'
    BY <1>1, <1>2, <1>o DEF RowsInv, RegistrationAtomic
  <1>6. StoredLower'
    BY <1>1, <1>2 DEF RowsInv, StoredLower
  <1>7. AccountsUnique'
    <2>1. ASSUME NEW u \in UserIds, users[u].organization = organization
          PROVE  lower[users[u].email] # lower[row.email]
      BY <1>1, <1>s, <2>1 DEF EmailStored, RowsInv, StoredLower
    <2>4. ASSUME NEW u \in UserIds', NEW v \in UserIds',
                 users'[u].organization = users'[v].organization,
                 lower[users'[u].email] = lower[users'[v].email]
          PROVE  u = v
      BY <1>1, <1>2, <2>1, <2>4 DEF RowsInv, AccountsUnique
    <2> QED
      BY <1>o, <2>4 DEF RowsInv, AccountsUnique
  <1> QED
    BY <1>5, <1>6, <1>7 DEF RowsInv

LEMMA StepRows == TypeInv /\ RowsInv /\ [Next]_vars => RowsInv'
  BY RowsStep, SameRowsInv, RegistersInv, CreatesInv

LEMMA RowsInvariance == Spec => []RowsInv
  BY InitRows, StepRows, TypeInvariance, PTL DEF Spec

\* Whatever overlaps, names of organizations are unique, and so are the emails
\* of an organization's users in every spelling: the queries alone, which other
\* handlers overtake, and the constraints alone, which compare the spelling,
\* would not ensure it.
THEOREM AccountsStayUnique == Spec => []AccountsUnique
  BY RowsInvariance, PTL DEF RowsInv

\* Whatever dies, no organization is without the user who registered it, and
\* no user without an organization.
THEOREM RegistrationIsAtomic == Spec => []RegistrationAtomic
  BY RowsInvariance, PTL DEF RowsInv

-----------------------------------------------------------------------------
(* The refinement of AccountRegistry *)

LEMMA RegistryInit == Init => Registry!Init
  BY DEF Init, Registry!Init

\* A registration that gets past the constraint finds the name free and the
\* organization empty.
LEMMA RegistersRefines ==
  ASSUME TypeInv, RowsInv, NEW r \in Requests, Registers(r)
  PROVE  Registry!Next
  <1> DEFINE email == session[r].email
             password == session[r].password
             name == session[r].name
  <1>1. email \in Emails /\ password \in Passwords /\ name \in Names
    BY DEF Registers
  <1>2. users[r] = None /\ organizations[r] = None
    BY DEF Registers, RowsInv, RegistrationAtomic, UserIds, OrganizationIds
  <1>3. \A p \in Requests : organizations[p] # name
    BY <1>1, ConstantsAssumption DEF Registers, NameTaken, OrganizationIds
  <1>4. Registry!Members(r) = {}
    BY <1>2 DEF Registry!Members, RowsInv, RegistrationAtomic, UserIds, OrganizationIds
  <1>5. NewUser(r, r, "admin") = Registry!NewUser(r, email, password, "admin")
    BY DEF NewUser, Registry!NewUser, hash_password
  <1>6. Registry!Register(r, name, email, password)
    BY <1>2, <1>3, <1>4, <1>5 DEF Registers, Registry!Register
  <1> QED
    BY <1>1, <1>6 DEF Registry!Next

\* A creation finds its address free in every spelling, because the stored
\* ones have no capitals, and a member there: the admin who asked for it.
LEMMA CreatesRefines ==
  ASSUME TypeInv, RowsInv, NEW r \in Requests, Creates(r)
  PROVE  Registry!Next
  <1> DEFINE email == session[r].email
             password == session[r].password
             organization == session[r].seen.organization
  <1>1. /\ email \in Emails /\ password \in Passwords /\ session[r].role \in Role
        /\ organization \in Requests /\ users[r] = None
    BY DEF Creates, Loaded, User
  <1>2. Registry!Members(organization) # {}
    BY DEF Creates, Loaded, Registry!Members, UserIds
  <1>3. \A v \in Registry!Members(organization) : lower[users[v].email] # lower[email]
    BY DEF Creates, EmailStored, Registry!Members, UserIds, RowsInv, StoredLower
  <1>4. NewUser(r, organization, session[r].role)
          = Registry!NewUser(organization, email, password, session[r].role)
    BY DEF NewUser, Registry!NewUser, hash_password
  <1>5. Registry!AddMember(r, organization, email, password, session[r].role)
    BY <1>1, <1>2, <1>3, <1>4 DEF Creates, Registry!AddMember
  <1> QED
    BY <1>1, <1>5 DEF Registry!Next, Registry!Role, Role

LEMMA RegistryStep ==
  TypeInv /\ RowsInv /\ [Next]_vars => [Registry!Next]_(Registry!vars)
  <1> SUFFICES ASSUME TypeInv, RowsInv, [Next]_vars
               PROVE  Registry!Next \/ UNCHANGED <<organizations, users>>
    BY DEF Registry!vars
  <1>1. ASSUME NEW u \in Requests, NEW role \in Role, NEW is_active \in BOOLEAN,
               administer(u, role, is_active)
        PROVE  Registry!Next
    <2>1. Registry!Administer(u, role, is_active)
      BY <1>1 DEF administer, Registry!Administer
    <2> QED
      BY <2>1 DEF Registry!Next, Registry!Role, Role
  <1> QED
    BY <1>1, RowsCases, RegistersRefines, CreatesRefines

\* Handlers that check and insert in different transactions, overlap and die
\* implement a registry in which every operation is one step.
THEOREM RegistryRefined == Spec => RefinesRegistry
  BY RegistryInit, RegistryStep, TypeInvariance, RowsInvariance, PTL
     DEF Spec, RefinesRegistry, Registry!Spec

\* Users other than the first are created by admins of their organization.
THEOREM AdminsCreate == Spec => []CreatedByAdmins
  <1>1. Init => CreatedByAdmins
    BY DEF Init, CreatedByAdmins, UserIds
  <1>2. TypeInv /\ CreatedByAdmins /\ [Next]_vars => CreatedByAdmins'
    <2> SUFFICES ASSUME TypeInv, CreatedByAdmins, [Next]_vars,
                        NEW u \in UserIds', users'[u].organization # u
                 PROVE  /\ session'[u].op = "create_user"
                        /\ session'[u].actor \in UserIds'
                        /\ users'[session'[u].actor].organization = users'[u].organization
                        /\ session'[u].seen.role = "admin" /\ session'[u].seen.is_active
      BY DEF CreatedByAdmins
    <2>1. \A v \in Requests : Persist(v)
      BY RowsStep
    <2>2. u \in Requests
      BY DEF UserIds
    <2>3. CASE u \in UserIds
      <3>1. users[u].organization # u /\ users'[u].organization = users[u].organization
        BY <2>1, <2>2, <2>3 DEF UserIds, Persist
      <3>2. SessionHolds(u)
        BY <2>2 DEF TypeInv, SessionsHold
      <3>3. At(u, "done")
        BY <2>3, <3>1, <3>2 DEF SessionHolds, UserIds, CreatedByAdmins, At
      <3>4. session'[u] = session[u]
        BY <2>2, <3>3, DoneStays
      <3>5. session[u].actor \in UserIds /\ session[u].actor \in Requests
        BY <2>3, <3>1 DEF CreatedByAdmins, UserIds
      <3>6. /\ session[u].actor \in UserIds'
            /\ users'[session[u].actor].organization = users[session[u].actor].organization
        BY <2>1, <3>5 DEF UserIds, Persist
      <3> QED
        BY <2>3, <3>1, <3>4, <3>6 DEF CreatedByAdmins
    <2>4. CASE u \notin UserIds
      <3>1. PICK r \in Requests : Registers(r) \/ Creates(r)
        BY <2>2, <2>4, RowsStep DEF SameRows, UserIds
      <3>2. u = r
        BY <2>2, <2>4, <3>1 DEF Registers, Creates, UserIds, TypeInv, TypeOK
      <3>3. ~Registers(r)
        <4>1. ASSUME Registers(r) PROVE users'[r].organization = r
          BY <4>1 DEF Registers, NewUser, TypeInv, TypeOK
        <4> QED
          BY <3>2, <4>1
      <3>4. Creates(r)
        BY <3>1, <3>3
      <3>5. /\ session'[u].op = session[u].op /\ session'[u].actor = session[u].actor
            /\ session'[u].seen = session[u].seen
        BY <3>2, <3>4, AnsweredType DEF Creates, TypeInv, TypeOK
      <3>6. /\ session[u].actor \in UserIds /\ session[u].op = "create_user"
            /\ session[u].seen.organization = users[session[u].actor].organization
            /\ session[u].seen.role = "admin" /\ session[u].seen.is_active
        BY <2>2, <3>2, <3>4 DEF Creates, Loaded, TypeInv, SessionsHold, SessionHolds
      <3>7. users'[u].organization = session[u].seen.organization
        BY <3>2, <3>4 DEF Creates, NewUser, TypeInv, TypeOK
      <3>8. /\ session[u].actor \in UserIds'
            /\ users'[session[u].actor].organization = users[session[u].actor].organization
        BY <2>1, <3>6 DEF UserIds, Persist
      <3> QED
        BY <3>5, <3>6, <3>7, <3>8
    <2> QED
      BY <2>3, <2>4
  <1> QED
    BY <1>1, <1>2, TypeInvariance, PTL DEF Spec

-----------------------------------------------------------------------------
(* Tokens and the audit trail *)

\* r is where the chain of refreshes began that leads to a token of u.
Began(r, u) ==
  /\ session[r].answer = "ok" /\ session[r].op \in {"login", "register"}
  /\ session[r].actor = u
  /\ lower[session[r].email] = lower[users[u].email]
  /\ verify_password(session[r].password, users[u].hashed_password)

TokensInv == \A t \in tokens : t.sub \in UserIds /\ \E r \in Requests : Began(r, t.sub)

LEMMA BeganStays ==
  ASSUME TypeInv, [Next]_vars, NEW r \in Requests, NEW u \in UserIds, Began(r, u)
  PROVE  u \in UserIds' /\ Began(r, u)'
  <1>1. At(r, "done")
    BY DEF Began, TypeInv, SessionsHold, SessionHolds
  <1>2. session'[r] = session[r]
    BY <1>1, DoneStays
  <1>3. Persist(u) /\ u \in Requests
    BY RowsStep DEF UserIds
  <1> QED
    BY <1>2, <1>3 DEF Began, Persist, UserIds

\* A step that answers with a token pair for u, and why it may.
Issues(u) ==
  /\ u \in UserIds
  /\ tokens' \subseteq
       tokens \cup [type : {"access", "refresh"}, sub : {u}, role : Role \cup {None}]
  /\ \/ users[u].is_active \/ \E r \in InFlight : session[r].actor = u
  /\ (\E t \in tokens : t.sub = u) \/ \E r \in Requests : Began(r, u)'

LEMMA PairOf ==
  ASSUME NEW u \in Requests, NEW row \in User
  PROVE  token_pair(u, row) \subseteq
           [type : {"access", "refresh"}, sub : {u}, role : Role \cup {None}]
  BY DEF token_pair, User

\* The answer to a registration or a log-in.
LEMMA AnswerIssues ==
  ASSUME TypeInv, NEW r \in Requests, session' = [session EXCEPT ![r] = Answered(r)],
         users' = users, session[r].op \in {"login", "register"},
         r \in InFlight, session[r].actor \in UserIds, Knows(r),
         NEW row \in User, tokens' = tokens \cup token_pair(session[r].actor, row)
  PROVE  Issues(session[r].actor)
  <1>1. session'[r] = Answered(r)
    BY DEF TypeInv, TypeOK
  <1>2. Began(r, session[r].actor)'
    BY <1>1, AnsweredType DEF Began, Knows
  <1>3. session[r].actor \in Requests
    BY DEF UserIds
  <1> QED
    BY <1>2, <1>3, PairOf DEF Issues

LEMMA TokensStep ==
  ASSUME TypeInv, [Next]_vars
  PROVE  tokens' \subseteq tokens \/ \E u \in UserIds : Issues(u)
  <1>1. CASE UNCHANGED vars
    BY <1>1 DEF vars
  <1>2. ASSUME NEW r \in Requests, register_answer(r) PROVE \E u \in UserIds : Issues(u)
    <2>h. SessionHolds(r)
      BY DEF TypeInv, SessionsHold
    <2>1. /\ session[r].op = "register" /\ session[r].actor = r /\ Knows(r)
          /\ users[r] # None /\ r \in UserIds /\ r \in InFlight
      BY <1>2, <2>h DEF register_answer, SessionHolds, At, UserIds, InFlight
    <2>2. users[r] \in User
      BY <2>1 DEF TypeInv, TypeOK
    <2> QED
      BY <1>2, <2>1, <2>2, AnswerIssues DEF register_answer
  <1>3. ASSUME NEW r \in Requests, login_answer(r) PROVE \E u \in UserIds : Issues(u)
    <2>h. SessionHolds(r)
      BY DEF TypeInv, SessionsHold
    <2>1. /\ session[r].op = "login" /\ session[r].actor \in UserIds /\ Knows(r)
          /\ session[r].seen \in User /\ r \in InFlight
      BY <1>3, <2>h DEF login_answer, SessionHolds, At, Loaded, InFlight
    <2> QED
      BY <1>3, <2>1, AnswerIssues DEF login_answer
  <1>4. ASSUME NEW r \in Requests, NEW token \in Presented, refresh(r, token)
        PROVE  tokens' \subseteq tokens \/ \E u \in UserIds : Issues(u)
    <2>1. CASE Accepted(token, "refresh")
      <3>1. /\ token \in tokens /\ token.sub \in UserIds /\ token.sub \in Requests
            /\ users[token.sub] \in User /\ users[token.sub].is_active
        BY <2>1, AcceptedUser
      <3>2. tokens' = tokens \cup token_pair(token.sub, users[token.sub])
        BY <1>4, <2>1 DEF refresh
      <3> QED
        BY <3>1, <3>2, PairOf DEF Issues
    <2>2. CASE ~Accepted(token, "refresh")
      BY <1>4, <2>2 DEF refresh
    <2> QED
      BY <2>1, <2>2
  <1>5. ASSUME NEW r \in Requests,
               \/ \E email \in Emails, password \in Passwords :
                    \/ \E name \in Names : register(r, name, email, password)
                    \/ authenticate(r, email, password)
                    \/ \E token \in Presented, role \in Role :
                         require_admin(r, token, email, password, role)
               \/ register_commit(r) \/ login_success(r) \/ login_failed(r)
               \/ create_user(r) \/ create_commit(r) \/ abort_request(r)
        PROVE  tokens' \subseteq tokens
    BY <1>5 DEF register, authenticate, require_admin, register_commit, login_success,
       login_failed, create_user, create_commit, abort_request
  <1>6. CASE \/ \E token \in tokens : expire(token)
             \/ \E u \in Requests, role \in Role, is_active \in BOOLEAN :
                  administer(u, role, is_active)
    BY <1>6 DEF expire, administer
  <1> QED
    BY <1>1, <1>2, <1>3, <1>4, <1>5, <1>6 DEF Next

\* No token without the right password for its user at the beginning.
THEOREM TokensAreEarned == Spec => []TokensEarned
  <1>1. Init => TokensInv
    BY DEF Init, TokensInv
  <1>2. TypeInv /\ TokensInv /\ [Next]_vars => TokensInv'
    <2> SUFFICES ASSUME TypeInv, TokensInv, [Next]_vars, NEW t \in tokens'
                 PROVE  t.sub \in UserIds' /\ \E r \in Requests : Began(r, t.sub)'
      BY DEF TokensInv
    <2>1. ASSUME NEW o \in tokens
          PROVE  o.sub \in UserIds' /\ \E r \in Requests : Began(r, o.sub)'
      BY BeganStays DEF TokensInv
    <2>2. CASE t \in tokens
      BY <2>1, <2>2
    <2>3. CASE t \notin tokens
      <3>1. PICK u \in UserIds : Issues(u)
        BY <2>3, TokensStep
      <3>2. t.sub = u
        BY <2>3, <3>1 DEF Issues
      <3>3. u \in UserIds'
        BY <3>1, RowsStep DEF UserIds, Persist
      <3>4. (\E o \in tokens : o.sub = u) \/ \E r \in Requests : Began(r, u)'
        BY <3>1 DEF Issues
      <3> QED
        BY <2>1, <3>2, <3>3, <3>4
    <2> QED
      BY <2>2, <2>3
  <1>3. TokensInv => TokensEarned
    BY DEF TokensInv, TokensEarned, Began
  <1> QED
    BY <1>1, <1>2, <1>3, TypeInvariance, PTL DEF Spec

\* Who was deactivated gets no more tokens.
THEOREM DeactivatedStayOut == Spec => DeactivationHolds
  <1>1. TypeInv /\ [Next]_vars =>
          [\A t \in tokens' \ tokens :
             \/ users[t.sub].is_active
             \/ \E r \in InFlight : session[r].actor = t.sub]_vars
    <2> SUFFICES ASSUME TypeInv, [Next]_vars, NEW t \in tokens' \ tokens
                 PROVE  \/ users[t.sub].is_active
                        \/ \E r \in InFlight : session[r].actor = t.sub
      OBVIOUS
    <2>1. PICK u \in UserIds : Issues(u)
      BY TokensStep
    <2>2. t.sub = u
      BY <2>1 DEF Issues
    <2> QED
      BY <2>1, <2>2 DEF Issues
  <1> QED
    BY <1>1, TypeInvariance, PTL DEF Spec, DeactivationHolds

\* A log-in whose entry must be there: it is answered, or about to be.
Attempted(r) ==
  \/ At(r, "audited")
  \/ session[r].op = "login" /\ session[r].answer \in {"ok", "unauthorized"}

Recorded(r) ==
  \E a \in audit_logs : a.request = r /\
    a.event = IF session[r].answer = "unauthorized" THEN "login_failed" ELSE "login_success"

\* What the entry of a log-in says about who logged in.
Truthful(a) ==
  a.event = "login_success" =>
    /\ a.actor \in UserIds
    /\ users[a.actor].organization = a.organization
    /\ At(a.request, "audited") \/ session[a.request].answer = "ok" =>
         session[a.request].actor = a.actor

\* Entries are written for requests that end with them.
AuditInv ==
  /\ \A r \in Requests : Attempted(r) => Recorded(r)
  /\ \A a \in audit_logs :
       /\ a.request \in Requests
       /\ At(a.request, "audited") \/ At(a.request, "done")
       /\ Truthful(a)

\* A log-in whose entry is written is answered or dies.
LEMMA AuditedMoves ==
  ASSUME TypeInv, [Next]_vars, NEW q \in Requests, At(q, "audited")
  PROVE  session'[q] = session[q] \/ login_answer(q) \/ abort_request(q)
  <1>1. CASE UNCHANGED vars
    BY <1>1 DEF vars
  <1>2. ASSUME NEW r \in Requests, \E v : session' = [session EXCEPT ![r] = v],
               ~At(r, "audited")
        PROVE  session'[q] = session[q]
    BY <1>2 DEF TypeInv, TypeOK, At
  <1>3. ASSUME NEW r \in Requests,
               \/ \E email \in Emails, password \in Passwords :
                    \/ \E name \in Names : register(r, name, email, password)
                    \/ authenticate(r, email, password)
                    \/ \E token \in Presented, role \in Role :
                         require_admin(r, token, email, password, role)
               \/ \E token \in Presented : refresh(r, token)
        PROVE  session'[q] = session[q]
    <2>1. ~At(r, "audited")
      BY <1>3 DEF register, authenticate, require_admin, refresh, Start, At
    <2>2. \E v : session' = [session EXCEPT ![r] = v]
      BY <1>3 DEF register, authenticate, require_admin, refresh
    <2> QED
      BY <1>2, <2>1, <2>2
  <1>4. ASSUME NEW r \in Requests,
               \/ register_commit(r) \/ register_answer(r)
               \/ login_success(r) \/ login_failed(r)
               \/ create_user(r) \/ create_commit(r)
        PROVE  session'[q] = session[q]
    <2>1. ~At(r, "audited")
      BY <1>4 DEF register_commit, register_answer, login_success, login_failed,
         create_user, create_commit, At
    <2>2. \E v : session' = [session EXCEPT ![r] = v]
      BY <1>4 DEF register_commit, register_answer, login_failed, create_user, create_commit,
         login_success
    <2> QED
      BY <1>2, <2>1, <2>2
  <1>5. ASSUME NEW r \in Requests, login_answer(r) \/ abort_request(r)
        PROVE  r = q \/ session'[q] = session[q]
    BY <1>5 DEF login_answer, abort_request, TypeInv, TypeOK
  <1>6. CASE \/ \E token \in tokens : expire(token)
             \/ \E u \in Requests, role \in Role, is_active \in BOOLEAN :
                  administer(u, role, is_active)
    BY <1>6 DEF expire, administer
  <1> QED
    BY <1>1, <1>3, <1>4, <1>5, <1>6 DEF Next

\* No other step answers a log-in, and no other writes such entries.
LEMMA AuditStep ==
  ASSUME TypeInv, [Next]_vars
  PROVE  \/ /\ audit_logs' = audit_logs
            /\ \A q \in Requests : Attempted(q)' => session'[q] = session[q]
         \/ \E r \in Requests : login_success(r) \/ login_answer(r) \/ login_failed(r)
  <1> DEFINE Quiet == /\ audit_logs' = audit_logs
                      /\ \A q \in Requests : Attempted(q)' => session'[q] = session[q]
  <1>1. CASE UNCHANGED vars
    BY <1>1 DEF vars
  <1>2. ASSUME NEW r \in Requests, NEW v, session' = [session EXCEPT ![r] = v],
               v.op # "login" \/ v.answer \notin {"ok", "unauthorized"}, v.pc # "audited",
               audit_logs' = audit_logs
        PROVE  Quiet
    BY <1>2 DEF Attempted, At, TypeInv, TypeOK
  <1> HIDE DEF Quiet
  <1>r. ASSUME NEW op, NEW answer
        PROVE  /\ Refused(op, answer).op = op /\ Refused(op, answer).answer = answer
               /\ Refused(op, answer).pc = "done"
    BY DEF Refused, Fresh
  <1>q. ASSUME NEW r \in Requests, \E v : session' = [session EXCEPT ![r] = v],
               session'[r].op # "login" \/ session'[r].answer \notin {"ok", "unauthorized"},
               session'[r].pc # "audited",
               audit_logs' = audit_logs
        PROVE  Quiet
    BY <1>q DEF Quiet, Attempted, At, TypeInv, TypeOK
  <1>3. ASSUME NEW r \in Requests, NEW name \in Names, NEW email \in Emails,
               NEW password \in Passwords, register(r, name, email, password)
        PROVE  Quiet
    <2>1. session'[r].op = "register" /\ session'[r].pc # "audited"
      BY <1>3, <1>r DEF register, Fresh, TypeInv, TypeOK
    <2> QED
      BY <1>q, <1>3, <2>1 DEF register
  <1>4. ASSUME NEW r \in Requests, register_commit(r) PROVE Quiet
    <2>1. CASE NameTaken(session[r].name)
      BY <1>2, <1>4, <1>r, <2>1 DEF register_commit
    <2>2. CASE ~NameTaken(session[r].name)
      <3> DEFINE v == [session[r] EXCEPT !.pc = "committed", !.actor = r]
      <3>1. session[r].op = "register" /\ session[r] \in Session
        BY <1>4 DEF register_commit, TypeInv, TypeOK
      <3>2. v.op = "register" /\ v.pc = "committed"
        BY <3>1 DEF Session
      <3>3. session' = [session EXCEPT ![r] = v] /\ audit_logs' = audit_logs
        BY <1>4, <2>2 DEF register_commit
      <3> HIDE DEF v
      <3> QED
        BY <1>2, <3>2, <3>3
    <2> QED
      BY <2>1, <2>2
  <1>5. ASSUME NEW r \in Requests, register_answer(r) PROVE Quiet
    <2>1. Answered(r).op = "register" /\ Answered(r).pc = "done"
      BY <1>5, AnsweredType DEF register_answer, TypeInv, SessionsHold, SessionHolds
    <2> QED
      BY <1>2, <1>5, <2>1 DEF register_answer
  <1>6. ASSUME NEW r \in Requests, NEW email \in Emails, NEW password \in Passwords,
               authenticate(r, email, password)
        PROVE  Quiet
    <2>1. session'[r].answer = "none" /\ session'[r].pc # "audited"
      BY <1>6 DEF authenticate, Fresh, TypeInv, TypeOK
    <2> QED
      BY <1>q, <1>6, <2>1 DEF authenticate
  <1>7. ASSUME NEW r \in Requests, NEW token \in Presented, refresh(r, token) PROVE Quiet
    <2>1. session'[r].op = "refresh" /\ session'[r].pc = "done"
      <3>1. CASE Accepted(token, "refresh")
        <4>1. session' = [session EXCEPT ![r] =
                [Fresh EXCEPT !.pc = "done", !.op = "refresh", !.actor = token.sub,
                              !.seen = users[token.sub], !.answer = "ok"]]
          BY <1>7, <3>1 DEF refresh
        <4> QED
          BY <4>1 DEF Fresh, TypeInv, TypeOK
      <3>2. CASE ~Accepted(token, "refresh")
        BY <1>7, <1>r, <3>2 DEF refresh, TypeInv, TypeOK
      <3> QED
        BY <3>1, <3>2
    <2> QED
      BY <1>q, <1>7, <2>1 DEF refresh
  <1>8. ASSUME NEW r \in Requests, NEW token \in Presented, NEW email \in Emails,
               NEW password \in Passwords, NEW role \in Role,
               require_admin(r, token, email, password, role)
        PROVE  Quiet
    <2>1. session'[r].op = "create_user" /\ session'[r].pc # "audited"
      BY <1>8, <1>r DEF require_admin, Fresh, TypeInv, TypeOK
    <2> QED
      BY <1>q, <1>8, <2>1 DEF require_admin
  <1>9. ASSUME NEW r \in Requests, create_user(r) \/ create_commit(r) PROVE Quiet
    <2>1. session[r].op = "create_user" /\ session[r] \in Session
      BY <1>9 DEF create_user, create_commit, TypeInv, TypeOK, SessionsHold, SessionHolds,
         Admitted
    <2>2. session'[r].op = "create_user" /\ session'[r].pc # "audited"
      <3>1. /\ [session[r] EXCEPT !.pc = "checked"].op = "create_user"
            /\ [session[r] EXCEPT !.pc = "checked"].pc = "checked"
        BY <2>1 DEF Session
      <3>2. Answered(r).op = "create_user" /\ Answered(r).pc = "done"
        BY <2>1, AnsweredType
      <3>3. CASE create_user(r)
        BY <1>r, <3>1, <3>3 DEF create_user, TypeInv, TypeOK
      <3>4. CASE create_commit(r)
        BY <1>r, <3>2, <3>4 DEF create_commit, TypeInv, TypeOK
      <3> QED
        BY <1>9, <3>3, <3>4
    <2> QED
      BY <1>q, <1>9, <2>2 DEF create_user, create_commit
  <1>10. ASSUME NEW r \in Requests, abort_request(r) PROVE Quiet
    <2>1. session'[r].answer = "lost" /\ session'[r].pc = "done"
      BY <1>10, <1>r DEF abort_request, TypeInv, TypeOK
    <2> QED
      BY <1>q, <1>10, <2>1 DEF abort_request
  <1>11. CASE \/ \E token \in tokens : expire(token)
              \/ \E u \in Requests, role \in Role, is_active \in BOOLEAN :
                   administer(u, role, is_active)
    BY <1>11 DEF expire, administer, Quiet
  <1> QED
    BY <1>1, <1>3, <1>4, <1>5, <1>6, <1>7, <1>8, <1>9, <1>10, <1>11 DEF Next, Quiet

LEMMA EntryStays ==
  ASSUME TypeInv, AuditInv, [Next]_vars, NEW a \in audit_logs
  PROVE  /\ a.request \in Requests
         /\ At(a.request, "audited")' \/ At(a.request, "done")'
         /\ Truthful(a)'
  <1> DEFINE q == a.request
  <1>1. q \in Requests /\ (At(q, "audited") \/ At(q, "done")) /\ Truthful(a)
    BY DEF AuditInv
  <1>2. \/ session'[q] = session[q]
        \/ /\ At(q, "audited") /\ session'[q].pc = "done"
           /\ session'[q].actor = session[q].actor \/ session'[q].answer = "lost"
    <2>1. CASE session'[q] = session[q]
      BY <2>1
    <2>2. CASE At(q, "audited") /\ login_answer(q)
      <3>1. session[q] \in Session /\ session' = [session EXCEPT ![q] = Answered(q)]
        BY <1>1, <2>2 DEF login_answer, TypeInv, TypeOK
      <3> QED
        BY <1>1, <2>2, <3>1, AnsweredType DEF TypeInv, TypeOK
    <2>3. CASE At(q, "audited") /\ abort_request(q)
      BY <1>1, <2>3 DEF abort_request, Refused, Fresh, TypeInv, TypeOK
    <2> QED
      BY <1>1, <2>1, <2>2, <2>3, AuditedMoves, DoneStays
  <1>3. a.event = "login_success" => a.actor \in Requests /\ Persist(a.actor)
    BY <1>1, RowsStep DEF Truthful, UserIds
  <1> QED
    BY <1>1, <1>2, <1>3 DEF Truthful, At, UserIds, Persist

\* The entry with which a log-in ends is true of it.
LEMMA LoginEntry ==
  ASSUME TypeInv, NEW r \in Requests, login_success(r) \/ login_failed(r)
  PROVE  \E e \in audit_logs' :
           /\ audit_logs' = audit_logs \cup {e}
           /\ e.request = r /\ (At(r, "audited")' \/ At(r, "done")') /\ Truthful(e)'
           /\ e.event = IF session'[r].answer = "unauthorized"
                        THEN "login_failed" ELSE "login_success"
           /\ \A q \in Requests \ {r} : session'[q] = session[q]
  <1>1. CASE login_success(r)
    <2>e. PICK e : e = [event |-> "login_success", request |-> r,
                        actor |-> session[r].actor,
                        organization |-> session[r].seen.organization]
      OBVIOUS
    <2>1. /\ Loaded(r) /\ users' = users
          /\ session[r] \in Session /\ session[r].answer = "none"
      BY <1>1 DEF login_success, TypeInv, TypeOK, SessionsHold, SessionHolds, At
    <2>2. /\ session' = [session EXCEPT ![r] = [session[r] EXCEPT !.pc = "audited"]]
          /\ audit_logs' = audit_logs \cup {e}
      BY <1>1, <2>e DEF login_success, TypeInv, TypeOK
    <2>3. /\ session'[r] = [session[r] EXCEPT !.pc = "audited"]
          /\ \A q \in Requests \ {r} : session'[q] = session[q]
      BY <2>2 DEF TypeInv, TypeOK
    <2>4. /\ session'[r].pc = "audited" /\ session'[r].answer = "none"
          /\ session'[r].actor = session[r].actor
      BY <2>1, <2>3 DEF Session
    <2>5. Truthful(e)'
      BY <2>1, <2>4, <2>e DEF Truthful, Loaded, UserIds
    <2>6. e \in audit_logs' /\ e.request = r /\ e.event = "login_success"
      BY <2>2, <2>e
    <2> QED
      BY <2>2, <2>3, <2>4, <2>5, <2>6 DEF At
  <1>2. CASE login_failed(r)
    <2> DEFINE e == [event |-> "login_failed", request |-> r, actor |-> None,
                     organization |-> None]
    <2>1. /\ session' = [session EXCEPT ![r] = Refused("login", "unauthorized")]
          /\ audit_logs' = audit_logs \cup {e}
      BY <1>2 DEF login_failed
    <2>2. /\ session'[r].pc = "done" /\ session'[r].answer = "unauthorized"
          /\ \A q \in Requests \ {r} : session'[q] = session[q]
      BY <2>1 DEF TypeInv, TypeOK, Refused, Fresh
    <2>3. e \in audit_logs' /\ e.request = r /\ e.event = "login_failed"
      BY <2>1
    <2>4. Truthful(e)'
      BY <2>3 DEF Truthful
    <2> HIDE DEF e
    <2> QED
      BY <2>1, <2>2, <2>3, <2>4 DEF At
  <1> QED
    BY <1>1, <1>2

LEMMA StepAudit == TypeInv /\ AuditInv /\ [Next]_vars => AuditInv'
  <1> SUFFICES ASSUME TypeInv, AuditInv, [Next]_vars PROVE AuditInv'
    OBVIOUS
  <1>0. ASSUME NEW q \in Requests, Attempted(q), audit_logs \subseteq audit_logs',
               session'[q] = session[q]
        PROVE  Recorded(q)'
    BY <1>0 DEF AuditInv, Recorded
  <1>e. \A a \in audit_logs :
          /\ a.request \in Requests
          /\ At(a.request, "audited")' \/ At(a.request, "done")'
          /\ Truthful(a)'
    BY EntryStays
  <1>1. CASE /\ audit_logs' = audit_logs
             /\ \A q \in Requests : Attempted(q)' => session'[q] = session[q]
    <2>1. \A q \in Requests : Attempted(q)' => Recorded(q)'
      BY <1>0, <1>1 DEF Attempted, At
    <2> QED
      BY <1>1, <1>e, <2>1 DEF AuditInv
  <1>2. ASSUME NEW r \in Requests, login_success(r) \/ login_failed(r) PROVE AuditInv'
    <2>1. PICK e \in audit_logs' :
            /\ audit_logs' = audit_logs \cup {e}
            /\ e.request = r /\ (At(r, "audited")' \/ At(r, "done")') /\ Truthful(e)'
            /\ e.event = IF session'[r].answer = "unauthorized"
                         THEN "login_failed" ELSE "login_success"
            /\ \A q \in Requests \ {r} : session'[q] = session[q]
      BY <1>2, LoginEntry
    <2>2. \A q \in Requests : Attempted(q)' => Recorded(q)'
      <3>1. ASSUME NEW q \in Requests \ {r}, Attempted(q)' PROVE Recorded(q)'
        BY <1>0, <2>1, <3>1 DEF Attempted, At
      <3>2. Recorded(r)'
        BY <2>1 DEF Recorded
      <3> QED
        BY <3>1, <3>2
    <2>3. \A a \in audit_logs' :
            /\ a.request \in Requests
            /\ At(a.request, "audited")' \/ At(a.request, "done")'
            /\ Truthful(a)'
      BY <1>e, <2>1
    <2> QED
      BY <2>2, <2>3 DEF AuditInv
  <1>3. ASSUME NEW r \in Requests, login_answer(r) PROVE AuditInv'
    <2>1. /\ session[r] \in Session /\ At(r, "audited")
          /\ session' = [session EXCEPT ![r] = Answered(r)] /\ audit_logs' = audit_logs
      BY <1>3 DEF login_answer, TypeInv, TypeOK
    <2>2. session'[r].answer = "ok" /\ \A q \in Requests \ {r} : session'[q] = session[q]
      BY <2>1, AnsweredType DEF TypeInv, TypeOK
    <2>3. session[r].answer = "none"
      BY <2>1 DEF TypeInv, SessionsHold, SessionHolds, At
    <2>4. Recorded(r)'
      BY <2>1, <2>2, <2>3 DEF AuditInv, Attempted, Recorded
    <2>5. ASSUME NEW q \in Requests \ {r}, Attempted(q)' PROVE Recorded(q)'
      BY <1>0, <2>1, <2>2, <2>5 DEF Attempted, At
    <2> QED
      BY <1>e, <2>1, <2>4, <2>5 DEF AuditInv
  <1> QED
    BY <1>1, <1>2, <1>3, AuditStep

\* Every answered log-in is in the audit trail, under the right user.
THEOREM EveryLoginAudited == Spec => []LoginsAudited
  <1>1. Init => AuditInv
    BY DEF Init, AuditInv, Attempted, At, Fresh
  <1>2. AuditInv => LoginsAudited
    BY DEF AuditInv, LoginsAudited, Attempted, Recorded, Truthful
  <1> QED
    BY <1>1, <1>2, StepAudit, TypeInvariance, PTL DEF Spec

-----------------------------------------------------------------------------
(* Who gives the right password is let in *)

\* Only the check of a log-in rejects.
LEMMA RejectedStep ==
  ASSUME TypeInv, Next, NEW r \in Requests, At(r, "idle"), session'[r].pc = "rejected"
  PROVE  \E email \in Emails, password \in Passwords : authenticate(r, email, password)
  <1>2. ASSUME NEW q \in Requests, \E v : session' = [session EXCEPT ![q] = v],
               session'[q].pc # "rejected" \/ ~At(q, "idle")
        PROVE  FALSE
    BY <1>2 DEF TypeInv, TypeOK, At
  <1>3. session' # session
    BY DEF At
  <1>4. ASSUME NEW q \in Requests, NEW email \in Emails, NEW password \in Passwords,
               authenticate(q, email, password)
        PROVE  q = r
    BY <1>2, <1>4 DEF authenticate, TypeInv, TypeOK, At
  <1>5. ASSUME NEW q \in Requests, NEW name \in Names, NEW email \in Emails,
               NEW password \in Passwords, register(q, name, email, password)
        PROVE  FALSE
    <2>1. session'[q].pc # "rejected"
      BY <1>5 DEF register, Refused, Fresh, TypeInv, TypeOK
    <2> QED
      BY <1>2, <1>5, <2>1 DEF register
  <1>6. ASSUME NEW q \in Requests, NEW token \in Presented, refresh(q, token) PROVE FALSE
    <2>1. session'[q].pc # "rejected"
      <3>1. CASE Accepted(token, "refresh")
        <4>1. session' = [session EXCEPT ![q] =
                [Fresh EXCEPT !.pc = "done", !.op = "refresh", !.actor = token.sub,
                              !.seen = users[token.sub], !.answer = "ok"]]
          BY <1>6, <3>1 DEF refresh
        <4> QED
          BY <4>1 DEF Fresh, TypeInv, TypeOK
      <3>2. CASE ~Accepted(token, "refresh")
        BY <1>6, <3>2 DEF refresh, Refused, Fresh, TypeInv, TypeOK
      <3> QED
        BY <3>1, <3>2
    <2> QED
      BY <1>2, <1>6, <2>1 DEF refresh
  <1>7. ASSUME NEW q \in Requests, NEW token \in Presented, NEW email \in Emails,
               NEW password \in Passwords, NEW role \in Role,
               require_admin(q, token, email, password, role)
        PROVE  FALSE
    <2>1. session'[q].pc # "rejected"
      BY <1>7 DEF require_admin, Refused, Fresh, TypeInv, TypeOK
    <2> QED
      BY <1>2, <1>7, <2>1 DEF require_admin
  <1>8. ASSUME NEW q \in Requests,
               \/ register_commit(q) \/ register_answer(q)
               \/ login_success(q) \/ login_answer(q) \/ login_failed(q)
               \/ create_user(q) \/ create_commit(q) \/ abort_request(q)
        PROVE  FALSE
    <2>1. ~At(q, "idle")
      BY <1>8 DEF register_commit, register_answer, login_success, login_answer,
         login_failed, create_user, create_commit, abort_request, InFlight, At
    <2>2. \E v : session' = [session EXCEPT ![q] = v]
      BY <1>8 DEF register_commit, register_answer, login_success, login_answer,
         login_failed, create_user, create_commit, abort_request
    <2> QED
      BY <1>2, <2>1, <2>2
  <1>9. CASE \/ \E token \in tokens : expire(token)
             \/ \E u \in Requests, role \in Role, is_active \in BOOLEAN :
                  administer(u, role, is_active)
    BY <1>3, <1>9 DEF expire, administer
  <1> QED
    BY <1>4, <1>5, <1>6, <1>7, <1>8, <1>9 DEF Next

\* A log-in with an email and its password is rejected only where another
\* account has that email, too: addresses are stored in lower case, so the
\* query finds nobody else under any spelling.
THEOREM RightPasswordAccepted == Spec => CredentialsAccepted
  <1>1. TypeInv /\ RowsInv /\ [Next]_vars =>
          [\A r \in Requests : At(r, "idle") /\ session'[r].pc = "rejected" =>
             \A u \in UserIds :
               /\ lower[users[u].email] = lower[session'[r].email]
               /\ users[u].is_active
               /\ verify_password(session'[r].password, users[u].hashed_password)
               => \E v \in UserIds \ {u} : users[v].email = users[u].email]_vars
    <2> SUFFICES ASSUME TypeInv, RowsInv, Next,
                        NEW r \in Requests, At(r, "idle"), session'[r].pc = "rejected",
                        NEW u \in UserIds,
                        lower[users[u].email] = lower[session'[r].email],
                        users[u].is_active,
                        verify_password(session'[r].password, users[u].hashed_password)
                 PROVE  \E v \in UserIds \ {u} : users[v].email = users[u].email
      OBVIOUS
    <2>1. PICK email \in Emails, password \in Passwords : authenticate(r, email, password)
      BY RejectedStep
    <2>2. PICK v \in IF Holders(email) = {} THEN {None} ELSE Holders(email) :
            session' = [session EXCEPT ![r] =
              IF v # None /\ users[v].is_active
                   /\ verify_password(password, users[v].hashed_password)
              THEN [Fresh EXCEPT !.pc = "authenticated", !.op = "login", !.email = email,
                                 !.password = password, !.actor = v, !.seen = users[v]]
              ELSE [Fresh EXCEPT !.pc = "rejected", !.op = "login", !.email = email,
                                 !.password = password]]
      BY <2>1 DEF authenticate
    <2>3. /\ session'[r].email = email /\ session'[r].password = password
          /\ ~(/\ v # None /\ users[v].is_active
               /\ verify_password(password, users[v].hashed_password))
      BY <2>2 DEF Fresh, TypeInv, TypeOK
    <2>4. u \in Holders(email) /\ u # None
      BY <2>3, ConstantsAssumption DEF Holders, UserIds
    <2>5. v \in Holders(email) /\ v # u
      BY <2>2, <2>3, <2>4
    <2>6. v \in UserIds /\ lower[users[v].email] = lower[users[u].email]
      BY <2>4, <2>5 DEF Holders
    <2>7. users[v].email = users[u].email
      BY <2>6 DEF RowsInv, StoredLower
    <2> QED
      BY <2>5, <2>6, <2>7
  <1> QED
    BY <1>1, InitRows, StepRows, TypeInvariance, PTL DEF Spec, CredentialsAccepted

=============================================================================
