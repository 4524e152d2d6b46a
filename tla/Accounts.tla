------------------------------ MODULE Accounts ------------------------------
(***************************************************************************)
(* Organizations, users and tokens: the handlers of api/v1/{auth,users}.py *)
(* on services/auth_service.py and services/user_service.py, behind the    *)
(* dependencies get_current_user and require_role.                         *)
(*                                                                         *)
(* A handler checks with one query and inserts with a later one, and other *)
(* handlers commit in between; what the check cannot see the unique        *)
(* constraints of the tables refuse.  An insert and its commit are one     *)
(* step: PostgreSQL makes an insert of a taken key wait for the            *)
(* transaction that holds it, so that the commits order such inserts.      *)
(*                                                                         *)
(* Organizations and users are named by the request that created them.     *)
(* Nothing in the program changes a role or deactivates a user, but every  *)
(* handler provides for it: administer stands for whoever does.            *)
(***************************************************************************)
EXTENDS Naturals, FiniteSets

CONSTANTS
  Requests,     \* HTTP requests, each served once
  Names,        \* names of organizations
  Emails,       \* spellings of email addresses
  lower,        \* str.lower: the spelling without capitals
  Passwords,
  None,         \* SQL NULL, no token, no user
  MaxInFlight,  \* bound: requests being handled at the same time
  MaxFailures,  \* bound: handlers that die
  MaxChanges    \* bound: changes of a role or of is_active

Role == {"admin", "operator", "viewer"}

ASSUME ConstantsAssumption ==
  /\ lower \in [Emails -> Emails]
  /\ \A e \in Emails : lower[lower[e]] = lower[e]
  /\ None \notin Requests \cup Names \cup Emails \cup Passwords \cup Role
  /\ MaxInFlight \in Nat \ {0}
  /\ MaxFailures \in Nat
  /\ MaxChanges \in Nat

VARIABLES
  organizations,  \* the committed name of each organization
  users,          \* the committed row of each user
  audit_logs,     \* committed login_success and login_failed rows
  tokens,         \* tokens that were issued and have not expired
  session,        \* what each request handler is doing, or how it ended
  failures, changes

vars == <<organizations, users, audit_logs, tokens, session, failures, changes>>

-----------------------------------------------------------------------------
(* Data *)

\* bcrypt: only verify_password can tell which password a hash is of.
hash_password(password) == [hash_of |-> password]
verify_password(plain, hashed) == hashed.hash_of = plain

User ==
  [organization : Requests, email : Emails, hashed_password : [hash_of : Passwords],
   role : Role, is_active : BOOLEAN]

ASSUME NullAssumption == None \notin User

\* The claims of a token; sub is the user, and only access tokens carry role.
Token ==
  [type : {"access"}, sub : Requests, role : Role]
    \cup [type : {"refresh"}, sub : Requests, role : {None}]

AuditLog ==
  [event : {"login_success", "login_failed"}, request : Requests,
   actor : Requests \cup {None}, organization : Requests \cup {None}]

\* actor is the user the handler works for and seen that user's row as it
\* was loaded; the other fields are the request body and the answer.
Session ==
  [pc : {"idle", "checked", "committed", "authenticated", "audited", "rejected",
         "authorized", "done"},
   op : {"none", "register", "login", "refresh", "create_user"},
   name : Names \cup {None}, email : Emails \cup {None},
   password : Passwords \cup {None}, role : Role \cup {None},
   actor : Requests \cup {None}, seen : User \cup {None},
   answer : {"none", "ok", "unauthorized", "forbidden", "conflict", "error", "lost"}]

Fresh ==
  [pc |-> "idle", op |-> "none", name |-> None, email |-> None,
   password |-> None, role |-> None, actor |-> None, seen |-> None,
   answer |-> "none"]

At(r, label) == session[r].pc = label
InFlight == {r \in Requests : session[r].pc \notin {"idle", "done"}}

Refused(op, answer) == [Fresh EXCEPT !.pc = "done", !.op = op, !.answer = answer]
Answered(r) == [session[r] EXCEPT !.pc = "done", !.answer = "ok"]

\* FAULT: both tokens are created from the same claims.
token_pair_same(u, row) ==
  {[type |-> t, sub |-> u, role |-> row.role] : t \in {"access", "refresh"}}

\* What every successful answer carries, for the row as it was loaded.
token_pair(u, row) ==
  {[type |-> "access", sub |-> u, role |-> row.role],
   [type |-> "refresh", sub |-> u, role |-> None]}

UserIds == {u \in Requests : users[u] # None}
OrganizationIds == {o \in Requests : organizations[o] # None}

\* The unique constraint of organizations.name, and the query before it.
NameTaken(name) == \E o \in OrganizationIds : organizations[o] = name

\* The unique constraint uq_user_org_email: it compares what is stored.
EmailStored(organization, email) ==
  \E u \in UserIds : users[u].organization = organization /\ users[u].email = email

\* FAULT: the address is compared as it was typed.
Holders_exact(email) == {u \in UserIds : users[u].email = email}

\* The queries compare without regard to case.
Holders(email) == {u \in UserIds : lower[users[u].email] = lower[email]}

-----------------------------------------------------------------------------
(* POST /auth/register *)

Start(r) == At(r, "idle") /\ Cardinality(InFlight) < MaxInFlight

register(r, name, email, password) ==
  /\ Start(r)
  /\ session' = [session EXCEPT ![r] =
       IF NameTaken(name) THEN Refused("register", "conflict")
       ELSE [Fresh EXCEPT !.pc = "checked", !.op = "register", !.name = name,
                          !.email = email, !.password = password]]
  /\ UNCHANGED <<organizations, users, audit_logs, tokens, failures, changes>>

\* FAULT: the address is stored as it was typed.
NewUser_as_typed(r, organization, role) ==
  [organization |-> organization, email |-> session[r].email,
   hashed_password |-> hash_password(session[r].password),
   role |-> role, is_active |-> TRUE]

NewUser(r, organization, role) ==
  [organization |-> organization, email |-> lower[session[r].email],
   hashed_password |-> hash_password(session[r].password),
   role |-> role, is_active |-> TRUE]

\* FAULT: the organization is committed, not flushed, before the user.
register_commit_twice(r) ==
  /\ At(r, "checked") /\ session[r].op = "register"
  /\ IF organizations[r] = None
     THEN /\ ~NameTaken(session[r].name)
          /\ organizations' = [organizations EXCEPT ![r] = session[r].name]
          /\ UNCHANGED <<users, session>>
     ELSE /\ users' = [users EXCEPT ![r] = NewUser(r, r, "admin")]
          /\ session' = [session EXCEPT ![r] = [@ EXCEPT !.pc = "committed", !.actor = r]]
          /\ UNCHANGED organizations
  /\ UNCHANGED <<audit_logs, tokens, failures, changes>>

\* Organization and first user are flushed and committed together; a name
\* that was taken since the check is an error nobody handles.
register_commit(r) ==
  /\ At(r, "checked") /\ session[r].op = "register"
  /\ IF NameTaken(session[r].name)
     THEN /\ session' = [session EXCEPT ![r] = Refused("register", "error")]
          /\ UNCHANGED <<organizations, users>>
     ELSE /\ organizations' = [organizations EXCEPT ![r] = session[r].name]
          /\ users' = [users EXCEPT ![r] = NewUser(r, r, "admin")]
          /\ session' = [session EXCEPT ![r] = [@ EXCEPT !.pc = "committed", !.actor = r]]
  /\ UNCHANGED <<audit_logs, tokens, failures, changes>>

\* The row is refreshed, and the answer carries a token pair for it.
register_answer(r) ==
  /\ At(r, "committed")
  /\ tokens' = tokens \cup token_pair(r, users[r])
  /\ session' = [session EXCEPT ![r] = Answered(r)]
  /\ UNCHANGED <<organizations, users, audit_logs, failures, changes>>

-----------------------------------------------------------------------------
(* POST /auth/login *)

\* FAULT: the password is not verified.
authenticate_any(r, email, password) ==
  /\ Start(r)
  /\ \E u \in IF Holders(email) = {} THEN {None} ELSE Holders(email) :
       session' = [session EXCEPT ![r] =
         IF u # None /\ users[u].is_active
         THEN [Fresh EXCEPT !.pc = "authenticated", !.op = "login", !.email = email,
                            !.password = password, !.actor = u, !.seen = users[u]]
         ELSE [Fresh EXCEPT !.pc = "rejected", !.op = "login", !.email = email,
                            !.password = password]]
  /\ UNCHANGED <<organizations, users, audit_logs, tokens, failures, changes>>

\* The query has no order: of several users with the email it may take any.
authenticate(r, email, password) ==
  /\ Start(r)
  /\ \E u \in IF Holders(email) = {} THEN {None} ELSE Holders(email) :
       session' = [session EXCEPT ![r] =
         IF u # None /\ users[u].is_active
              /\ verify_password(password, users[u].hashed_password)
         THEN [Fresh EXCEPT !.pc = "authenticated", !.op = "login", !.email = email,
                            !.password = password, !.actor = u, !.seen = users[u]]
         ELSE [Fresh EXCEPT !.pc = "rejected", !.op = "login", !.email = email,
                            !.password = password]]
  /\ UNCHANGED <<organizations, users, audit_logs, tokens, failures, changes>>

\* The attempt is audited and committed before it is answered, with tokens
\* made from the row as it was loaded.
login_success(r) ==
  /\ At(r, "authenticated")
  /\ audit_logs' = audit_logs \cup
       {[event |-> "login_success", request |-> r, actor |-> session[r].actor,
         organization |-> session[r].seen.organization]}
  /\ session' = [session EXCEPT ![r].pc = "audited"]
  /\ UNCHANGED <<organizations, users, tokens, failures, changes>>

login_answer(r) ==
  /\ At(r, "audited")
  /\ tokens' = tokens \cup token_pair(session[r].actor, session[r].seen)
  /\ session' = [session EXCEPT ![r] = Answered(r)]
  /\ UNCHANGED <<organizations, users, audit_logs, failures, changes>>

\* FAULT: commit=True is forgotten, and closing the session rolls back.
login_failed_uncommitted(r) ==
  /\ At(r, "rejected")
  /\ session' = [session EXCEPT ![r] = Refused("login", "unauthorized")]
  /\ UNCHANGED <<organizations, users, audit_logs, tokens, failures, changes>>

login_failed(r) ==
  /\ At(r, "rejected")
  /\ audit_logs' = audit_logs \cup
       {[event |-> "login_failed", request |-> r, actor |-> None, organization |-> None]}
  /\ session' = [session EXCEPT ![r] = Refused("login", "unauthorized")]
  /\ UNCHANGED <<organizations, users, tokens, failures, changes>>

-----------------------------------------------------------------------------
(* POST /auth/refresh and POST /users *)

\* A request may come without a token, or with one that does not decode.
Presented == tokens \cup {None}

\* FAULT: is_active is not looked at.
Accepted_inactive(token, type) ==
  /\ token # None
  /\ token.type = type
  /\ users[token.sub] # None

\* decode_token and the user's row: a live token of the expected type names
\* a user that exists and is active.
Accepted(token, type) ==
  /\ token # None
  /\ token.type = type
  /\ users[token.sub] # None
  /\ users[token.sub].is_active

refresh(r, token) ==
  /\ Start(r)
  /\ IF Accepted(token, "refresh")
     THEN /\ tokens' = tokens \cup token_pair(token.sub, users[token.sub])
          /\ session' = [session EXCEPT ![r] =
               [Fresh EXCEPT !.pc = "done", !.op = "refresh", !.actor = token.sub,
                             !.seen = users[token.sub], !.answer = "ok"]]
     ELSE /\ session' = [session EXCEPT ![r] = Refused("refresh", "unauthorized")]
          /\ UNCHANGED tokens
  /\ UNCHANGED <<organizations, users, audit_logs, failures, changes>>

\* FAULT: the role is the one the token was issued with.
require_admin_claim(r, token, email, password, role) ==
  /\ Start(r)
  /\ session' = [session EXCEPT ![r] =
       IF ~Accepted(token, "access") THEN Refused("create_user", "unauthorized")
       ELSE IF token.role # "admin" THEN Refused("create_user", "forbidden")
       ELSE [Fresh EXCEPT !.pc = "authorized", !.op = "create_user", !.email = email,
                          !.password = password, !.role = role,
                          !.actor = token.sub, !.seen = users[token.sub]]]
  /\ UNCHANGED <<organizations, users, audit_logs, tokens, failures, changes>>

\* get_current_user and require_role(admin): the role is the row's, whatever
\* the token says.
require_admin(r, token, email, password, role) ==
  /\ Start(r)
  /\ session' = [session EXCEPT ![r] =
       IF ~Accepted(token, "access") THEN Refused("create_user", "unauthorized")
       ELSE IF users[token.sub].role # "admin" THEN Refused("create_user", "forbidden")
       ELSE [Fresh EXCEPT !.pc = "authorized", !.op = "create_user", !.email = email,
                          !.password = password, !.role = role,
                          !.actor = token.sub, !.seen = users[token.sub]]]
  /\ UNCHANGED <<organizations, users, audit_logs, tokens, failures, changes>>

create_user(r) ==
  /\ At(r, "authorized")
  /\ session' = [session EXCEPT ![r] =
       IF \E u \in Holders(session[r].email) :
            users[u].organization = session[r].seen.organization
       THEN Refused("create_user", "conflict")
       ELSE [session[r] EXCEPT !.pc = "checked"]]
  /\ UNCHANGED <<organizations, users, audit_logs, tokens, failures, changes>>

create_commit(r) ==
  /\ At(r, "checked") /\ session[r].op = "create_user"
  /\ LET organization == session[r].seen.organization
     IN IF EmailStored(organization, lower[session[r].email])
        THEN /\ session' = [session EXCEPT ![r] = Refused("create_user", "error")]
             /\ UNCHANGED users
        ELSE /\ users' = [users EXCEPT ![r] = NewUser(r, organization, session[r].role)]
             /\ session' = [session EXCEPT ![r] = Answered(r)]
  /\ UNCHANGED <<organizations, audit_logs, tokens, failures, changes>>

-----------------------------------------------------------------------------
(* The environment *)

\* The process dies: what was committed stays, and there is no answer.
abort_request(r) ==
  /\ r \in InFlight
  /\ failures < MaxFailures
  /\ failures' = failures + 1
  /\ session' = [session EXCEPT ![r] = Refused(session[r].op, "lost")]
  /\ UNCHANGED <<organizations, users, audit_logs, tokens, changes>>

\* exp passes: access tokens after 30 minutes, refresh tokens after 7 days.
expire(token) ==
  /\ tokens' = tokens \ {token}
  /\ UNCHANGED <<organizations, users, audit_logs, session, failures, changes>>

\* A role or is_active is changed in the database.
administer(u, role, is_active) ==
  /\ users[u] # None
  /\ changes < MaxChanges
  /\ changes' = changes + 1
  /\ users[u].role # role \/ users[u].is_active # is_active
  /\ users' = [users EXCEPT ![u].role = role, ![u].is_active = is_active]
  /\ UNCHANGED <<organizations, audit_logs, tokens, session, failures>>

-----------------------------------------------------------------------------
Init ==
  /\ organizations = [o \in Requests |-> None]
  /\ users = [u \in Requests |-> None]
  /\ audit_logs = {} /\ tokens = {}
  /\ session = [r \in Requests |-> Fresh]
  /\ failures = 0 /\ changes = 0

Next ==
  \/ \E r \in Requests :
       \/ \E email \in Emails, password \in Passwords :
            \/ \E name \in Names : register(r, name, email, password)
            \/ authenticate(r, email, password)
            \/ \E token \in Presented, role \in Role :
                 require_admin(r, token, email, password, role)
       \/ \E token \in Presented : refresh(r, token)
       \/ register_commit(r) \/ register_answer(r)
       \/ login_success(r) \/ login_answer(r) \/ login_failed(r)
       \/ create_user(r) \/ create_commit(r)
       \/ abort_request(r)
  \/ \E token \in tokens : expire(token)
  \/ \E u \in Requests, role \in Role, is_active \in BOOLEAN :
       administer(u, role, is_active)

Spec == Init /\ [][Next]_vars

-----------------------------------------------------------------------------
(* Properties *)

TypeOK ==
  /\ organizations \in [Requests -> Names \cup {None}]
  /\ users \in [Requests -> User \cup {None}]
  /\ audit_logs \subseteq AuditLog
  /\ tokens \subseteq Token
  /\ session \in [Requests -> Session]
  /\ failures \in 0..MaxFailures
  /\ changes \in 0..MaxChanges

\* However handlers overlap, names of organizations are unique, and so are
\* the emails of an organization's users, also if only their case differs
\* (data-model.md, Organization and User).
AccountsUnique ==
  /\ \A o, p \in OrganizationIds : organizations[o] = organizations[p] => o = p
  /\ \A u, v \in UserIds :
       /\ users[u].organization = users[v].organization
       /\ lower[users[u].email] = lower[users[v].email]
       => u = v

\* An organization and the user who registered it exist together, whatever
\* stops: no name is taken without anybody who could use it.
RegistrationAtomic ==
  /\ \A o \in OrganizationIds : o \in UserIds /\ users[o].organization = o
  /\ \A u \in UserIds : users[u].organization \in OrganizationIds

\* Every user but an organization's first was created for that organization
\* by one of its users, who was an active admin when the handler looked.
CreatedByAdmins ==
  \A u \in UserIds : users[u].organization # u =>
    /\ session[u].op = "create_user"
    /\ session[u].actor \in UserIds
    /\ users[session[u].actor].organization = users[u].organization
    /\ session[u].seen.role = "admin" /\ session[u].seen.is_active

\* A user who was deactivated gets no more tokens, neither by log-in nor by
\* refresh, but for the handlers that had loaded the row before.
DeactivationHolds ==
  [][\A t \in tokens' \ tokens :
       \/ users[t.sub].is_active
       \/ \E r \in InFlight : session[r].actor = t.sub]_vars

\* Whoever holds the email and gives its password logs in, in whatever
\* spelling, unless the email is also somebody's in another organization.
CredentialsAccepted ==
  [][\A r \in Requests : At(r, "idle") /\ session'[r].pc = "rejected" =>
       \A u \in UserIds :
         /\ lower[users[u].email] = lower[session'[r].email]
         /\ users[u].is_active
         /\ verify_password(session'[r].password, users[u].hashed_password)
         => \E v \in UserIds \ {u} : users[v].email = users[u].email]_vars

\* Whoever holds a token stands in a chain of refreshes that began with the
\* right password for that user, given at log-in or registration.
TokensEarned ==
  \A t \in tokens : \E r \in Requests :
    /\ session[r].answer = "ok" /\ session[r].op \in {"login", "register"}
    /\ session[r].actor = t.sub
    /\ lower[session[r].email] = lower[users[t.sub].email]
    /\ verify_password(session[r].password, users[t.sub].hashed_password)

\* Every log-in that was answered is in the audit trail with its outcome, a
\* successful one under the user and that user's organization (FR-004); no
\* success is recorded for anybody else.
LoginsAudited ==
  /\ \A r \in Requests : session[r].op = "login" /\ session[r].answer \in {"ok", "unauthorized"} =>
       \E a \in audit_logs : a.request = r /\
         a.event = IF session[r].answer = "ok" THEN "login_success" ELSE "login_failed"
  /\ \A a \in audit_logs : a.event = "login_success" =>
       /\ a.actor \in UserIds
       /\ users[a.actor].organization = a.organization
       /\ session[a.request].answer = "ok" => session[a.request].actor = a.actor

-----------------------------------------------------------------------------
(* Refinement *)

Registry == INSTANCE AccountRegistry

\* Although handlers check and insert in different transactions, and may die
\* in between, organizations and users come to be as if each operation were
\* one step that finds its name or address free, in every spelling of it.
RefinesRegistry == Registry!Spec

=============================================================================
