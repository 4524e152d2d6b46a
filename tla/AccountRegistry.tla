--------------------------- MODULE AccountRegistry ---------------------------
(***************************************************************************)
(* What clients may rely on of organizations and users: each is created in *)
(* one step that finds its key free, and rows never go away.  There are no *)
(* sessions here, no checks that can be outdated, and no order of inserts. *)
(***************************************************************************)
CONSTANTS Requests, Names, Emails, lower, Passwords, None

VARIABLES organizations, users

vars == <<organizations, users>>

Role == {"admin", "operator", "viewer"}
NewUser(organization, email, password, role) ==
  [organization |-> organization, email |-> lower[email],
   hashed_password |-> [hash_of |-> password], role |-> role, is_active |-> TRUE]

Members(organization) ==
  {u \in Requests : users[u] # None /\ users[u].organization = organization}

Init ==
  /\ organizations = [o \in Requests |-> None]
  /\ users = [u \in Requests |-> None]

\* An organization comes with its first admin, and with nobody else.
Register(o, name, email, password) ==
  /\ organizations[o] = None /\ users[o] = None
  /\ \A p \in Requests : organizations[p] # name
  /\ Members(o) = {}
  /\ organizations' = [organizations EXCEPT ![o] = name]
  /\ users' = [users EXCEPT ![o] = NewUser(o, email, password, "admin")]

\* Another member, under an address that no member has in any spelling.
AddMember(u, organization, email, password, role) ==
  /\ users[u] = None
  /\ Members(organization) # {}
  /\ \A v \in Members(organization) : lower[users[v].email] # lower[email]
  /\ users' = [users EXCEPT ![u] = NewUser(organization, email, password, role)]
  /\ UNCHANGED organizations

\* A user may be given another role, deactivated and activated.
Administer(u, role, is_active) ==
  /\ users[u] # None
  /\ users' = [users EXCEPT ![u].role = role, ![u].is_active = is_active]
  /\ UNCHANGED organizations

Next ==
  \E u \in Requests :
    \/ \E role \in Role, is_active \in BOOLEAN : Administer(u, role, is_active)
    \/ \E email \in Emails, password \in Passwords :
         \/ \E name \in Names : Register(u, name, email, password)
         \/ \E o \in Requests, role \in Role : AddMember(u, o, email, password, role)

Spec == Init /\ [][Next]_vars

=============================================================================
