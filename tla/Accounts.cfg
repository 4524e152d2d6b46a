SPECIFICATION Spec
CONSTANTS
  Requests = {r1, r2, r3}
  Names = {acme, globex}
  Emails <- MCEmails
  lower <- MCLower
  Passwords = {p1, p2}
  None = None
  MaxInFlight = 2
  MaxFailures = 1
  MaxChanges = 1
SYMMETRY Symmetry
INVARIANTS
  TypeOK
  AccountsUnique
  RegistrationAtomic
  CreatedByAdmins
  TokensEarned
  LoginsAudited
PROPERTIES
  DeactivationHolds
  CredentialsAccepted
  RefinesRegistry
CHECK_DEADLOCK FALSE
