SPECIFICATION Spec
CONSTANTS
  Requests = {q1, q2, q3}
  Workers = {w1, w2}
  Texts = {t1, t2}
  Blank = Blank
  None = None
  MaxInFlight = 2
  MaxFailures = 1
SYMMETRY Symmetry
INVARIANTS
  TypeOK
  HistoryExplainsStatus
  ChangesLegalWhenRead
  FinalIsApproved
  NotificationsJustified
  RunsAtomic
  AuditMatchesHistory
PROPERTIES
  RefinesReplyGate
  CurrentCopiesFollowStateMachine
