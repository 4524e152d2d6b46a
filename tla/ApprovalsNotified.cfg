SPECIFICATION FairSpec
CONSTANTS
  Requests = {q1, q2}
  Workers = {w1}
  Texts = {t1}
  Blank = Blank
  None = None
  MaxInFlight = 1
  MaxFailures = 1
PROPERTY ApprovalsNotified
