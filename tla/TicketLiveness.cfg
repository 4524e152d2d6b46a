SPECIFICATION FairSpec
CONSTANTS
  Requests = {q1, q2}
  Workers = {w1, w2}
  Texts = {t1}
  Blank = Blank
  None = None
  MaxInFlight = 2
  MaxFailures = 1
PROPERTIES
  RunsSettle
  ApprovalsNotifiedUnlessFailed
