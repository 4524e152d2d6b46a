SPECIFICATION Spec
CONSTANTS
  Requests = {q1, q2, q3}
  Workers = {w1}
  Texts = {t1}
  Blank = Blank
  None = None
  MaxInFlight = 2
  MaxFailures = 0
PROPERTY TransitionsFollowStateMachine
