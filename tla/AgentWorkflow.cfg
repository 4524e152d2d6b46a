SPECIFICATION Spec
CONSTANTS
  Organizations = {org1, org2}
  Own = org1
  Words = {refund, invoice, login}
  Scores <- MCScores
  TopK = 2
  SimilarityThreshold = 50
  ConfidenceThreshold = 70
  MaxChunks = 3
SYMMETRY Symmetry
INVARIANTS
  TypeOK
  GroundedApproval
  AnswerUsed
CHECK_DEADLOCK FALSE
