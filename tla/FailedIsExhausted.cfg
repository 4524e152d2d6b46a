SPECIFICATION Spec
CONSTANTS
  Workers = {w1}
  Configs <- OneConfig
  MaxRetries = 5
  MaxCrashes = 0
  MaxErrors = 0
PROPERTY FailedIsExhausted
