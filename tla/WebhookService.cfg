SPECIFICATION FairSpec
CONSTANTS
  Workers = {w1, w2}
  Configs <- MCConfigs
  MaxRetries = 2
  MaxCrashes = 1
  MaxErrors = 1
INVARIANTS
  TypeOK
  NeverOverclaims
  SuccessIsReal
  OneTaskWithoutCrashes
  PostsBounded
  SignedForReceiver
PROPERTIES NeverLost DeliverySettles
