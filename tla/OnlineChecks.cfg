SPECIFICATION Spec
CONSTANTS
  MaxIdlBytes = 4
  Trusted = {"t"}
  MaxConfRatio = 10
  StaleSkewSecs = 20
  Jobs <- MCJobs
INVARIANTS
  SearchIsHonest
  EveryProgramJudged
  FeedsJudged
  AmountsInMintDecimals
