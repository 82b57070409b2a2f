SPECIFICATION FairSpec
CONSTANTS
  Word <- MCWord
  Standard <- MCStandard
  Arguments <- MCArguments
  Absolute <- MCAbsolute
  Sample <- MCSample
  Manifests <- MCManifests
  MaxArguments = 2
  MaxMore = 2
INVARIANTS
  TypeOK
  EveryWordIsPlaced
  SuccessIsEarned
  FailuresLeaveTheOutput
  TemporaryIsRemoved
  OverridesPrevail
  LegacyFormIsCompile
PROPERTIES
  Implements
  Concludes
