SPECIFICATION Spec
CONSTANTS
  Word <- MCWord
  Standard <- MCStandard
  Arguments <- MCArguments
  Absolute <- MCAbsolute
  Sample <- MCSample
  Manifests <- MCManifests
  MaxArguments = 1
  MaxMore = 1
INVARIANT OutputHasNoEffect
