SPECIFICATION Spec
CONSTANTS
  alg = alg
  par = par
  lib = lib
  JobCount = 2
  Bundles <- MCBundles
  NoBundle = NoBundle
  Deps <- MCDeps
  Needs <- MCNeeds
  Providers <- MCProviders
  Present <- MCPresent
  Modes = {TRUE, FALSE}
  MaxUploads = 1
  MaxRestarts = 1
CHECK_DEADLOCK FALSE
INVARIANTS TypeOK CleanStart JobKeepsServices BlamelessFailure EndIsReported FreshSinceStart
