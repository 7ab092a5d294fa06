SPECIFICATION Spec
CONSTANTS
  Names = {1, 2, 3}
  Versions = {1, 2}
  Packages = {1, 2, 3}
  None = None
  Libraries <- MCLibraries
CHECK_DEADLOCK FALSE
INVARIANTS TypeOK ResultLoads NoBundleTwice ExportsAreFound
PROPERTIES EverySearchEnds
