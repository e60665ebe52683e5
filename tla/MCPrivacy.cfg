SPECIFICATION FairSpec
CONSTANTS
  Words <- MCWords
  Kind <- MCKind
  Pool <- MCPool
  Alike <- MCAlike
  Texts <- MCTexts
  N = 2
  MaxFaults = 1
INVARIANTS
  NothingDetectedLeaves
  DirectionsAgree
PROPERTIES
  RestoredExactly
  StreamRestored
  RequestEnds
\* The session may have used up the pseudonyms of a value.
CHECK_DEADLOCK FALSE
