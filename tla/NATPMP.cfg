CONSTANTS
  W16 = 8
  Lifetimes = {5, 8, 9}
  Cap = 8
SPECIFICATION MappingSpec
INVARIANT FreshMeansLeased
PROPERTY CutShortOnPurpose
