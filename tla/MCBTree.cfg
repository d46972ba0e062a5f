SPECIFICATION Spec
CONSTANTS
  Key = {1, 2, 3, 4, 5, 6}
  Payload = {"a", "b"}
  Length <- MCSameLength
  Absent = Absent
  PageSpace = 42
  MaxPageId = 7
INVARIANTS TypeOK NoStaleRead LatestInChain ChainIsComplete BackLinks ScanAgreesWithSearch
PROPERTY ImplementsMap
