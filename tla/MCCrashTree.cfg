SPECIFICATION Spec
CONSTANTS
  Key = {1, 2, 3, 4}
  Payload = {"short", "long"}
  Length <- MCLength
  Absent = Absent
  Idle = Idle
  PageSpace = 28
  MaxPageId = 5
  MaxCrashes = 1
INVARIANTS SearchReachesLeaf AllocatedFirst NoStaleRead LostOnlyInCut
PROPERTY SearchChangesByInsert
