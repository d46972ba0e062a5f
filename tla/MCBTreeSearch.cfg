SPECIFICATION Spec
CONSTANTS
  Key = {1, 2, 3, 4, 5, 6}
  Payload = {"a"}
  Length <- MCSameLength
  Absent = Absent
  PageSpace = 42
  MaxPageId = 7
INVARIANT SearchFinds
