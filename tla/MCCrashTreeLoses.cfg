SPECIFICATION Spec
CONSTANTS
  Key = {1, 2, 3, 4}
  Payload = {"short"}
  Length <- MCLength
  Absent = Absent
  Idle = Idle
  PageSpace = 28
  MaxPageId = 5
  MaxCrashes = 1
INVARIANT AckedIsKept
