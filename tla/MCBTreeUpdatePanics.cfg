SPECIFICATION Spec
CONSTANTS
  Key = {1, 2, 3, 4}
  Payload = {"short", "huge"}
  Length <- MCHuge
  Absent = Absent
  PageSpace = 42
  MaxPageId = 6
PROPERTY UpdatesDoNotPanic
