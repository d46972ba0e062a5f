SPECIFICATION Spec
CONSTANTS
  Key = {1, 2, 3}
  Payload = {"short", "mid", "long"}
  Length <- MCLength
  Absent = Absent
  PageSpace = 47
INVARIANTS TypeOK CellsAreIntact KeysAreSorted FindIsExact AcceptsWhatFits ActsAsMap
