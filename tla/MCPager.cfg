\* Crashes strike in the creation and on an empty log too.
SPECIFICATION LiveSpec
CONSTANTS
  MaxPageId = 2
  Content <- MCContent
  Blank = Blank
  Garbage = Garbage
  FrameSize = 3
  CrashWindows = {"create", "logHead"}
  Data = {d1, d2}
  EmptyLeaf = d1
  NoPage = NoPage
  NoValue = NoValue
  MaxFrames = 2
INVARIANTS
  TypeOK
  ReadsAreDurable
  CrashLeavesUsable
PROPERTIES
  OnlyWritesChangeRecovered
  ServiceResumes
