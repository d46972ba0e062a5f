SPECIFICATION Spec
CONSTANTS
  MaxPageId = 2
  Content <- MCContent
  Blank = Blank
  Garbage = Garbage
  FrameSize = 3
  CrashWindows = {"logHead"}
  Data = {d1, d2}
  EmptyLeaf = d1
  NoPage = NoPage
  NoValue = NoValue
  MaxFrames = 2
INVARIANT AckedIsRecoverable
