\* Power may fail on what a killed process has written and nobody has synced.
SPECIFICATION Spec
CONSTANTS
  MaxPageId = 2
  Content <- MCContent
  Blank = Blank
  Garbage = Garbage
  FrameSize = 3
  CrashWindows = {"unsynced"}
  Data = {d1, d2}
  EmptyLeaf = d1
  NoPage = NoPage
  NoValue = NoValue
  MaxFrames = 2
INVARIANT CrashLeavesUsable
