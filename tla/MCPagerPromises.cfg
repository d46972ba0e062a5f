\* All crash windows closed: what the pager promises when no crash leaves a
\* half-created database or a lone fragment in the log, and power does not fail
\* on what only a killed process has written.
SPECIFICATION Spec
CONSTANTS
  MaxPageId = 2
  Content <- MCContent
  Blank = Blank
  Garbage = Garbage
  FrameSize = 2
  CrashWindows = {}
  Data = {d1, d2}
  EmptyLeaf = d1
  NoPage = NoPage
  NoValue = NoValue
  MaxFrames = 3
INVARIANTS
  AckedIsRecoverable
  NoPageIdReuse
  OpenAccepts
  RootIsReadable
PROPERTY ImplementsStore
