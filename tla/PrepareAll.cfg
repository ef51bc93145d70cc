SPECIFICATION Spec
CONSTANTS
  Paths <- MCPaths
  Ignored <- MCIgnored
  Sources <- MCSources
  Dir <- MCDir
  Versions <- MCVersions
  Binaries <- MCBinaries
  Links <- MCLinks
  Alike <- MCAlike
  Patch <- MCPatch
  Commits <- MCCommits
  Starts <- MCStarts
  Other = other
  MaxChangedFiles = 4
  MaxFileDiff = 7
  MaxTotalDiff = 12
  ClipMark = 1
  BinaryNote = 2
  Threshold = 2
  MaxGroups = 2
  MaxContext = 16
  MaxFileContext = 10
  MinGroup = 4
  MinUseful = 2
  CutMark = 1
  Join = 1
  MaxSpans = 2
  MaxPushes = 3
  MaxFaults = 1
INVARIANTS
  EveryChangeIsAccountedFor DiffIsBounded DroppedForWantOfRoom LimitsNeverEmptyAPush
  RequestIsBounded EveryFileInOneRequest EvenSplitHolds MapIsFreshElsewhere
