SPECIFICATION Spec
CONSTANTS
  Graph <- MCGraph
  Files <- MCFiles
  Tree <- MCTree
  Branches = {main, topic}
  Main = main
  Pushes <- MCPushes
  Procs = {p1, p2}
  NoProc = nobody
INVARIANTS TypeOK MirrorIsWhole OnlyStuckLeftoversBlock DiffHasItsCommits
PROPERTIES NoLostUpdate
