SPECIFICATION ReadsSpec
CONSTANTS
  Rows = {1, 2, 3, 4}
  ProjectList <- MCProjects
  Attr <- MCAttr
  Mentions <- MCMentions
  Edges <- MCEdges
  Requests <- MCRequests
  Rankings <- MCRankings
  Depth = 2
  K = 60
  Hops = 2
  DegreeCap = 2
  Unset = Unset
  Steady = {4}
  MaxWrites = 1
INVARIANTS DeletedStayHidden WithdrawnStayAway WithinBounds TimelineHasNoGaps
CHECK_DEADLOCK FALSE
