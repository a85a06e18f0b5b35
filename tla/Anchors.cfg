SPECIFICATION AnchorsSpec
CONSTANTS
  Obs = {o}
  Paths = {p}
  Files <- MCFiles
  Absent = Absent
  None = None
  MaxCommits = 2
  MaxSaves = 2
  MaxVerifies = 2
INVARIANTS VerifiedIsEarned WithdrawnIsEarned
CHECK_DEADLOCK FALSE
