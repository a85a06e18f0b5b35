SPECIFICATION Spec
CONSTANTS
  pa = pa
  pb = pb
  Projects = {pa, pb}
  SessionIds = {"s"}
  SyncIds = {o1, o2}
  PromptIds = {"q"}
  Merges <- OneWay
  Limit = 1
  None = None
  MaxTime = 1
  MaxCalls = 8
SYMMETRY IdSymmetry
INVARIANTS SavedIsSomewhere PagesAreExact
CHECK_DEADLOCK FALSE
