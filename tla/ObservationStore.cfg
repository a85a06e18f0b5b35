SPECIFICATION StoreSpec
CONSTANTS
    SyncIds = {s1}
    Titles = {t1}
    Contents = {x, y}
    Scopes = {project, team}
    Types = {fact}
    Topics = {k}
    t1 = t1
    t2 = t2
    Matches <- MCMatches
    NoSync = NoSync
    NoTopic = NoTopic
    DayTicks = 1
    Window = 1
    Times = {1, 3}
    MaxId = 3
SYMMETRY Symmetry
INVARIANTS SupersessionSound
PROPERTIES InsertHidesOnlyReplaced SaveNeverForksTopic DeletedRowsFrozen
CHECK_DEADLOCK FALSE
