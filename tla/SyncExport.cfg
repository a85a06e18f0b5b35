SPECIFICATION Spec
CONSTANTS
    Projects = {p1}
    Exporters = {e1, e2}
    Session = s
    Observations = {o}
    Prompts = {}
    RepoOf <- MCOwnRepos
    None = None
    MaxRev = 2
    MaxCrashes = 1
    MaxCancels = 1
    MaxFaults = 1
    MaxExports = 2
INVARIANTS MarkedIsListed ObservationsHaveSessions NoRowListedTwice
PROPERTIES ManifestAppendOnly EveryExportEnds
CHECK_DEADLOCK FALSE
