SPECIFICATION LifecycleSpec
CONSTANTS
    Commands = {c1, c2}
    Services = {s1}
    NoOne = NoOne
    MaxCrashes = 1
INVARIANTS SingleDaemon
PROPERTIES ServerKeepsSocket CommandReturns
CHECK_DEADLOCK FALSE
