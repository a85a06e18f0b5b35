SPECIFICATION Spec
CONSTANTS
    Savers = {s1}
    EmbedWorkers = {w1}
    QueueCapacity = 1
    Retries = 1
    RateLimit = 1
    Configs = {{"embed"}, {"embed", "quantize"}, {"extract"}, {"graph", "mirror"}}
    None = None
    MaxRows = 2
    MaxTexts = 2
    MaxFailures = 1
    MaxCrashes = 1
    MaxBulk = 1
INVARIANTS DerivedFromOwnRow EmbeddedIsFound
PROPERTIES QueuedIsEmbedded
CHECK_DEADLOCK FALSE
