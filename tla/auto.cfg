SPECIFICATION Spec
CONSTANTS
    e1 = e1
    e2 = e2
    m = m
    r1 = r1
    r2 = r2
    pk = pk
    Wants = {e1, e2}
    NoWant = NoWant
    Releases = {r1, pk}
    NoRelease = NoRelease
    Packs = {pk}
    Covers <- MCCovers
    Better <- MCBetter
    Segment <- MCSegment
    Dest <- MCDestPerRelease
    MediaType = "series"
    Dials = {"auto"}
    StartAutonomy <- MCAllAuto
    MaxJobs = 3
    MaxTasks = 3
    MaxAttempts = 2
    Ops = {}
    MaxOps = 0
    Faults = {"search", "badstate", "download", "nofile", "missingfile", "client", "badclient", "list", "import", "badimport"}
    MaxFaults = 2
    MaxCrashes = 1
INVARIANTS
    TypeOK
    SingleImport
    
PROPERTIES
    NoExcludedGrab
    LifecycleSpec
CHECK_DEADLOCK FALSE
