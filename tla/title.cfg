SPECIFICATION TitleSpec
CONSTANTS
    e1 = e1
    e2 = e2
    pk = pk
    Wants = {e1, e2}
    NoWant = NoWant
    NoRow = NoRow
    Releases = {pk}
    NoRelease = NoRelease
    Packs = {pk}
    Covers <- MCCovers
    Better <- MCBetter
    Segment <- MCSegment
    Dest <- MCDestPerEpisode
    MediaType = "series"
    Dials = {"auto"}
    StartAutonomy <- MCAllAuto
    MaxJobs = 2
    MaxTasks = 3
    MaxAttempts = 2
    Ops = {"retry_job", "reimport", "reimport_failed", "cancel_task"}
    MaxOps = 1
    Faults = {"badimport", "download"}
    MaxFaults = 1
    MaxCrashes = 0
INVARIANTS
    
    HiddenIsOver
    HeadlineFollowsWork
PROPERTIES
    CellWasTrue
SYMMETRY Episodes
CHECK_DEADLOCK FALSE
