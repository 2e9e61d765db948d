SPECIFICATION Spec
CONSTANTS
    e1 = e1
    e2 = e2
    m = m
    r1 = r1
    r2 = r2
    pk = pk
    Wants = {m}
    NoWant = NoWant
    Releases = {r1, r2}
    NoRelease = NoRelease
    Packs = {}
    Covers <- MCMovieCovers
    Better <- MCBetter
    Segment <- MCSegment
    Dest <- MCDestPerEpisode
    MediaType = "movie"
    Dials = {"auto", "manual"}
    StartAutonomy <- MCAllAuto
    MaxJobs = 3
    MaxTasks = 3
    MaxAttempts = 2
    Ops = {"rearm", "cancel_want", "cancel_tracking", "retry", "autonomy", "manual_grab", "cancel_job", "retry_job", "reimport", "cancel_task"}
    MaxOps = 3
    Faults = {"badimport", "download", "badstate"}
    MaxFaults = 1
    MaxCrashes = 0
INVARIANTS
    FiledOnDisk
PROPERTIES
    TerminalSticky
    ManualClaimedInWindow
CHECK_DEADLOCK FALSE
