SPECIFICATION FairSpec
CONSTANTS
    e1 = e1
    e2 = e2
    m = m
    r1 = r1
    r2 = r2
    pk = pk
    Wants = {m}
    NoWant = NoWant
    Releases = {r1, r2}
    NoRelease = NoRelease
    Packs = {}
    Covers <- MCMovieCovers
    Better <- MCBetter
    Segment <- MCSegment
    Dest <- MCDestPerEpisode
    MediaType = "movie"
    Dials = {"auto"}
    StartAutonomy <- MCAllAuto
    MaxJobs = 2
    MaxTasks = 3
    MaxAttempts = 2
    Ops = {}
    MaxOps = 0
    Faults = {"import"}
    MaxFaults = 1
    MaxCrashes = 0
PROPERTIES
    TaskFinishes
CHECK_DEADLOCK FALSE
