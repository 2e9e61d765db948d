SPECIFICATION SearchSpec
CONSTANTS
    e1 = e1
    e2 = e2
    m = m
    r1 = r1
    r2 = r2
    pk = pk
    Wants = {e1, e2}
    NoWant = NoWant
    Releases = {r2, pk}
    NoRelease = NoRelease
    Packs = {pk}
    Covers <- MCCovers
    Better <- MCBetter
    Segment <- MCSegment
    Dest <- MCDestPerRelease
    MediaType = "series"
    Dials = {"auto", "propose", "manual"}
    StartAutonomy <- MCAllPropose
    MaxJobs = 2
    MaxTasks = 1
    MaxAttempts = 2
    Ops = {"approve", "decline", "autonomy", "retry"}
    MaxOps = 2
    Faults = {"search"}
    MaxFaults = 1
    MaxCrashes = 1
INVARIANTS
    ProposedHasProposal
    OneActiveJobPerWant
PROPERTIES
    SearchingResolves
CHECK_DEADLOCK FALSE
