SPECIFICATION DecideSpec
CONSTANTS
    Nil = Nil
    NoRelease = NoRelease
    Default = Default
    Trees <- MCTrees
    Height <- MCHeight
    Slots = {"downloader", "library"}
    ThisWant = "w"
    Siblings = {"w", "v"}
    MaxResults = 2
    MaxDeclines = 1
    Releases <- MCReleases
    StartProfile <- MCStartProfile
    Profiles <- MCProfiles
    RuleSets <- MCRuleSets
    Evidence <- MCEvidence
    Thresholds <- MCThresholds
    Paths = {p1}
    Files = {f1, f2, f3}
    Refs = {r1, r2}
    Operators = {u1, u2}
    None = None
    MaxScans = 2
    MaxRequests = 2
    MaxImports = 1
    MaxFaults = 1
INVARIANTS
    BestSeen
    
    OrderFree
    Settled
    
SYMMETRY RefsAndSlots
CHECK_DEADLOCK FALSE
