SPECIFICATION FairSpec
CONSTANTS
    e1 = e1
    Users = {u1, u2}
    Movies = {m}
    Series = {s}
    Aired = {e1}
    Handlers = {c1}
    Enricher = Enricher
    NoTitle = NoTitle
    MaxRequests = 2
    MaxTitles = 1
    MaxCrashes = 1
    Episodes <- MCEpisodes
INVARIANTS
    Backed
PROPERTIES
    ScopeServed
    StoodDown
CHECK_DEADLOCK FALSE
