SPECIFICATION EnrichSpec
CONSTANTS
    Show = show
    Movies = {m}
    Ids = {1, 2}
    Seasons = {1, 2}
    Worker = w
    Handlers = {h}
    Listings <- MCListings
    BatchSize = 1
    MaxChanges = 1
    MaxFaults = 1
PROPERTIES
    SoundDeprecation
    NotStarved
    NewestSeasonConverges
CHECK_DEADLOCK FALSE
