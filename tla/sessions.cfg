SPECIFICATION AdministrationSpec
CONSTANTS
    Sessions = {s1, s2}
    d1 = d1
    Devices = {d1}
    Tabs = {t1, t2}
    Home <- MCHome
    NoSession = NoSession
    Locks = TRUE
    MaxSecrets = 3
    MaxClosed = 2
    Servers = {h1, h2}
    Emails = {a1, a2}
    NoEmail = NoEmail
    MaxUsers = 2
    MaxServed = 3
    MaxInvites = 1
    Kinds = {"downloader", "template", "library"}
    MaxRows = 2
    Passwords = {p1, p2}
    Keep = Keep
    NoPassword = NoPassword
    Nobody = Nobody
    Savers = {h1, h2}
    MaxSaves = 3
    moviePreset = moviePreset
    seriesPreset = seriesPreset
    movieRepack = movieRepack
    seriesRepack = seriesRepack
    Profiles = {moviePreset, seriesPreset, custom}
    Formats = {movieRepack, seriesRepack}
    Domains = {"movie", "series"}
    Presets <- MCPresets
    Repack <- MCRepack
    Seeds <- MCSeeds
    NoProfile = NoProfile
    Editors = {h1}
    MaxEdits = 2
INVARIANTS
    CookieCurrent
    NoFalseReuse
    AdminRemains
    GrantsCurrent
    
    
    TierResolves
SYMMETRY TabsAndIds
CHECK_DEADLOCK FALSE
