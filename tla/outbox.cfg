SPECIFICATION FairSpec
CONSTANTS
    Users = {u}
    Invites = {i}
    MCDevices = {d1, d2}
    Device <- MCDevice
    Workers = {w1}
    NoRow = NoRow
    MaxAttempts = 2
    MaxFaults = 1

    
PROPERTIES
    
    Settles
CHECK_DEADLOCK FALSE
