\* Nagging repairs: everything but a crash inside a write, one request at a time.
SPECIFICATION FairSpec
CONSTANTS
    k1 = k1
    k2 = k2
    Keys <- TwoKeys
    Workers = {w1}
    Boot = Boot
    Trigger = Trigger
    Collector = Collector
    Absent = Absent
    Err = Err
    Revoked = Revoked
    NoFile = NoFile
    Torn = Torn
    NoKey = NoKey
    CacheResponse = TRUE
    HasTTL = TRUE
    Disturbances <- LiveDisturbances
    MaxDisturb = 2
    MaxCred = 6
PROPERTIES DeclaredServed
CHECK_DEADLOCK FALSE
