\* Two workers, a trigger and a gc, one at a time, with and without initialization.
SPECIFICATION CalmSpec
CONSTANTS
    k1 = k1
    k2 = k2
    Keys <- TwoKeys
    Workers = {w1, w2}
    Boot = Boot
    Trigger = Trigger
    Collector = Collector
    Absent = Absent
    Err = Err
    Revoked = Revoked
    NoFile = NoFile
    Torn = Torn
    NoKey = NoKey
    CacheResponse = TRUE
    HasTTL = TRUE
    Disturbances <- CalmDisturbances
    MaxDisturb = 5
    MaxCred = 6
INVARIANTS TypeOK SatisfiedMeansValid SubscriberKept
PROPERTIES ImplementsSubscription
SYMMETRY KeySymmetry
CHECK_DEADLOCK FALSE
