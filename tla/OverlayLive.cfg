\* One manager at a time: a published version comes to run, and the status says so.
SPECIFICATION FairSpec
CONSTANTS
    v1 = v1
    v2 = v2
    bad = bad
    bare = bare
    timer = timer
    Versions <- AllVersions
    Healthy <- GoodVersions
    Unprobed <- BareVersions
    FirstVersion = v1
    Managers = {timer}
    Timer = timer
    None = None
    NoFile = NoFile
    Torn = Torn
    Ceiling = 3
    MaxAttempts = 3
    Disturbances = {"publish", "failure", "flaky", "reboot", "nixgc", "rootfail"}
    MaxDisturb = 5
INVARIANTS CommittedIsKept StatusIsTruthful
PROPERTIES Converges
