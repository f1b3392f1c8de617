\* One manager at a time, every disturbance.
SPECIFICATION Spec
CONSTANTS
    v1 = v1
    v2 = v2
    bad = bad
    bare = bare
    timer = timer
    Versions <- AllVersions
    Healthy <- GoodVersions
    Unprobed <- BareVersions
    FirstVersion = v1
    Managers = {timer}
    Timer = timer
    None = None
    NoFile = NoFile
    Torn = Torn
    Ceiling = 3
    MaxAttempts = 3
    Disturbances = {"publish", "revert", "activate", "rollback", "failure", "flaky", "reboot", "bootfail", "nixgc", "rootfail"}
    MaxDisturb = 4
INVARIANTS TypeOK CommittedIsHealthy
