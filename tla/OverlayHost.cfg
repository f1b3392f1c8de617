\* Dependency graphs over three overlays, cycles included; two publications, two disturbances.
SPECIFICATION Spec
CONSTANTS
    N = 3
    Packages <- Three
    Configs <- HostConfigs
    Known = {1, 2}
    MaxPublish = 4
    MaxDisturb = 2
    Disturbances = {"save", "restart", "refused", "unhealthy", "evalfail", "reboot", "bootfail"}
INVARIANTS TypeOK OrderIsSound FailureIsolated AckedSurvives
PROPERTIES DependencyLandsFirst
CHECK_DEADLOCK FALSE
