\* Two needs, one checked and called back, one synchronous; every disturbance.
SPECIFICATION Spec
CONSTANTS
    n1 = n1
    n2 = n2
    v1 = v1
    v2 = v2
    noReq = noReq
    consumer = consumer
    Needs <- TwoNeeds
    Reqs <- OneVersion
    InitReq <- SecondLater
    NoReq = noReq
    Checked = {n1}
    NeverSatisfied = {}
    SyncNeeds = {n2}
    Runners = {consumer}
    Consumer = consumer
    Periodic = {consumer}
    Callbacks = {c1}
    NoNeed = NoNeed
    NoFile = NoFile
    Torn = Torn
    Disturbances = {"deploy", "decay", "forcenag", "reboot", "restart", "push", "loss", "failure"}
    MaxDisturb = 2
INVARIANTS TypeOK SatisfiedIsEarned
