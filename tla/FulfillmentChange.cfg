\* A deploy changes a request after a pushed callback.
SPECIFICATION FairSpec
CONSTANTS
    n1 = n1
    n2 = n2
    v1 = v1
    v2 = v2
    noReq = noReq
    consumer = consumer
    Needs <- OneNeed
    Reqs <- Versions
    InitReq <- AllDeclared
    NoReq = noReq
    Checked = {}
    NeverSatisfied = {}
    SyncNeeds = {}
    Runners = {consumer}
    Consumer = consumer
    Periodic = {consumer}
    Callbacks = {c1}
    NoNeed = NoNeed
    NoFile = NoFile
    Torn = Torn
    Disturbances = {"deploy", "push"}
    MaxDisturb = 2
PROPERTIES ChangeReachesProvider
