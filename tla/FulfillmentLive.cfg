\* Liveness of the nag loop: callbacks, losses and daemon restarts. One unit, as on
\* a Darwin host (control-plane.nix:503) or on a NixOS host after its boot run.
SPECIFICATION FairSpec
CONSTANTS
    n1 = n1
    n2 = n2
    v1 = v1
    v2 = v2
    noReq = noReq
    consumer = consumer
    Needs <- OneNeed
    Reqs <- OneVersion
    InitReq <- AllDeclared
    NoReq = noReq
    Checked = {n1}
    NeverSatisfied = {}
    SyncNeeds = {}
    Runners = {consumer}
    Consumer = consumer
    Periodic = {consumer}
    Callbacks = {c1}
    NoNeed = NoNeed
    NoFile = NoFile
    Torn = Torn
    Disturbances = {"decay", "push", "loss", "failure", "restart"}
    MaxDisturb = 3
PROPERTIES DecayRepaired NeverForgotten
