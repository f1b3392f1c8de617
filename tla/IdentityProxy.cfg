\* Two users and one tailnet address; two requests at once.
SPECIFICATION Spec
CONSTANTS
    u1 = u1
    u2 = u2
    g = g
    h1 = h1
    h2 = h2
    Users <- TwoUsers
    Groups = {g}
    Addrs = {a}
    Handlers <- TwoHandlers
    Sites <- TwoSites
    TTL = 2
    MaxAge = 1
    MaxDelay = 1
    NoUser = NoUser
    Failed = Failed
    Disturbances = {"reassign", "outage", "deploy", "crash"}
    MaxDisturb = 2
INVARIANTS TypeOK AnswerIsRecent VpnFollowsDoc SessionEnds
SYMMETRY UserHandlerSymmetry
