\* Two needs, in three constellations; one run at a time; two disturbances of
\* any kind.
SPECIFICATION Spec
CONSTANTS
    n1 = n1
    n2 = n2
    n3 = n3
    n4 = n4
    f1 = f1
    f2 = f2
    Needs = {n1, n2, n3, n4}
    Deployments <- Pairs
    Refused = {n4}
    Files = {f1, f2}
    FileOf <- SharedFileOf
    Runs = {r1}
    Due = 2
    MaxTok = 9
    Disturbances = {"loss", "crash", "revokefail", "generatefail", "savefail", "removefail", "withdraw", "forget"}
    MaxDisturb = 2
INVARIANTS TypeOK OwnToken
PROPERTIES AccessRestored OrphansRevoked
