\* Every disturbance but an arm that overlaps the work for an earlier claim of its host.
SPECIFICATION Spec
CONSTANTS
    h1 = h1
    h2 = h2
    d1 = d1
    d2 = d2
    Hosts <- TwoHosts
    Devices <- TwoDevices
    NoLease = NoLease
    Partial = Partial
    Disturbances = {"savefail", "crash", "preparefail", "lost", "resend", "powercycle"}
    MaxDisturb = 3
    MaxArms = 2
    MaxClaims = 3
INVARIANTS TypeOK OneClaimant OwnArchive CompletedIsWhole
PROPERTIES ImplementsEnrollment
SYMMETRY DeviceSymmetry
CHECK_DEADLOCK FALSE
