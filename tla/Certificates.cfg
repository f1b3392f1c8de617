\* Two renewals; every disturbance but a crash inside an installation or a callback beside one.
SPECIFICATION Spec
CONSTANTS
    c1 = c1
    c2 = c2
    Consumers <- TwoConsumers
    Life = 8
    RenewDays = 5
    WatchdogDays = 4
    FreshDays = 3
    Missing = Missing
    Unreadable = Unreadable
    Down = Down
    Disturbances = {"orderfail", "wedged", "loss", "unreachable", "corrupt", "reboot", "restart"}
    MaxDisturb = 2
    MaxDay = 12
INVARIANTS TypeOK PairMatches NoOutage
PROPERTIES NoDowngrade
SYMMETRY ConsumerSymmetry
CHECK_DEADLOCK FALSE
