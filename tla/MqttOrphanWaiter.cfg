SPECIFICATION Spec
CONSTANTS
    INBOX_CAP = 1
    REQUEST_CHANNEL_CAP = 1
    MaxCommands = 2
    MaxPublishes = 0
    LinkMayFail = TRUE
    BrokerMayRejectQos2 = FALSE
INVARIANTS
    NoOrphanWaiter
CHECK_DEADLOCK FALSE
