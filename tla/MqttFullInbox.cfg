SPECIFICATION FairSpec
CONSTANTS
    INBOX_CAP = 1
    REQUEST_CHANNEL_CAP = 1
    MaxCommands = 3
    MaxPublishes = 2
    LinkMayFail = FALSE
    BrokerMayRejectQos2 = FALSE
PROPERTIES
    LoopPassesPublish
CHECK_DEADLOCK FALSE
