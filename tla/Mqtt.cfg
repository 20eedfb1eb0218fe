SPECIFICATION FairSpec
CONSTANTS
    INBOX_CAP = 1
    REQUEST_CHANNEL_CAP = 1
    MaxCommands = 5
    MaxPublishes = 2
    LinkMayFail = TRUE
    BrokerMayRejectQos2 = TRUE
INVARIANTS
    TypeOK
    WaiterOwned
    NoStaleAck
    VerdictIsBrokers
    PublishesInOrder
    DisconnectReasonKept
PROPERTIES
    ContractSpec
    CommandReturns
\* A command can hang for good (README, findings): a stuck state is expected.
CHECK_DEADLOCK FALSE
