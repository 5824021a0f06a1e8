SPECIFICATION LiveSpec
CONSTANTS
    Unit <- MCUnit
    Message <- MCMessage
    MAX_DATAGRAM = 2
    MaxPackets = 3
    MaxDatagrams = 2
INVARIANTS
    Streaming
    DatagramsInOrder
PROPERTIES
    ImplementsChannel
    Delivery
CHECK_DEADLOCK FALSE
