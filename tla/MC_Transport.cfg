SPECIFICATION LiveSpec
CONSTANTS
    Client = {c1, c2}
    Payload <- MCPayload
    HEADER = 2
    BUFFER = 3
    MAX_BYTES = 3
    MaxConnections = 2
INVARIANT SessionsKept
PROPERTIES Channels MessagesArrive
CHECK_DEADLOCK FALSE
