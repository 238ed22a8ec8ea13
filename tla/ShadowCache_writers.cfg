\* Two processes that ask for different layouts and start once each, and a third start.
CONSTANTS
    Processes = {p1, p2}
    Models = {"A"}
    Key <- MCKey
    Payload <- MCPayload
    OddRows = {}
    None = None
    MaxInits = 3
SPECIFICATION BoundedCacheSpec
INVARIANT NeverReinterprets
CHECK_DEADLOCK FALSE
