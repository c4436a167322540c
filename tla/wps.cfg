SPECIFICATION WpsSpec
CONSTANTS
    Enrollees = {"e1", "e2"}
    PinOf <- MCPinOf
    Displays = {"e1"}
    MaxTries = 1
    MaxPush = 1
    MaxPins = 1
INVARIANTS PinTriedOnce DoneMeansConfigured WpsMessagesAgree BigNumArithmetic
PROPERTY PbcExclusive
CHECK_DEADLOCK FALSE
