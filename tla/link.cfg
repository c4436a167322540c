SPECIFICATION LinkSpec
CONSTANTS
    UpdateCount = 2
    Window = 2
    MaxEapolRetries = 2
    Protos = {"WPA", "RSN"}
    MaxJoins <- MCJoins
    MaxLost = 2
    MaxMics = 2
    MaxStarts = 1
    MaxFrames = 2
    WPS_IGNORE_SEL_REG_MAX_CNT = 1
INVARIANTS
    KeysAgree
    NoTxReinstall
    RxNotForgotten
PROPERTIES
    HandshakeEnds
    StartEnds
CHECK_DEADLOCK FALSE
