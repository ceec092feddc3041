SPECIFICATION Spec
CHECK_DEADLOCK FALSE
CONSTANTS
    Type = 4
    MayFail = {"currentTime", "trng"}
    Times = {0, 3, 9}
    Ctrnonces = {0, 3}
    MaxCalls = 5
    TimestampDomainSize = 16
    MaxCtrnonce = 3
    MaxStk = 3
    MaxReqnonce = 4
INVARIANTS
    AnsweredOrRefused
    DataIsGenuine
    WhatIsSentVerifies
PROPERTIES
    KeysAreOfTheGroup
    GroupsAreSeparate
