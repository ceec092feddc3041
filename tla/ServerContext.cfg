SPECIFICATION Spec
CHECK_DEADLOCK FALSE
CONSTANTS
    Type = 3
    MayFail = {"currentTime", "trng"}
    Times = {0, 13}
    Ctrnonces = {1, 3}
    MaxCalls = 4
    TimestampDomainSize = 32
    MaxCtrnonce = 3
    MaxStk = 4
INVARIANTS
    AnsweredOrRefused
    DataIsOfAMember
    WhatIsSentVerifies
    AllStarted
PROPERTIES
    GroupsAreSeparate
