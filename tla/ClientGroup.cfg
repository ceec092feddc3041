SPECIFICATION Spec
CONSTANTS
    TimestampDomainSize = 18
    ClockSteps = {6}
    MaxCtrnonce = 4
    MaxCtrnonceDelayMsgs = 1
    MaxSilenceIntervalMillis = 8
    MaxStk = 2
    IoFaults = {"currentTime", "trng"}
    OwnSid = 1
    TimeoutReqToResMillis = 6
    SessionRenewalDurationMillis = 6
    MaxReqnonce = 2
INVARIANTS
    TypeOK
    RenewalChangesStk
PROPERTIES
    StkNeverGoesBack
    OldOnlyWhenRecent
    NeverReusesCtrnonce
    OneHandshakeAtATime
