SPECIFICATION Spec
CONSTANTS
    TimestampDomainSize = 21
    ClockSteps = {7}
    MaxCtrnonce = 5
    MaxCtrnonceDelayMsgs = 1
    MaxSilenceIntervalMillis = 8
    MaxStk = 2
    IoFaults = {}
    AmountOfClients = 2
    GroupSids = {1}
    CtrNonceUpperLimit = 3
    SessionDurationMillis = 12
    DelayBetweenRenNotificationsMillis = 1
    Clients = {1}
    TimeoutReqToResMillis = 6
    SessionRenewalDurationMillis = 6
    MaxReqnonce = 3
    MaxInFlight = 1
    Senders = {1}
    Forced = FALSE
    Restarting = {0, 1}
INVARIANTS
    InStepIsHeard
    SlowIsHeard
    DeafMeansAlone
