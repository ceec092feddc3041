SPECIFICATION Spec
CONSTANTS
    TimestampDomainSize = 2
    ClockSteps = {}
    MaxCtrnonce = 6
    MaxCtrnonceDelayMsgs = 1
    MaxSilenceIntervalMillis = 8
    MaxStk = 2
    IoFaults = {}
    AmountOfClients = 3
    GroupSids = {1, 2}
    CtrNonceUpperLimit = 4
    SessionDurationMillis = 12
    DelayBetweenRenNotificationsMillis = 1
    Clients = {1, 2}
    TimeoutReqToResMillis = 6
    SessionRenewalDurationMillis = 6
    MaxReqnonce = 3
    MaxInFlight = 1
    Senders = {0, 1, 2}
    Forced = FALSE
    Restarting = {}
INVARIANTS
    InStepIsHeard
    ClientsHearEachOther
