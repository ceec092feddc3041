SPECIFICATION FairSpec
CONSTANTS
    TimestampDomainSize = 14
    ClockSteps = {7}
    MaxCtrnonce = 2
    MaxCtrnonceDelayMsgs = 1
    MaxSilenceIntervalMillis = 8
    MaxStk = 3
    IoFaults = {}
    AmountOfClients = 2
    GroupSids = {1}
    CtrNonceUpperLimit = 2
    SessionDurationMillis = 12
    DelayBetweenRenNotificationsMillis = 1
    Clients = {1}
    TimeoutReqToResMillis = 6
    SessionRenewalDurationMillis = 6
    MaxReqnonce = 4
    MaxInFlight = 2
    Senders = {}
    Forced = TRUE
    Restarting = {0, 1}
PROPERTY KeysPromise
