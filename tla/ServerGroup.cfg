SPECIFICATION Spec
CONSTANTS
    TimestampDomainSize = 24
    ClockSteps = {6}
    MaxCtrnonce = 4
    MaxCtrnonceDelayMsgs = 1
    MaxSilenceIntervalMillis = 8
    MaxStk = 3
    IoFaults = {}
    AmountOfClients = 2
    GroupSids = {1}
    CtrNonceUpperLimit = 3
    SessionDurationMillis = 12
    DelayBetweenRenNotificationsMillis = 1
INVARIANTS
    TypeOK
    ReceiverIsReal
    ReceiverNotForgotten
    RenewalChangesStk
    CtrnonceAhead
PROPERTIES
    NeverReusesCtrnonce
    OldOnlyWhenRecent
    PreviousStkOnlyInPhase
    NoRenewalWithinRenewal
    RenHasReceiver
