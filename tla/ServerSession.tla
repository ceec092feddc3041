--------------------------- MODULE ServerSession ---------------------------
(***************************************************************************)
(* The Server's handlers for one Group, as operators from the Group's      *)
(* state (hzl_ServerGroupState_t) to the set of outcomes of the call: the  *)
(* returned error, the new state, the PDU built (out) and the user data    *)
(* delivered (sdu).                                                        *)
(*                                                                         *)
(* Calls run to completion one at a time: the library is single-threaded.  *)
(* The clock is read at the start of a call and, by the code that opens a  *)
(* Session or sends a Request, once more; both readings are "now" here. A  *)
(* reception whose first reading fails ends there: it is one of those      *)
(* refused with nothing changed.                                           *)
(***************************************************************************)
EXTENDS HzlCommon

CONSTANTS
    AmountOfClients,                   \* config field, the SIDs are 1 .. AmountOfClients
    GroupSids,                         \* config field clientSidsInGroupBitmap
    CtrNonceUpperLimit,                \* config field
    SessionDurationMillis,             \* config field
    DelayBetweenRenNotificationsMillis \* config field

ASSUME AmountOfClientsAssumption == AmountOfClients \in Nat \ {0}
ASSUME GroupSidsAssumption == GroupSids \subseteq 1 .. AmountOfClients
ASSUME CtrNonceUpperLimitAssumption == CtrNonceUpperLimit \in 0 .. MaxCtrnonce
ASSUME SessionDurationAssumption == SessionDurationMillis \in Nat
ASSUME DelayBetweenRenAssumption ==
    /\ DelayBetweenRenNotificationsMillis \in Nat \ {0}
    /\ DelayBetweenRenNotificationsMillis < SessionDurationMillis \div 6

Sid == 0 .. AmountOfClients

ServerGroupState ==
    [sessionStartInstant          : Timestamp,
     currentRxLastMessageInstant  : Timestamp,
     previousRxLastMessageInstant : Timestamp,
     currentCtrNonce              : Ctrnonce,
     previousCtrNonce             : Ctrnonce,
     currentStk                   : Stk,
     previousStk                  : Stk]

----------------------------------------------------------------------------
(* Session renewal phase *)

ServerPhaseIsActive(group) == group.previousStk # NoStk

ServerPhaseIsOver(group, now) ==
    \/ group.currentCtrNonce >= 2 * MaxCtrnonceDelayMsgs
    \/ TimeDelta(group.sessionStartInstant, now) > 6 * DelayBetweenRenNotificationsMillis

\* Mutant: the phase is never closed.
Mutant_ServerPhaseExitIfNeeded(group, now) == group

ServerPhaseExitIfNeeded(group, now) ==
    IF ServerPhaseIsActive(group) /\ ServerPhaseIsOver(group, now)
    THEN [group EXCEPT !.previousStk = NoStk,
                       !.previousRxLastMessageInstant = 0,
                       !.previousCtrNonce = 0]
    ELSE group

\* The current Session becomes the previous one.
ServerBackedUp(group) ==
    [group EXCEPT !.previousStk = group.currentStk,
                  !.previousRxLastMessageInstant = group.currentRxLastMessageInstant,
                  !.previousCtrNonce = group.currentCtrNonce]

\* Mutant: the previous key is backed up and no new one takes its place.
Mutant_ServerPhaseEnter(group, now, fresh) ==
    {Outcome("OK",
             [ServerBackedUp(group) EXCEPT !.sessionStartInstant = now,
                                           !.currentRxLastMessageInstant = now,
                                           !.currentCtrNonce = 0], {}, {})}

\* After the backup the clock is read, then the new key is drawn. Each of the
\* two may fail and leaves the rest undone.
ServerPhaseEnter(group, now, fresh) ==
    LET backup  == ServerBackedUp(group)
        started == [backup EXCEPT !.sessionStartInstant = now,
                                  !.currentRxLastMessageInstant = now]
    IN  {Outcome("FAILED", backup, {}, {}) : fault \in IoFaults \cap {"currentTime"}}
        \cup
        {Outcome(IF draw.ok THEN "OK" ELSE "FAILED",
                 [started EXCEPT !.currentStk = draw.stk,
                                 !.currentCtrNonce = IF draw.ok THEN 0 ELSE @],
                 {}, {}) : draw \in NonZeroTrng(group.currentStk, fresh)}

\* Mutant: the counter nonce of the previous Session is not consumed by a REN.
Mutant_ServerBuildMsgRenewal(group) ==
    Outcome("OK", group, {Ren(group.previousStk, group.previousCtrNonce)}, {})

ServerBuildMsgRenewal(group) ==
    Outcome("OK",
            [group EXCEPT !.previousCtrNonce = Incremented(@)],
            {Ren(group.previousStk, group.previousCtrNonce)}, {})

\* Opens a new Session and announces it under the key of the previous one.
ServerRenew(group, now, fresh) ==
    {IF o.err = "OK" THEN ServerBuildMsgRenewal(o.group) ELSE o :
        o \in ServerPhaseEnter(group, now, fresh)}

ServerSessionIsExpired(group, now) ==
    \/ group.currentCtrNonce >= CtrNonceUpperLimit
    \/ TimeDelta(group.sessionStartInstant, now) > SessionDurationMillis

ServerPhaseEnterIfNeeded(group, now, fresh) ==
    IF ServerSessionIsExpired(group, now)
    THEN ServerRenew(group, now, fresh)
    ELSE {Outcome("OK", group, {}, {})}

----------------------------------------------------------------------------
(* Reception *)

\* Mutant: the reception instant is stored as it is.
Mutant_ServerUpdateCurrentRxLastMessageInstant(group, rx) ==
    [group EXCEPT !.currentRxLastMessageInstant = rx]

\* Stored one millisecond late when it coincides with the Session's start,
\* as equality of the two instants means that no Client asked yet.
ServerUpdateCurrentRxLastMessageInstant(group, rx) ==
    [group EXCEPT !.currentRxLastMessageInstant =
        IF rx = group.sessionStartInstant THEN (rx + 1) % TimestampDomainSize ELSE rx]

\* The code compares with >=, so the highest configured SID is not valid.
ServerValidateSidAndGid(sid) == sid < AmountOfClients /\ sid \in GroupSids

\* Mutant: the reception is recorded before the Request has been validated.
Mutant_ServerProcessReceivedRequest(group, m, intact, rx) ==
    LET received == ServerUpdateCurrentRxLastMessageInstant(group, rx)
        res == Res(m.sid, m.reqnonce, group.currentStk, group.currentCtrNonce)
    IN  IF ServerValidateSidAndGid(m.sid) /\ intact /\ m.reqnonce # 0
        THEN {Outcome("OK", received, {res}, {})}
        ELSE {Outcome("REFUSED", received, {}, {})}

\* A Request is answered with the current Session. The nonce of the Response
\* is drawn after the reception has been recorded, and the draw may fail.
ServerProcessReceivedRequest(group, m, intact, rx) ==
    IF ServerValidateSidAndGid(m.sid) /\ intact /\ m.reqnonce # 0
    THEN LET received == ServerUpdateCurrentRxLastMessageInstant(group, rx)
             res == Res(m.sid, m.reqnonce, group.currentStk, group.currentCtrNonce)
         IN  {Outcome("OK", received, {res}, {})}
             \cup {Outcome("FAILED", received, {}, {}) : fault \in IoFaults \cap {"trng"}}
    ELSE {Outcome("REFUSED", group, {}, {})}

\* Mutant: any counter nonce the new Session has not reached is the old Session's.
Mutant_ServerIsCtrNonceOfPreviousSession(group, ctrnonce) == ctrnonce >= group.currentCtrNonce

\* Mutant: the old Session's next counter nonce is taken for the new Session's.
Mutant_Late_ServerIsCtrNonceOfPreviousSession(group, ctrnonce) == ctrnonce > group.previousCtrNonce

ServerIsCtrNonceOfPreviousSession(group, ctrnonce) ==
    ctrnonce >= (group.currentCtrNonce + group.previousCtrNonce) \div 2

\* During a renewal phase the counter nonce alone tells the two Sessions apart.
ServerIsPreviousSession(group, ctrnonce) ==
    ServerPhaseIsActive(group) /\ ServerIsCtrNonceOfPreviousSession(group, ctrnonce)

ServerChooseStk(group, isPrevious) ==
    IF isPrevious THEN group.previousStk ELSE group.currentStk

\* Mutant: the received counter nonce is not compared with the local one.
Mutant_ServerCheckRxCtrnonce(group, ctrnonce, rx) == ~CtrnonceIsExpired(ctrnonce)

ServerCheckRxCtrnonce(group, ctrnonce, rx) ==
    /\ ~CtrnonceIsExpired(ctrnonce)
    /\ IF ServerIsPreviousSession(group, ctrnonce)
       THEN ctrnonce >= group.previousCtrNonce - CtrDelay(group.previousRxLastMessageInstant, rx)
       ELSE ctrnonce >= group.currentCtrNonce - CtrDelay(group.currentRxLastMessageInstant, rx)

ServerUpdateCtrnonceAndRxTimestamp(group, ctrnonce, rx, isPrevious) ==
    IF isPrevious
    THEN [group EXCEPT !.previousCtrNonce = Advanced(@, ctrnonce),
                       !.previousRxLastMessageInstant = rx]
    ELSE ServerUpdateCurrentRxLastMessageInstant(
            [group EXCEPT !.currentCtrNonce = Advanced(@, ctrnonce)], rx)

\* The tag is valid under the one key the counter nonce selects, or not at all.
\* Accepted data is delivered even when opening a new Session then fails.
ServerProcessReceivedSecuredFd(group, m, intact, rx, fresh) ==
    LET g          == ServerPhaseExitIfNeeded(group, rx)
        isPrevious == ServerIsPreviousSession(g, m.ctrnonce)
        acceptable == /\ intact
                      /\ ServerCheckRxCtrnonce(g, m.ctrnonce, rx)
                      /\ m.stk = ServerChooseStk(g, isPrevious)
        received   == ServerUpdateCtrnonceAndRxTimestamp(g, m.ctrnonce, rx, isPrevious)
    IN  IF ~ServerValidateSidAndGid(m.sid) THEN {Outcome("REFUSED", group, {}, {})}
        ELSE IF ~acceptable THEN {Outcome("REFUSED", g, {}, {})}
        ELSE {[o EXCEPT !.sdu = {m}] : o \in ServerPhaseEnterIfNeeded(received, rx, fresh)}

----------------------------------------------------------------------------
(* Transmission *)

ServerDidAnyClientAlreadyRequest(group) ==
    group.currentRxLastMessageInstant # group.sessionStartInstant

\* Nothing here looks at the age or at the counter nonce of the Session.
ServerBuildSecuredFd(group) ==
    {IF ServerDidAnyClientAlreadyRequest(group)
     THEN Outcome("OK",
                  [group EXCEPT !.currentCtrNonce = Incremented(@)],
                  {Sadfd(0, group.currentStk, group.currentCtrNonce)}, {})
     ELSE Outcome("NO_RECEIVER", group, {}, {})}

\* Mutant: a renewal is forced whether or not the Session has a receiver.
Mutant_Deaf_ServerForceSessionRenewal(group, now, fresh) ==
    IF ServerPhaseIsActive(group) THEN {ServerBuildMsgRenewal(group)}
    ELSE ServerRenew(group, now, fresh)

\* Mutant: forcing a renewal opens a new Session even in a renewal phase.
Mutant_ServerForceSessionRenewal(group, now, fresh) ==
    IF ServerPhaseIsActive(group) \/ ServerDidAnyClientAlreadyRequest(group)
    THEN ServerRenew(group, now, fresh)
    ELSE {Outcome("NO_RECEIVER", group, {}, {})}

ServerForceSessionRenewal(group, now, fresh) ==
    IF ServerPhaseIsActive(group) THEN {ServerBuildMsgRenewal(group)}
    ELSE IF ServerDidAnyClientAlreadyRequest(group) THEN ServerRenew(group, now, fresh)
    ELSE {Outcome("NO_RECEIVER", group, {}, {})}

----------------------------------------------------------------------------
(* Initialisation *)

\* The state of a Group whose Session has just been opened, at hzl_ServerInit.
ServerStartedSession(now, stk) ==
    [sessionStartInstant          |-> now,
     currentRxLastMessageInstant  |-> now,
     previousRxLastMessageInstant |-> 0,
     currentCtrNonce              |-> 0,
     previousCtrNonce             |-> 0,
     currentStk                   |-> stk,
     previousStk                  |-> NoStk]
=============================================================================
