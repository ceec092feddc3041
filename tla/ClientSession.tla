--------------------------- MODULE ClientSession ---------------------------
(***************************************************************************)
(* The Client's handlers for one Group, as operators from the Group's      *)
(* state (hzl_ClientGroupState_t) to the set of outcomes of the call. They *)
(* mirror the Server's where the code does, and differ where it does: no   *)
(* adjustment of the reception instant, no Session is ever opened here, a  *)
(* renewal phase starts before the new key is known.                       *)
(*                                                                         *)
(* A reception whose reading of the clock fails ends there: it is one of   *)
(* those refused with nothing changed.                                     *)
(***************************************************************************)
EXTENDS HzlCommon

CONSTANTS
    OwnSid,                       \* config field sid
    TimeoutReqToResMillis,        \* config field
    SessionRenewalDurationMillis, \* config field
    MaxReqnonce                   \* bound: how many Requests are ever built

ASSUME OwnSidAssumption == OwnSid \in Nat \ {0}
ASSUME TimeoutReqToResAssumption == TimeoutReqToResMillis \in Nat
ASSUME SessionRenewalDurationAssumption == SessionRenewalDurationMillis \in Nat
ASSUME MaxReqnonceAssumption == MaxReqnonce \in Nat

\* A Request's nonce is the number of the Request. 0 is the value that means
\* that no Response is expected, which the generator never returns.
Reqnonce == 0 .. MaxReqnonce

NotExpectingAResponse == 0

ClientGroupState ==
    [requestNonce                 : Reqnonce,
     lastHandshakeEventInstant    : Timestamp,
     currentRxLastMessageInstant  : Timestamp,
     previousRxLastMessageInstant : Timestamp,
     currentCtrNonce              : Ctrnonce,
     previousCtrNonce             : Ctrnonce,
     currentStk                   : Stk,
     previousStk                  : Stk]

\* hzl_ClientInit and hzl_ClientDeInit zero the whole state.
ClientClearedState ==
    [requestNonce                 |-> NotExpectingAResponse,
     lastHandshakeEventInstant    |-> 0,
     currentRxLastMessageInstant  |-> 0,
     previousRxLastMessageInstant |-> 0,
     currentCtrNonce              |-> 0,
     previousCtrNonce             |-> 0,
     currentStk                   |-> NoStk,
     previousStk                  |-> NoStk]

----------------------------------------------------------------------------
(* What the state means *)

ClientIsSessionEstablishedAndValid(group) ==
    group.currentStk # NoStk /\ ~CtrnonceIsExpired(group.currentCtrNonce)

\* Mutant: the timeout is over one millisecond too early.
Mutant_ClientIsAHandshakeOngoing(group, now) ==
    /\ group.requestNonce # NotExpectingAResponse
    /\ TimeDelta(group.lastHandshakeEventInstant, now) < TimeoutReqToResMillis

\* Mutant: a Request never answered is waited for forever.
Mutant_Patient_ClientIsAHandshakeOngoing(group, now) ==
    group.requestNonce # NotExpectingAResponse

ClientIsAHandshakeOngoing(group, now) ==
    /\ group.requestNonce # NotExpectingAResponse
    /\ TimeDelta(group.lastHandshakeEventInstant, now) <= TimeoutReqToResMillis

ClientIsResponseAcceptable(group, rx) ==
    /\ group.requestNonce # NotExpectingAResponse
    /\ TimeDelta(group.lastHandshakeEventInstant, rx) <= TimeoutReqToResMillis

ClientPhaseIsActive(group) == group.previousStk # NoStk

\* Unlike a handshake, the nonce of a Request never answered counts here forever.
ClientIsRenewalAcceptable(group) ==
    ~ClientPhaseIsActive(group) /\ group.requestNonce = NotExpectingAResponse

----------------------------------------------------------------------------
(* Session renewal phase *)

ClientPhaseIsOver(group, now) ==
    \/ group.currentCtrNonce >= 2 * MaxCtrnonceDelayMsgs
    \/ TimeDelta(group.lastHandshakeEventInstant, now) > SessionRenewalDurationMillis

ClientPhaseExitIfNeeded(group, now) ==
    IF ClientPhaseIsActive(group) /\ ClientPhaseIsOver(group, now)
    THEN [group EXCEPT !.previousStk = NoStk,
                       !.previousRxLastMessageInstant = 0,
                       !.previousCtrNonce = 0]
    ELSE group

\* Mutant: the counter nonce restarts here, as it does on the Server.
Mutant_ClientPhaseEnter(group) ==
    [group EXCEPT !.previousStk = group.currentStk,
                  !.previousRxLastMessageInstant = group.currentRxLastMessageInstant,
                  !.previousCtrNonce = group.currentCtrNonce,
                  !.currentCtrNonce = 0]

\* The current Session is copied, not moved: both are the same one until the Response.
ClientPhaseEnter(group) ==
    [group EXCEPT !.previousStk = group.currentStk,
                  !.previousRxLastMessageInstant = group.currentRxLastMessageInstant,
                  !.previousCtrNonce = group.currentCtrNonce]

----------------------------------------------------------------------------
(* Handshake *)

\* The nonce is drawn and the clock read before the state is written.
ClientBuildMsgReq(group, now, fresh) ==
    {Outcome("OK",
             [group EXCEPT !.requestNonce = nonce, !.lastHandshakeEventInstant = now],
             {Req(OwnSid, nonce)}, {}) : nonce \in {fresh} \cap Reqnonce}
    \cup {Outcome("FAILED", group, {}, {}) : fault \in IoFaults}

ClientBuildRequest(group, now, fresh) ==
    {Outcome("FAILED", group, {}, {}) : fault \in IoFaults \cap {"currentTime"}}
    \cup IF ClientIsAHandshakeOngoing(group, now)
         THEN {Outcome("ONGOING", group, {}, {})}
         ELSE ClientBuildMsgReq(group, now, fresh)

\* Mutant: a key of all zeros is taken for one.
Mutant_ClientIsResponseValid(group, m, intact, rx) ==
    /\ m.client = OwnSid
    /\ ClientIsResponseAcceptable(group, rx)
    /\ ~CtrnonceIsExpired(m.ctrnonce)
    /\ intact

ClientIsResponseValid(group, m, intact, rx) ==
    /\ m.client = OwnSid
    /\ ClientIsResponseAcceptable(group, rx)
    /\ ~CtrnonceIsExpired(m.ctrnonce)
    /\ intact
    /\ m.stk # NoStk

\* The Session a Response carries becomes the current one.
ClientSessionReceived(group, m, rx) ==
    [group EXCEPT !.currentStk = m.stk,
                  !.currentCtrNonce = m.ctrnonce,
                  !.currentRxLastMessageInstant = rx,
                  !.lastHandshakeEventInstant = rx]

\* Mutant: a Response is still expected after one was accepted.
Mutant_ClientProcessReceivedResponse(group, m, intact, rx) ==
    {IF ClientIsResponseValid(group, m, intact, rx) /\ m.reqnonce = group.requestNonce
     THEN Outcome("OK", ClientSessionReceived(group, m, rx), {}, {})
     ELSE Outcome("REFUSED", group, {}, {})}

\* Mutant: the tag does not depend on the Request's nonce.
Mutant_Unbound_ClientProcessReceivedResponse(group, m, intact, rx) ==
    {IF ClientIsResponseValid(group, m, intact, rx)
     THEN Outcome("OK",
                  [ClientSessionReceived(group, m, rx) EXCEPT
                      !.requestNonce = NotExpectingAResponse], {}, {})
     ELSE Outcome("REFUSED", group, {}, {})}

\* The tag is valid only for the Request's nonce kept in the state.
ClientProcessReceivedResponse(group, m, intact, rx) ==
    {IF ClientIsResponseValid(group, m, intact, rx) /\ m.reqnonce = group.requestNonce
     THEN Outcome("OK",
                  [ClientSessionReceived(group, m, rx) EXCEPT
                      !.requestNonce = NotExpectingAResponse], {}, {})
     ELSE Outcome("REFUSED", group, {}, {})}

----------------------------------------------------------------------------
(* Reception of messages protected with a Session key *)

\* Mutant: any counter nonce the new Session has not reached is the old Session's.
Mutant_ClientIsCtrNonceOfPreviousSession(group, ctrnonce) == ctrnonce >= group.currentCtrNonce

ClientIsCtrNonceOfPreviousSession(group, ctrnonce) ==
    ctrnonce >= (group.currentCtrNonce + group.previousCtrNonce) \div 2

ClientIsPreviousSession(group, ctrnonce) ==
    ClientPhaseIsActive(group) /\ ClientIsCtrNonceOfPreviousSession(group, ctrnonce)

ClientChooseStk(group, isPrevious) ==
    IF isPrevious THEN group.previousStk ELSE group.currentStk

\* Mutant: the received counter nonce is not compared with the local one.
Mutant_ClientCheckRxCtrnonce(group, ctrnonce, rx) == ~CtrnonceIsExpired(ctrnonce)

ClientCheckRxCtrnonce(group, ctrnonce, rx) ==
    /\ ~CtrnonceIsExpired(ctrnonce)
    /\ IF ClientIsPreviousSession(group, ctrnonce)
       THEN ctrnonce >= group.previousCtrNonce - CtrDelay(group.previousRxLastMessageInstant, rx)
       ELSE ctrnonce >= group.currentCtrNonce - CtrDelay(group.currentRxLastMessageInstant, rx)

ClientUpdateCtrnonceAndRxTimestamp(group, ctrnonce, rx, isPrevious) ==
    IF isPrevious
    THEN [group EXCEPT !.previousCtrNonce = Advanced(@, ctrnonce),
                       !.previousRxLastMessageInstant = rx]
    ELSE [group EXCEPT !.currentCtrNonce = Advanced(@, ctrnonce),
                       !.currentRxLastMessageInstant = rx]

\* A valid REN opens the renewal phase and is answered with a Request; one
\* that cannot be taken now is only an occasion to close a phase that is over.
ClientProcessReceivedRenewal(group, m, intact, rx, fresh) ==
    IF ~ClientIsSessionEstablishedAndValid(group)
    THEN {Outcome("NO_SESSION", group, {}, {})}
    ELSE IF ~ClientIsRenewalAcceptable(group)
    THEN {Outcome("REFUSED", ClientPhaseExitIfNeeded(group, rx), {}, {})}
    ELSE IF ~(intact /\ ClientCheckRxCtrnonce(group, m.ctrnonce, rx) /\ m.stk = group.currentStk)
    THEN {Outcome("REFUSED", group, {}, {})}
    ELSE ClientBuildMsgReq(
            ClientPhaseEnter(ClientUpdateCtrnonceAndRxTimestamp(group, m.ctrnonce, rx, FALSE)),
            rx, fresh)

ClientProcessReceivedSecuredFd(group, m, intact, rx) ==
    LET g          == ClientPhaseExitIfNeeded(group, rx)
        isPrevious == ClientIsPreviousSession(g, m.ctrnonce)
    IN  {IF ~ClientIsSessionEstablishedAndValid(g) THEN Outcome("NO_SESSION", g, {}, {})
         ELSE IF /\ intact
                 /\ ClientCheckRxCtrnonce(g, m.ctrnonce, rx)
                 /\ m.stk = ClientChooseStk(g, isPrevious)
         THEN Outcome("OK",
                      ClientUpdateCtrnonceAndRxTimestamp(g, m.ctrnonce, rx, isPrevious),
                      {}, {m})
         ELSE Outcome("REFUSED", g, {}, {})}

----------------------------------------------------------------------------
(* Transmission: always under the current key, also in a renewal phase *)

ClientBuildSecuredFd(group) ==
    {IF ClientIsSessionEstablishedAndValid(group)
     THEN Outcome("OK",
                  [group EXCEPT !.currentCtrNonce = Incremented(@)],
                  {Sadfd(OwnSid, group.currentStk, group.currentCtrNonce)}, {})
     ELSE Outcome("NO_SESSION", group, {}, {})}
=============================================================================
