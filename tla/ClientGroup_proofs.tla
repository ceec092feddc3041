------------------------- MODULE ClientGroup_proofs -------------------------
(***************************************************************************)
(* Proofs about ClientGroup, for every configuration of the Group, every   *)
(* size of the timestamp and of the counter nonce, every clock, and        *)
(* whatever fails: types, handshakes, keys and counter nonces.             *)
(***************************************************************************)
EXTENDS ClientGroup, Common_proofs, SequenceTheorems

Errors == {"OK", "REFUSED", "NO_SESSION", "ONGOING", "FAILED"}

\* The outcomes of the Client's handlers.
Outcomes == [err : Errors, group : ClientGroupState, out : SUBSET Pdus, sdu : SUBSET Sdus]

USE TimestampDomainSizeAssumption, MaxCtrnonceAssumption, MaxStkAssumption, MaxReqnonceAssumption

----------------------------------------------------------------------------
(* Every handler returns well-formed outcomes *)

\* The state hzl_ClientInit leaves.
LEMMA ClearedType == ClientClearedState \in ClientGroupState
BY Zeros DEF ClientClearedState, ClientGroupState, NotExpectingAResponse, Reqnonce, NoStk

\* Closing the renewal phase.
LEMMA ExitIfNeededType ==
    ASSUME NEW g \in ClientGroupState, NEW t
    PROVE  ClientPhaseExitIfNeeded(g, t) \in ClientGroupState
BY Zeros DEF ClientPhaseExitIfNeeded, ClientGroupState, NoStk

\* Opening it.
LEMMA EnterType ==
    ASSUME NEW g \in ClientGroupState
    PROVE  ClientPhaseEnter(g) \in ClientGroupState
BY DEF ClientPhaseEnter, ClientGroupState

\* Recording a secured message, in either Session.
LEMMA UpdateType ==
    ASSUME NEW g \in ClientGroupState, NEW t \in Timestamp, NEW c \in Ctrnonce,
           NEW isPrevious \in BOOLEAN
    PROVE  ClientUpdateCtrnonceAndRxTimestamp(g, c, t, isPrevious) \in ClientGroupState
<1>1. [g EXCEPT !.previousCtrNonce = Advanced(@, c),
                !.previousRxLastMessageInstant = t] \in ClientGroupState
  BY AdvancedType DEF ClientGroupState
<1>2. [g EXCEPT !.currentCtrNonce = Advanced(@, c),
                !.currentRxLastMessageInstant = t] \in ClientGroupState
  BY AdvancedType DEF ClientGroupState
<1> QED BY <1>1, <1>2 DEF ClientUpdateCtrnonceAndRxTimestamp

\* Building a Request: either it is sent and written down, or nothing is.
LEMMA BuildMsgReqCases ==
    ASSUME NEW g \in ClientGroupState, NEW t \in Timestamp, NEW fresh \in Nat \ {0},
           NEW o \in ClientBuildMsgReq(g, t, fresh)
    PROVE  \/ /\ fresh \in Reqnonce
              /\ o = Outcome("OK", [g EXCEPT !.requestNonce = fresh,
                                             !.lastHandshakeEventInstant = t],
                             {Req(OwnSid, fresh)}, {})
           \/ o = Outcome("FAILED", g, {}, {})
BY DEF ClientBuildMsgReq

LEMMA BuildMsgReqType ==
    ASSUME NEW g \in ClientGroupState, NEW t \in Timestamp, NEW fresh \in Nat \ {0},
           NEW o \in ClientBuildMsgReq(g, t, fresh)
    PROVE  o \in Outcomes
<1>1. CASE /\ fresh \in Reqnonce
           /\ o = Outcome("OK", [g EXCEPT !.requestNonce = fresh,
                                          !.lastHandshakeEventInstant = t],
                          {Req(OwnSid, fresh)}, {})
  <2>1. [g EXCEPT !.requestNonce = fresh, !.lastHandshakeEventInstant = t] \in ClientGroupState
    BY <1>1 DEF ClientGroupState
  <2>2. {Req(OwnSid, fresh)} \subseteq Pdus
    BY <1>1 DEF Pdus
  <2> QED BY <1>1, <2>1, <2>2 DEF Outcome, Outcomes, Errors
<1>2. CASE o = Outcome("FAILED", g, {}, {})
  BY <1>2 DEF Outcome, Outcomes, Errors
<1> QED BY <1>1, <1>2, BuildMsgReqCases

\* hzl_ClientBuildRequest.
LEMMA BuildRequestType ==
    ASSUME NEW g \in ClientGroupState, NEW t \in Timestamp, NEW fresh \in Nat \ {0},
           NEW o \in ClientBuildRequest(g, t, fresh)
    PROVE  o \in Outcomes
BY BuildMsgReqType DEF ClientBuildRequest, Outcome, Outcomes, Errors

\* Processing a Response.
LEMMA ResponseType ==
    ASSUME NEW g \in ClientGroupState, NEW t \in Timestamp, NEW intact \in BOOLEAN,
           NEW client, NEW n, NEW k \in Stk, NEW c \in Ctrnonce,
           NEW o \in ClientProcessReceivedResponse(g, Res(client, n, k, c), intact, t)
    PROVE  o \in Outcomes
<1> DEFINE received == [ClientSessionReceived(g, Res(client, n, k, c), t) EXCEPT
                            !.requestNonce = NotExpectingAResponse]
<1>0. Res(client, n, k, c).stk = k /\ Res(client, n, k, c).ctrnonce = c
  BY DEF Res
<1>1. received \in ClientGroupState
  <2>1. ClientSessionReceived(g, Res(client, n, k, c), t) \in ClientGroupState
    BY <1>0 DEF ClientSessionReceived, ClientGroupState
  <2>2. NotExpectingAResponse \in Reqnonce
    BY DEF NotExpectingAResponse, Reqnonce
  <2> QED BY <2>1, <2>2 DEF ClientGroupState
<1>2. o \in {Outcome("OK", received, {}, {}), Outcome("REFUSED", g, {}, {})}
  BY DEF ClientProcessReceivedResponse
<1> HIDE DEF received
<1> QED BY <1>1, <1>2 DEF Outcome, Outcomes, Errors

\* Processing a Renewal notification.
LEMMA RenewalType ==
    ASSUME NEW g \in ClientGroupState, NEW t \in Timestamp, NEW intact \in BOOLEAN,
           NEW k \in Stk, NEW c \in Ctrnonce, NEW fresh \in Nat \ {0},
           NEW o \in ClientProcessReceivedRenewal(g, Ren(k, c), intact, t, fresh)
    PROVE  o \in Outcomes
<1> DEFINE entered == ClientPhaseEnter(ClientUpdateCtrnonceAndRxTimestamp(g, c, t, FALSE))
<1>1. entered \in ClientGroupState
  BY UpdateType, EnterType
<1>2. Ren(k, c).ctrnonce = c
  BY DEF Ren
<1>3. \/ o = Outcome("NO_SESSION", g, {}, {})
      \/ o = Outcome("REFUSED", ClientPhaseExitIfNeeded(g, t), {}, {})
      \/ o = Outcome("REFUSED", g, {}, {})
      \/ o \in ClientBuildMsgReq(entered, t, fresh)
  BY <1>2 DEF ClientProcessReceivedRenewal
<1>4. o \in ClientBuildMsgReq(entered, t, fresh) => o \in Outcomes
  BY <1>1, BuildMsgReqType
<1>5. ClientPhaseExitIfNeeded(g, t) \in ClientGroupState
  BY ExitIfNeededType
<1> HIDE DEF entered
<1> QED BY <1>3, <1>4, <1>5 DEF Outcome, Outcomes, Errors

\* Processing a secured message, refused or accepted.
LEMMA SecuredFdCases ==
    ASSUME NEW g \in ClientGroupState, NEW t \in Timestamp, NEW intact \in BOOLEAN,
           NEW k \in Stk, NEW c \in Ctrnonce,
           NEW o \in ClientProcessReceivedSecuredFd(g, Sadfd(0, k, c), intact, t)
    PROVE  LET exited     == ClientPhaseExitIfNeeded(g, t)
               isPrevious == ClientIsPreviousSession(exited, c)
           IN  \/ o = Outcome("NO_SESSION", exited, {}, {})
               \/ o = Outcome("REFUSED", exited, {}, {})
               \/ /\ ClientCheckRxCtrnonce(exited, c, t)
                  /\ k = ClientChooseStk(exited, isPrevious)
                  /\ o = Outcome("OK",
                                 ClientUpdateCtrnonceAndRxTimestamp(exited, c, t, isPrevious),
                                 {}, {Sadfd(0, k, c)})
<1>1. Sadfd(0, k, c).ctrnonce = c /\ Sadfd(0, k, c).stk = k
  BY DEF Sadfd
<1> QED BY <1>1 DEF ClientProcessReceivedSecuredFd

LEMMA SecuredFdType ==
    ASSUME NEW g \in ClientGroupState, NEW t \in Timestamp, NEW intact \in BOOLEAN,
           NEW k \in Stk, NEW c \in Ctrnonce,
           NEW o \in ClientProcessReceivedSecuredFd(g, Sadfd(0, k, c), intact, t)
    PROVE  o \in Outcomes
<1> DEFINE exited     == ClientPhaseExitIfNeeded(g, t)
           isPrevious == ClientIsPreviousSession(exited, c)
           received   == ClientUpdateCtrnonceAndRxTimestamp(exited, c, t, isPrevious)
<1>1. exited \in ClientGroupState
  BY ExitIfNeededType
<1>2. received \in ClientGroupState
  BY <1>1, UpdateType DEF ClientIsPreviousSession
<1>3. Sadfd(0, k, c) \in Sdus
  BY DEF Sdus
<1>4. \/ o = Outcome("NO_SESSION", exited, {}, {})
      \/ o = Outcome("REFUSED", exited, {}, {})
      \/ o = Outcome("OK", received, {}, {Sadfd(0, k, c)})
  BY SecuredFdCases
<1> HIDE DEF exited, received
<1> QED BY <1>1, <1>2, <1>3, <1>4 DEF Outcome, Outcomes, Errors

\* Building a secured message.
LEMMA BuildSecuredFdType ==
    ASSUME NEW g \in ClientGroupState, NEW o \in ClientBuildSecuredFd(g)
    PROVE  o \in Outcomes
<1>1. g.currentCtrNonce \in Ctrnonce /\ g.currentStk \in Stk
  BY DEF ClientGroupState
<1>2. [g EXCEPT !.currentCtrNonce = Incremented(@)] \in ClientGroupState
  BY <1>1, IncrementedType DEF ClientGroupState
<1>3. {Sadfd(OwnSid, g.currentStk, g.currentCtrNonce)} \subseteq Pdus
  BY <1>1 DEF Pdus
<1> QED BY <1>2, <1>3 DEF ClientBuildSecuredFd, Outcome, Outcomes, Errors

----------------------------------------------------------------------------
(* Type correctness *)

\* The types hold after hzl_ClientInit.
LEMMA TypeInit == Init => TypeOK
<1> SUFFICES ASSUME Init PROVE TypeOK
  OBVIOUS
<1>1. now \in Timestamp /\ requestedAt \in Timestamp
  BY Zeros DEF Init
<1>2. group \in ClientGroupState
  BY ClearedType DEF Init
<1>3. ret \in Returns
  BY DEF Init, Nothing, Returns
<1>4. issued \in 1 .. MaxStk /\ asked \in Seq(1 .. MaxStk)
  BY DEF Init
<1> QED BY <1>1, <1>2, <1>3, <1>4 DEF Init, TypeOK

\* What every call has in common keeps the types.
LEMMA ReturnType ==
    ASSUME TypeOK, NEW o \in Outcomes, Return(o)
    PROVE  /\ now' = now
           /\ issued' = issued
           /\ group' \in ClientGroupState
           /\ ret' \in Returns
           /\ asked' \in Seq(1 .. MaxStk)
           /\ requestedAt' \in Timestamp
<1>1. o.group \in ClientGroupState
  BY DEF Outcomes
<1>2. ret' \in Returns
  BY DEF Return, Outcomes, Returns, Errors
<1>3. asked' \in Seq(1 .. MaxStk)
  BY DEF Return, TypeOK
<1> QED BY <1>1, <1>2, <1>3 DEF Return, TypeOK

\* The number of the next Request.
LEMMA NextRequest == TypeOK => Len(asked) \in Nat /\ Len(asked) + 1 \in Nat \ {0}
BY LenProperties DEF TypeOK

\* Keys the environment uses are keys.
LEMMA IssuedAreStk ==
    ASSUME TypeOK
    PROVE  /\ 1 .. issued - 1 \subseteq Stk
           /\ 1 .. issued \subseteq Stk
           /\ \A n \in 1 .. Len(asked) : asked[n] \in 1 .. MaxStk /\ asked[n] .. issued \subseteq Stk
<1>1. \A n \in 1 .. Len(asked) : asked[n] \in 1 .. MaxStk
  BY ElementOfSeq DEF TypeOK
<1>2. issued \in 1 .. MaxStk
  BY DEF TypeOK
<1> QED BY <1>1, <1>2 DEF Stk

\* Every call, and the clock, keeps the types.
LEMMA TypeStep == TypeOK /\ [Next]_vars => TypeOK'
<1> SUFFICES ASSUME TypeOK, [Next]_vars
             PROVE  TypeOK'
  OBVIOUS
<1>0. /\ group \in ClientGroupState
      /\ now \in Timestamp
      /\ answered \in BOOLEAN
      /\ issued \in 1 .. MaxStk
      /\ sent \subseteq Ctrnonce
      /\ heard \subseteq Ctrnonce
  BY DEF TypeOK
<1>1. CASE Tick
  <2>1. PICK d \in ClockSteps : now' = (now + d) % TimestampDomainSize
    BY <1>1 DEF Tick
  <2>2. now' \in Timestamp
    BY <1>0, <2>1, LaterIsTimestamp, ClockStepsAssumption DEF Timestamp
  <2>3. ret' \in Returns
    BY <1>1 DEF Tick, Nothing, Returns
  <2> QED BY <1>1, <2>2, <2>3 DEF Tick, TypeOK
<1>2. CASE ServerRenews
  <2>1. issued' \in 1 .. MaxStk
    BY <1>0, <1>2 DEF ServerRenews
  <2>2. ret' \in Returns
    BY <1>2 DEF ServerRenews, Nothing, Returns
  <2> QED BY <1>2, <2>1, <2>2 DEF ServerRenews, TypeOK
<1>3. CASE Restart
  <2> DEFINE o == Outcome("OK", ClientClearedState, {}, {})
  <2>1. o \in Outcomes
    BY ClearedType DEF Outcome, Outcomes, Errors
  <2>2. Return(o) /\ sent' = {} /\ heard' = {} /\ answered' = TRUE
    BY <1>3 DEF Restart
  <2> HIDE DEF o
  <2> QED BY <1>0, <2>1, <2>2, ReturnType DEF TypeOK
<1>4. CASE BuildRequest
  <2>1. PICK o \in ClientBuildRequest(group, now, Len(asked) + 1) :
          Return(o) /\ UNCHANGED <<sent, heard, answered>>
    BY <1>4 DEF BuildRequest
  <2>2. o \in Outcomes
    BY <1>0, BuildRequestType, NextRequest
  <2> QED BY <1>0, <2>1, <2>2, ReturnType DEF TypeOK
<1>5. CASE ReceiveResponse
  <2>1. PICK n \in 1 .. Len(asked), client \in {OwnSid, OwnSid + 1},
             ctrnonce \in Ctrnonce, intact \in BOOLEAN :
          \E stk \in asked[n] .. issued :
            \E o \in ClientProcessReceivedResponse(
                        group, Res(client, n, stk, ctrnonce), intact, now) :
                /\ Return(o)
                /\ sent' = IF o.err = "OK" THEN {} ELSE sent
                /\ heard' = IF o.err = "OK" THEN UpTo({ctrnonce - 1}) ELSE heard
                /\ answered' = (answered \/ o.err = "OK")
    BY <1>5 DEF ReceiveResponse
  <2>2. PICK stk \in asked[n] .. issued :
          \E o \in ClientProcessReceivedResponse(
                        group, Res(client, n, stk, ctrnonce), intact, now) :
                /\ Return(o)
                /\ sent' = IF o.err = "OK" THEN {} ELSE sent
                /\ heard' = IF o.err = "OK" THEN UpTo({ctrnonce - 1}) ELSE heard
                /\ answered' = (answered \/ o.err = "OK")
    BY <2>1
  <2>3. PICK o \in ClientProcessReceivedResponse(
                        group, Res(client, n, stk, ctrnonce), intact, now) :
                /\ Return(o)
                /\ sent' = IF o.err = "OK" THEN {} ELSE sent
                /\ heard' = IF o.err = "OK" THEN UpTo({ctrnonce - 1}) ELSE heard
                /\ answered' = (answered \/ o.err = "OK")
    BY <2>2
  <2>4. stk \in Stk
    BY <2>2, IssuedAreStk
  <2>5. o \in Outcomes
    BY <1>0, <2>4, ResponseType
  <2>6. sent' \subseteq Ctrnonce /\ heard' \subseteq Ctrnonce /\ answered' \in BOOLEAN
    BY <1>0, <2>3 DEF UpTo
  <2> QED BY <1>0, <2>3, <2>5, <2>6, ReturnType DEF TypeOK
<1>6. CASE ReceiveRenewal
  <2>1. PICK stk \in 1 .. issued - 1, ctrnonce \in Ctrnonce, intact \in BOOLEAN :
          \E o \in ClientProcessReceivedRenewal(
                      group, Ren(stk, ctrnonce), intact, now, Len(asked) + 1) :
              /\ Return(o)
              /\ answered' = (answered /\ o.err \in {"REFUSED", "NO_SESSION"})
              /\ UNCHANGED <<sent, heard>>
    BY <1>6 DEF ReceiveRenewal
  <2>2. PICK o \in ClientProcessReceivedRenewal(
                      group, Ren(stk, ctrnonce), intact, now, Len(asked) + 1) :
              /\ Return(o)
              /\ answered' = (answered /\ o.err \in {"REFUSED", "NO_SESSION"})
              /\ UNCHANGED <<sent, heard>>
    BY <2>1
  <2>3. o \in Outcomes
    BY <1>0, RenewalType, NextRequest, IssuedAreStk
  <2>4. answered' \in BOOLEAN
    BY <2>2
  <2> QED BY <1>0, <2>2, <2>3, <2>4, ReturnType DEF TypeOK
<1>7. CASE ReceiveSecuredFd
  <2>1. PICK stk \in 1 .. issued, ctrnonce \in Ctrnonce, intact \in BOOLEAN :
          \E o \in ClientProcessReceivedSecuredFd(
                      group, Sadfd(0, stk, ctrnonce), intact, now) :
              /\ Return(o)
              /\ heard' = heard \cup UpTo({m.ctrnonce : m \in {x \in o.sdu : x.stk = group.currentStk}})
              /\ UNCHANGED <<sent, answered>>
    BY <1>7 DEF ReceiveSecuredFd
  <2>2. PICK o \in ClientProcessReceivedSecuredFd(
                      group, Sadfd(0, stk, ctrnonce), intact, now) :
              /\ Return(o)
              /\ heard' = heard \cup UpTo({m.ctrnonce : m \in {x \in o.sdu : x.stk = group.currentStk}})
              /\ UNCHANGED <<sent, answered>>
    BY <2>1
  <2>3. o \in Outcomes
    BY <1>0, SecuredFdType, IssuedAreStk
  <2>4. heard' \subseteq Ctrnonce
    BY <1>0, <2>2 DEF UpTo
  <2> QED BY <1>0, <2>2, <2>3, <2>4, ReturnType DEF TypeOK
<1>8. CASE BuildSecuredFd
  <2>1. PICK o \in ClientBuildSecuredFd(group) :
          /\ Return(o)
          /\ sent' = sent \cup UpTo({m.ctrnonce : m \in o.out})
          /\ UNCHANGED <<heard, answered>>
    BY <1>8 DEF BuildSecuredFd
  <2>2. o \in Outcomes
    BY <1>0, BuildSecuredFdType
  <2>3. sent' \subseteq Ctrnonce
    BY <1>0, <2>1 DEF UpTo
  <2> QED BY <1>0, <2>1, <2>2, <2>3, ReturnType DEF TypeOK
<1>9. CASE UNCHANGED vars
  BY <1>9 DEF vars, TypeOK
<1> QED
  BY <1>1, <1>2, <1>3, <1>4, <1>5, <1>6, <1>7, <1>8, <1>9 DEF Next

\* No call of the Client, whatever fails, lets a field of the Group's state
\* leave the range of its C type.
THEOREM TypeCorrect == Spec => []TypeOK
<1> QED BY TypeInit, TypeStep, PTL DEF Spec

----------------------------------------------------------------------------
(* Handshakes, keys and counter nonces *)

\* The last Request is timed by the field the timeout is counted from.
HandshakeIsTimed ==
    group.requestNonce # NotExpectingAResponse =>
        requestedAt = group.lastHandshakeEventInstant

\* The key is one the Server has opened, and the Response to the last Request
\* can only carry the same or a later one.
KeysAscend ==
    /\ group.currentStk <= issued
    /\ group.requestNonce # NotExpectingAResponse =>
        /\ group.requestNonce \in 1 .. Len(asked)
        /\ group.currentStk <= asked[group.requestNonce]

\* In a renewal phase the old key is not the Server's anymore; the key is a
\* later one after the Response, and will be until then.
PhaseAscends ==
    ClientPhaseIsActive(group) =>
        /\ group.previousStk < issued
        /\ group.requestNonce # NotExpectingAResponse =>
            group.previousStk < asked[group.requestNonce]
        /\ answered => group.previousStk < group.currentStk

\* The counter nonces used since the Response are below the current one.
NoncesAscend ==
    /\ \A c \in sent : c < group.currentCtrNonce
    /\ answered => \A c \in heard : c < group.currentCtrNonce

Ordered == HandshakeIsTimed /\ KeysAscend /\ PhaseAscends /\ NoncesAscend

----------------------------------------------------------------------------
(* What the handlers do to the handshake, the keys and the counter nonces *)

\* A Request is one, a secured message is not.
LEMMA OnlyReqIsRequest ==
    /\ Requests({}) = {}
    /\ \A n : Requests({Req(OwnSid, n)}) # {}
    /\ \A k, c : Requests({Sadfd(OwnSid, k, c)}) = {}
<1>1. Requests({}) = {}
  BY DEF Requests
<1>2. ASSUME NEW n PROVE Req(OwnSid, n) \in Requests({Req(OwnSid, n)})
  BY DEF Requests, Req
<1>3. ASSUME NEW k, NEW c PROVE Requests({Sadfd(OwnSid, k, c)}) = {}
  <2>1. Sadfd(OwnSid, k, c).pty = "SADFD"
    BY DEF Sadfd
  <2> QED BY <2>1 DEF Requests
<1> QED BY <1>1, <1>2, <1>3

\* The phase may be closed, nothing else changes.
LEMMA ExitEffect ==
    ASSUME NEW g \in ClientGroupState, NEW t
    PROVE  LET e == ClientPhaseExitIfNeeded(g, t)
           IN  /\ e.currentStk = g.currentStk
               /\ e.currentCtrNonce = g.currentCtrNonce
               /\ e.currentRxLastMessageInstant = g.currentRxLastMessageInstant
               /\ e.requestNonce = g.requestNonce
               /\ e.lastHandshakeEventInstant = g.lastHandshakeEventInstant
               /\ e.previousStk \in {g.previousStk, NoStk}
BY DEF ClientPhaseExitIfNeeded, ClientGroupState

LEMMA MsgReqEffect ==
    ASSUME NEW g \in ClientGroupState, NEW t \in Timestamp, NEW fresh \in Nat \ {0},
           NEW o \in ClientBuildMsgReq(g, t, fresh)
    PROVE  /\ o.group.currentStk = g.currentStk
           /\ o.group.previousStk = g.previousStk
           /\ o.group.currentCtrNonce = g.currentCtrNonce
           /\ o.sdu = {}
           /\ o.err \in {"OK", "FAILED"}
           /\ \/ o.out = {} /\ o.group = g
              \/ /\ o.out = {Req(OwnSid, fresh)}
                 /\ o.group.requestNonce = fresh
                 /\ o.group.lastHandshakeEventInstant = t
<1>1. CASE o = Outcome("FAILED", g, {}, {})
  BY <1>1 DEF Outcome
<1>2. CASE o = Outcome("OK", [g EXCEPT !.requestNonce = fresh,
                                       !.lastHandshakeEventInstant = t],
                       {Req(OwnSid, fresh)}, {})
  BY <1>2 DEF Outcome, ClientGroupState
<1> QED BY <1>1, <1>2, BuildMsgReqCases

LEMMA RequestEffect ==
    ASSUME NEW g \in ClientGroupState, NEW t \in Timestamp, NEW fresh \in Nat \ {0},
           NEW o \in ClientBuildRequest(g, t, fresh)
    PROVE  /\ o.group.currentStk = g.currentStk
           /\ o.group.previousStk = g.previousStk
           /\ o.group.currentCtrNonce = g.currentCtrNonce
           /\ o.sdu = {}
           /\ \/ o.out = {} /\ o.group = g
              \/ /\ o.out = {Req(OwnSid, fresh)}
                 /\ o.group.requestNonce = fresh
                 /\ o.group.lastHandshakeEventInstant = t
                 /\ ~ClientIsAHandshakeOngoing(g, t)
<1>1. CASE o \in ClientBuildMsgReq(g, t, fresh) /\ ~ClientIsAHandshakeOngoing(g, t)
  BY <1>1, MsgReqEffect
<1>2. CASE o = Outcome("FAILED", g, {}, {}) \/ o = Outcome("ONGOING", g, {}, {})
  BY <1>2 DEF Outcome
<1> QED BY <1>1, <1>2 DEF ClientBuildRequest

LEMMA ResponseEffect ==
    ASSUME NEW g \in ClientGroupState, NEW t \in Timestamp, NEW intact \in BOOLEAN,
           NEW client \in Nat, NEW n \in Nat, NEW k \in Stk, NEW c \in Ctrnonce,
           NEW o \in ClientProcessReceivedResponse(g, Res(client, n, k, c), intact, t)
    PROVE  /\ o.out = {} /\ o.sdu = {}
           /\ \/ o.err # "OK" /\ o.group = g
              \/ /\ o.err = "OK"
                 /\ n = g.requestNonce
                 /\ g.requestNonce # NotExpectingAResponse
                 /\ o.group.requestNonce = NotExpectingAResponse
                 /\ o.group.currentStk = k
                 /\ o.group.previousStk = g.previousStk
                 /\ o.group.currentCtrNonce = c
<1> DEFINE m == Res(client, n, k, c)
<1>1. m.reqnonce = n /\ m.stk = k /\ m.ctrnonce = c
  BY DEF Res
<1>2. CASE ClientIsResponseValid(g, m, intact, t) /\ m.reqnonce = g.requestNonce
  <2>1. o = Outcome("OK", [ClientSessionReceived(g, m, t) EXCEPT
                              !.requestNonce = NotExpectingAResponse], {}, {})
    BY <1>2 DEF ClientProcessReceivedResponse
  <2>2. g.requestNonce # NotExpectingAResponse
    BY <1>2 DEF ClientIsResponseValid, ClientIsResponseAcceptable
  <2> QED
    BY <1>1, <1>2, <2>1, <2>2 DEF Outcome, ClientSessionReceived, ClientGroupState
<1>3. CASE ~(ClientIsResponseValid(g, m, intact, t) /\ m.reqnonce = g.requestNonce)
  <2>1. o = Outcome("REFUSED", g, {}, {})
    BY <1>3 DEF ClientProcessReceivedResponse
  <2> QED BY <2>1 DEF Outcome
<1> QED BY <1>2, <1>3

LEMMA RenewalEffect ==
    ASSUME NEW g \in ClientGroupState, NEW t \in Timestamp, NEW intact \in BOOLEAN,
           NEW k \in Stk, NEW c \in Ctrnonce, NEW fresh \in Nat \ {0},
           NEW o \in ClientProcessReceivedRenewal(g, Ren(k, c), intact, t, fresh)
    PROVE  /\ o.group.currentStk = g.currentStk
           /\ o.group.currentCtrNonce >= g.currentCtrNonce
           /\ o.sdu = {}
           /\ \/ /\ o.err \in {"NO_SESSION", "REFUSED"}
                 /\ o.out = {}
                 /\ o.group.requestNonce = g.requestNonce
                 /\ o.group.lastHandshakeEventInstant = g.lastHandshakeEventInstant
                 /\ o.group.previousStk \in {g.previousStk, NoStk}
              \/ /\ o.err \in {"OK", "FAILED"}
                 /\ k = g.currentStk
                 /\ g.requestNonce = NotExpectingAResponse
                 /\ o.group.previousStk = g.currentStk
                 /\ \/ o.out = {} /\ o.group.requestNonce = NotExpectingAResponse
                    \/ /\ o.out = {Req(OwnSid, fresh)}
                       /\ o.group.requestNonce = fresh
                       /\ o.group.lastHandshakeEventInstant = t
<1> DEFINE received == ClientUpdateCtrnonceAndRxTimestamp(g, c, t, FALSE)
           entered  == ClientPhaseEnter(received)
<1>1. Ren(k, c).ctrnonce = c /\ Ren(k, c).stk = k
  BY DEF Ren
<1>2. g.currentCtrNonce \in Ctrnonce /\ g.currentCtrNonce >= g.currentCtrNonce
  BY DEF ClientGroupState, Ctrnonce
<1>3. CASE o = Outcome("NO_SESSION", g, {}, {}) \/ o = Outcome("REFUSED", g, {}, {})
  BY <1>2, <1>3 DEF Outcome
<1>4. CASE o = Outcome("REFUSED", ClientPhaseExitIfNeeded(g, t), {}, {})
  BY <1>2, <1>4, ExitEffect DEF Outcome
<1>5. ASSUME o \in ClientBuildMsgReq(entered, t, fresh),
             ClientIsRenewalAcceptable(g), ClientCheckRxCtrnonce(g, c, t), k = g.currentStk
      PROVE  /\ o.group.currentStk = g.currentStk
             /\ o.group.currentCtrNonce >= g.currentCtrNonce
             /\ o.sdu = {}
             /\ o.err \in {"OK", "FAILED"}
             /\ g.requestNonce = NotExpectingAResponse
             /\ o.group.previousStk = g.currentStk
             /\ \/ o.out = {} /\ o.group.requestNonce = NotExpectingAResponse
                \/ /\ o.out = {Req(OwnSid, fresh)}
                   /\ o.group.requestNonce = fresh
                   /\ o.group.lastHandshakeEventInstant = t
  <2>1. received \in ClientGroupState /\ entered \in ClientGroupState
    BY UpdateType, EnterType
  <2>2. /\ received.currentStk = g.currentStk
        /\ received.requestNonce = g.requestNonce
        /\ received.currentCtrNonce = Advanced(g.currentCtrNonce, c)
    BY DEF ClientUpdateCtrnonceAndRxTimestamp, ClientGroupState
  <2>3. Advanced(g.currentCtrNonce, c) >= g.currentCtrNonce
    BY <1>2, <1>5, AdvancedIsLater DEF ClientCheckRxCtrnonce
  <2> HIDE DEF received
  <2>4. /\ entered.currentStk = received.currentStk
        /\ entered.previousStk = received.currentStk
        /\ entered.requestNonce = received.requestNonce
        /\ entered.currentCtrNonce = received.currentCtrNonce
    BY <2>1 DEF ClientPhaseEnter, ClientGroupState
  <2>5. g.requestNonce = NotExpectingAResponse
    BY <1>5 DEF ClientIsRenewalAcceptable
  <2> HIDE DEF entered
  <2> QED BY <1>5, <2>1, <2>2, <2>3, <2>4, <2>5, MsgReqEffect
<1> HIDE DEF entered
<1>6. \/ o = Outcome("NO_SESSION", g, {}, {}) \/ o = Outcome("REFUSED", g, {}, {})
      \/ o = Outcome("REFUSED", ClientPhaseExitIfNeeded(g, t), {}, {})
      \/ /\ o \in ClientBuildMsgReq(entered, t, fresh)
         /\ ClientIsRenewalAcceptable(g)
         /\ ClientCheckRxCtrnonce(g, c, t)
         /\ k = g.currentStk
  BY <1>1 DEF ClientProcessReceivedRenewal, entered
<1> QED BY <1>3, <1>4, <1>5, <1>6

LEMMA SecuredFdEffect ==
    ASSUME NEW g \in ClientGroupState, NEW t \in Timestamp, NEW intact \in BOOLEAN,
           NEW k \in Stk, NEW c \in Ctrnonce,
           NEW o \in ClientProcessReceivedSecuredFd(g, Sadfd(0, k, c), intact, t)
    PROVE  /\ o.out = {}
           /\ o.group.currentStk = g.currentStk
           /\ o.group.requestNonce = g.requestNonce
           /\ o.group.lastHandshakeEventInstant = g.lastHandshakeEventInstant
           /\ o.group.previousStk \in {g.previousStk, NoStk}
           /\ o.group.currentCtrNonce >= g.currentCtrNonce
           /\ \/ o.sdu = {}
              \/ /\ o.sdu = {Sadfd(0, k, c)}
                 /\ ClientPhaseIsActive(g) /\ k = g.previousStk
              \/ /\ o.sdu = {Sadfd(0, k, c)}
                 /\ k = g.currentStk
                 /\ o.group.currentCtrNonce > c
                 /\ c >= g.currentCtrNonce - CtrDelay(g.currentRxLastMessageInstant, t)
<1> DEFINE exited     == ClientPhaseExitIfNeeded(g, t)
           isPrevious == ClientIsPreviousSession(exited, c)
           received   == ClientUpdateCtrnonceAndRxTimestamp(exited, c, t, isPrevious)
<1>1. /\ exited \in ClientGroupState
      /\ exited.currentStk = g.currentStk
      /\ exited.currentCtrNonce = g.currentCtrNonce
      /\ exited.currentRxLastMessageInstant = g.currentRxLastMessageInstant
      /\ exited.requestNonce = g.requestNonce
      /\ exited.lastHandshakeEventInstant = g.lastHandshakeEventInstant
      /\ exited.previousStk \in {g.previousStk, NoStk}
  BY ExitEffect, ExitIfNeededType
<1>2. g.currentCtrNonce \in Ctrnonce /\ g.currentCtrNonce >= g.currentCtrNonce
  BY DEF ClientGroupState, Ctrnonce
<1>3. CASE o = Outcome("NO_SESSION", exited, {}, {}) \/ o = Outcome("REFUSED", exited, {}, {})
  <2> HIDE DEF exited
  <2> QED BY <1>1, <1>2, <1>3 DEF Outcome
<1>4. ASSUME ClientCheckRxCtrnonce(exited, c, t), isPrevious,
             k = ClientChooseStk(exited, isPrevious),
             o = Outcome("OK", received, {}, {Sadfd(0, k, c)})
      PROVE  /\ o.out = {}
             /\ o.group.currentStk = g.currentStk
             /\ o.group.requestNonce = g.requestNonce
             /\ o.group.lastHandshakeEventInstant = g.lastHandshakeEventInstant
             /\ o.group.previousStk \in {g.previousStk, NoStk}
             /\ o.group.currentCtrNonce >= g.currentCtrNonce
             /\ o.sdu = {Sadfd(0, k, c)}
             /\ ClientPhaseIsActive(g) /\ k = g.previousStk
  <2>1. exited.previousStk # NoStk
    BY <1>4 DEF ClientIsPreviousSession, ClientPhaseIsActive
  <2>2. k = exited.previousStk
    BY <1>4 DEF ClientChooseStk
  <2>3. received = [exited EXCEPT !.previousCtrNonce = Advanced(@, c),
                                  !.previousRxLastMessageInstant = t]
    BY <1>4 DEF ClientUpdateCtrnonceAndRxTimestamp
  <2>4. o.group = received /\ o.out = {} /\ o.sdu = {Sadfd(0, k, c)}
    BY <1>4 DEF Outcome
  <2> HIDE DEF exited, received
  <2>5. /\ received.currentStk = exited.currentStk
        /\ received.requestNonce = exited.requestNonce
        /\ received.lastHandshakeEventInstant = exited.lastHandshakeEventInstant
        /\ received.previousStk = exited.previousStk
        /\ received.currentCtrNonce = exited.currentCtrNonce
    BY <1>1, <2>3 DEF ClientGroupState
  <2>6. g.previousStk # NoStk /\ k = g.previousStk
    BY <1>1, <2>1, <2>2
  <2> QED BY <1>1, <1>2, <2>4, <2>5, <2>6 DEF ClientPhaseIsActive
<1>5. ASSUME ClientCheckRxCtrnonce(exited, c, t), ~isPrevious,
             k = ClientChooseStk(exited, isPrevious),
             o = Outcome("OK", received, {}, {Sadfd(0, k, c)})
      PROVE  /\ o.out = {}
             /\ o.group.currentStk = g.currentStk
             /\ o.group.requestNonce = g.requestNonce
             /\ o.group.lastHandshakeEventInstant = g.lastHandshakeEventInstant
             /\ o.group.previousStk \in {g.previousStk, NoStk}
             /\ o.group.currentCtrNonce >= g.currentCtrNonce
             /\ o.sdu = {Sadfd(0, k, c)}
             /\ k = g.currentStk
             /\ o.group.currentCtrNonce > c
             /\ c >= g.currentCtrNonce - CtrDelay(g.currentRxLastMessageInstant, t)
  <2>1. /\ ~CtrnonceIsExpired(c)
        /\ c >= exited.currentCtrNonce - CtrDelay(exited.currentRxLastMessageInstant, t)
    BY <1>5 DEF ClientCheckRxCtrnonce
  <2>2. k = exited.currentStk
    BY <1>5 DEF ClientChooseStk
  <2>3. received = [exited EXCEPT !.currentCtrNonce = Advanced(@, c),
                                  !.currentRxLastMessageInstant = t]
    BY <1>5 DEF ClientUpdateCtrnonceAndRxTimestamp
  <2>4. o.group = received /\ o.out = {} /\ o.sdu = {Sadfd(0, k, c)}
    BY <1>5 DEF Outcome
  <2> HIDE DEF exited, received
  <2>5. /\ received.currentStk = exited.currentStk
        /\ received.requestNonce = exited.requestNonce
        /\ received.lastHandshakeEventInstant = exited.lastHandshakeEventInstant
        /\ received.previousStk = exited.previousStk
        /\ received.currentCtrNonce = Advanced(exited.currentCtrNonce, c)
    BY <1>1, <2>3 DEF ClientGroupState
  <2>6. /\ Advanced(g.currentCtrNonce, c) >= g.currentCtrNonce
        /\ Advanced(g.currentCtrNonce, c) > c
    BY <1>2, <2>1, AdvancedIsLater
  <2> QED BY <1>1, <2>1, <2>2, <2>4, <2>5, <2>6
<1>6. \/ o = Outcome("NO_SESSION", exited, {}, {})
      \/ o = Outcome("REFUSED", exited, {}, {})
      \/ /\ ClientCheckRxCtrnonce(exited, c, t)
         /\ k = ClientChooseStk(exited, isPrevious)
         /\ o = Outcome("OK", received, {}, {Sadfd(0, k, c)})
  BY SecuredFdCases
<1> HIDE DEF exited, isPrevious, received
<1> QED BY <1>3, <1>4, <1>5, <1>6

LEMMA BuildEffect ==
    ASSUME NEW g \in ClientGroupState, NEW o \in ClientBuildSecuredFd(g)
    PROVE  /\ o.sdu = {}
           /\ \/ o.out = {} /\ o.group = g
              \/ /\ o.out = {Sadfd(OwnSid, g.currentStk, g.currentCtrNonce)}
                 /\ o.group = [g EXCEPT !.currentCtrNonce = g.currentCtrNonce + 1]
BY DEF ClientBuildSecuredFd, ClientIsSessionEstablishedAndValid, Incremented, Outcome

----------------------------------------------------------------------------
(* Every call keeps the order *)

LEMMA OrderedInit == Init => Ordered
<1> SUFFICES ASSUME Init PROVE Ordered
  OBVIOUS
<1>1. /\ group.requestNonce = NotExpectingAResponse
      /\ group.currentStk = 0
      /\ group.previousStk = NoStk
      /\ sent = {} /\ heard = {} /\ issued = 1
  BY DEF Init, ClientClearedState, NoStk
<1> QED
  BY <1>1 DEF Ordered, HandshakeIsTimed, KeysAscend, PhaseAscends, NoncesAscend,
              ClientPhaseIsActive

\* The types the steps below rest on.
LEMMA Typed ==
    ASSUME TypeOK
    PROVE  /\ group \in ClientGroupState
           /\ now \in Timestamp
           /\ issued \in Nat /\ 1 <= issued
           /\ Len(asked) \in Nat
           /\ \A n \in 1 .. Len(asked) : asked[n] \in Nat
           /\ group.currentStk \in Nat /\ group.previousStk \in Nat
           /\ group.currentCtrNonce \in Nat
           /\ group.requestNonce \in Nat
           /\ sent \subseteq Nat /\ heard \subseteq Nat
           /\ answered \in BOOLEAN
<1>1. \A n \in 1 .. Len(asked) : asked[n] \in Nat
  BY IssuedAreStk
<1> QED
  BY <1>1, NextRequest DEF TypeOK, ClientGroupState, Stk, Ctrnonce, Reqnonce

\* A call that builds no Request leaves the history of Requests alone.
LEMMA NoRequest ==
    ASSUME NEW o, Return(o), Requests(o.out) = {}
    PROVE  asked' = asked /\ requestedAt' = requestedAt /\ issued' = issued /\ group' = o.group
BY DEF Return

\* A call that builds one is asked for by the Session the Server has now.
LEMMA OneRequest ==
    ASSUME TypeOK, NEW o, NEW n, Return(o), o.out = {Req(OwnSid, n)}
    PROVE  /\ Len(asked') = Len(asked) + 1
           /\ asked'[Len(asked) + 1] = issued
           /\ requestedAt' = now
           /\ issued' = issued
           /\ group' = o.group
<1>1. asked' = Append(asked, issued) /\ requestedAt' = now
  BY OnlyReqIsRequest DEF Return
<1>2. asked \in Seq(1 .. MaxStk) /\ issued \in 1 .. MaxStk
  BY DEF TypeOK
<1> QED BY <1>1, <1>2, AppendProperties DEF Return

LEMMA RestartOrdered == TypeOK /\ Ordered /\ Restart => Ordered'
<1> SUFFICES ASSUME TypeOK, Ordered, Restart PROVE Ordered'
  OBVIOUS
<1>1. /\ group' = ClientClearedState
      /\ sent' = {} /\ heard' = {} /\ issued' = issued
  BY DEF Restart, Return, Outcome
<1>2. /\ group'.requestNonce = NotExpectingAResponse
      /\ group'.currentStk = 0
      /\ group'.previousStk = NoStk
  BY <1>1 DEF ClientClearedState, NoStk
<1> QED
  BY <1>1, <1>2, Typed DEF Ordered, HandshakeIsTimed, KeysAscend, PhaseAscends, NoncesAscend,
              ClientPhaseIsActive

LEMMA RequestOrdered == TypeOK /\ Ordered /\ BuildRequest => Ordered'
<1> SUFFICES ASSUME TypeOK, Ordered, BuildRequest PROVE Ordered'
  OBVIOUS
<1>1. PICK o \in ClientBuildRequest(group, now, Len(asked) + 1) :
        Return(o) /\ UNCHANGED <<sent, heard, answered>>
  BY DEF BuildRequest
<1>2. /\ o.group.currentStk = group.currentStk
      /\ o.group.previousStk = group.previousStk
      /\ o.group.currentCtrNonce = group.currentCtrNonce
      /\ \/ o.out = {} /\ o.group = group
         \/ /\ o.out = {Req(OwnSid, Len(asked) + 1)}
            /\ o.group.requestNonce = Len(asked) + 1
            /\ o.group.lastHandshakeEventInstant = now
  BY RequestEffect, NextRequest, Typed
<1>3. CASE o.out = {} /\ o.group = group
  BY <1>1, <1>3, NoRequest, OnlyReqIsRequest
  DEF Ordered, HandshakeIsTimed, KeysAscend, PhaseAscends, NoncesAscend, ClientPhaseIsActive
<1>4. CASE o.out = {Req(OwnSid, Len(asked) + 1)} /\ o.group # group
  <2>1. /\ Len(asked') = Len(asked) + 1
        /\ asked'[Len(asked) + 1] = issued
        /\ requestedAt' = now
        /\ issued' = issued
        /\ group' = o.group
    BY <1>1, <1>4, OneRequest
  <2> QED
    BY <1>1, <1>2, <1>4, <2>1, Typed
    DEF Ordered, HandshakeIsTimed, KeysAscend, PhaseAscends, NoncesAscend, ClientPhaseIsActive
<1>5. CASE o.out = {Req(OwnSid, Len(asked) + 1)} /\ o.group = group
  \* It cannot be: the nonce would be the number of a Request not built before.
  <2>1. group.requestNonce = Len(asked) + 1
    BY <1>2, <1>5, OnlyReqIsRequest
  <2> QED BY <2>1, Typed DEF Ordered, KeysAscend, NotExpectingAResponse
<1> QED BY <1>2, <1>3, <1>4, <1>5

LEMMA ResponseOrdered == TypeOK /\ Ordered /\ ReceiveResponse => Ordered'
<1> SUFFICES ASSUME TypeOK, Ordered, ReceiveResponse PROVE Ordered'
  OBVIOUS
<1> DEFINE Taken(o, ctrnonce) ==
                /\ Return(o)
                /\ sent' = IF o.err = "OK" THEN {} ELSE sent
                /\ heard' = IF o.err = "OK" THEN UpTo({ctrnonce - 1}) ELSE heard
                /\ answered' = (answered \/ o.err = "OK")
<1>1. PICK n \in 1 .. Len(asked), client \in {OwnSid, OwnSid + 1},
           ctrnonce \in Ctrnonce, intact \in BOOLEAN :
        \E stk \in asked[n] .. issued :
            \E o \in ClientProcessReceivedResponse(
                        group, Res(client, n, stk, ctrnonce), intact, now) : Taken(o, ctrnonce)
  BY DEF ReceiveResponse
<1>2. PICK stk \in asked[n] .. issued :
        \E o \in ClientProcessReceivedResponse(
                    group, Res(client, n, stk, ctrnonce), intact, now) : Taken(o, ctrnonce)
  BY <1>1
<1>3. PICK o \in ClientProcessReceivedResponse(
                    group, Res(client, n, stk, ctrnonce), intact, now) : Taken(o, ctrnonce)
  BY <1>2
<1>4. stk \in Stk /\ ctrnonce \in Nat
  BY IssuedAreStk DEF Ctrnonce
<1>5. /\ o.out = {}
      /\ \/ o.err # "OK" /\ o.group = group
         \/ /\ o.err = "OK"
            /\ n = group.requestNonce
            /\ group.requestNonce # NotExpectingAResponse
            /\ o.group.requestNonce = NotExpectingAResponse
            /\ o.group.currentStk = stk
            /\ o.group.previousStk = group.previousStk
            /\ o.group.currentCtrNonce = ctrnonce
  <2>1. group \in ClientGroupState /\ now \in Timestamp /\ stk \in Stk /\ intact \in BOOLEAN
    BY <1>4, Typed
  <2>3. n \in Nat /\ client \in Nat
    BY OwnSidAssumption, Typed
  <2>2. /\ ctrnonce \in Ctrnonce
        /\ o \in ClientProcessReceivedResponse(
                    group, Res(client, n, stk, ctrnonce), intact, now)
    BY <1>3
  <2> HIDE DEF Taken
  <2> QED BY <2>1, <2>2, <2>3, ResponseEffect
<1>6. asked' = asked /\ requestedAt' = requestedAt /\ issued' = issued /\ group' = o.group
  BY <1>3, <1>5, NoRequest, OnlyReqIsRequest
<1>7. CASE o.err # "OK" /\ o.group = group
  BY <1>3, <1>6, <1>7
  DEF Ordered, HandshakeIsTimed, KeysAscend, PhaseAscends, NoncesAscend, ClientPhaseIsActive
<1>8. CASE o.err = "OK"
  <2>1. group'.requestNonce = NotExpectingAResponse
    BY <1>5, <1>6, <1>8
  <2>2. stk \in Nat /\ asked[n] <= stk /\ stk <= issued
    BY <1>3, <1>4, Typed DEF Stk
  <2>3. KeysAscend'
    BY <1>5, <1>6, <1>8, <2>1, <2>2 DEF KeysAscend
  <2>4. ClientPhaseIsActive(group') => group.previousStk < stk
    <3>1. ASSUME ClientPhaseIsActive(group') PROVE group.previousStk < stk
      <4>1. ClientPhaseIsActive(group)
        BY <1>5, <1>6, <1>8, <3>1 DEF ClientPhaseIsActive
      <4>2. group.previousStk < asked[n] /\ asked[n] \in Nat
        BY <1>3, <1>5, <1>8, <4>1, Typed DEF Ordered, PhaseAscends
      <4> QED BY <2>2, <4>2, Typed
    <3> QED BY <3>1
  <2>5. PhaseAscends'
    BY <1>5, <1>6, <1>8, <2>1, <2>4 DEF Ordered, PhaseAscends, ClientPhaseIsActive
  <2>6. \A c \in heard' : c < ctrnonce
    BY <1>3, <1>4, <1>8 DEF UpTo, Ctrnonce
  <2>7. NoncesAscend'
    BY <1>3, <1>5, <1>6, <1>8, <2>6 DEF NoncesAscend
  <2> QED BY <2>1, <2>3, <2>5, <2>7 DEF Ordered, HandshakeIsTimed
<1> QED BY <1>5, <1>7, <1>8

LEMMA RenewalOrdered == TypeOK /\ Ordered /\ ReceiveRenewal => Ordered'
<1> SUFFICES ASSUME TypeOK, Ordered, ReceiveRenewal PROVE Ordered'
  OBVIOUS
<1>1. PICK stk \in 1 .. issued - 1, ctrnonce \in Ctrnonce, intact \in BOOLEAN :
        \E o \in ClientProcessReceivedRenewal(
                    group, Ren(stk, ctrnonce), intact, now, Len(asked) + 1) :
            /\ Return(o)
            /\ answered' = (answered /\ o.err \in {"REFUSED", "NO_SESSION"})
            /\ UNCHANGED <<sent, heard>>
  BY DEF ReceiveRenewal
<1>2. PICK o \in ClientProcessReceivedRenewal(
                    group, Ren(stk, ctrnonce), intact, now, Len(asked) + 1) :
            /\ Return(o)
            /\ answered' = (answered /\ o.err \in {"REFUSED", "NO_SESSION"})
            /\ UNCHANGED <<sent, heard>>
  BY <1>1
<1>3. stk \in Stk /\ stk < issued /\ stk \in Nat
  <2>1. issued \in Nat /\ 1 .. issued - 1 \subseteq Stk
    BY IssuedAreStk, Typed
  <2> QED BY <2>1
<1>4. /\ o.group.currentStk = group.currentStk
      /\ o.group.currentCtrNonce >= group.currentCtrNonce
      /\ \/ /\ o.err \in {"NO_SESSION", "REFUSED"}
            /\ o.out = {}
            /\ o.group.requestNonce = group.requestNonce
            /\ o.group.lastHandshakeEventInstant = group.lastHandshakeEventInstant
            /\ o.group.previousStk \in {group.previousStk, NoStk}
         \/ /\ o.err \in {"OK", "FAILED"}
            /\ stk = group.currentStk
            /\ group.requestNonce = NotExpectingAResponse
            /\ o.group.previousStk = group.currentStk
            /\ \/ o.out = {} /\ o.group.requestNonce = NotExpectingAResponse
               \/ /\ o.out = {Req(OwnSid, Len(asked) + 1)}
                  /\ o.group.requestNonce = Len(asked) + 1
                  /\ o.group.lastHandshakeEventInstant = now
  BY <1>3, RenewalEffect, NextRequest, Typed
<1>5. o.group \in ClientGroupState /\ o.group.currentCtrNonce \in Nat
  <2>1. o \in Outcomes
    BY <1>3, RenewalType, NextRequest, Typed
  <2> QED BY <2>1 DEF Outcomes, ClientGroupState, Ctrnonce
<1>6. group' = o.group /\ issued' = issued
  BY <1>2 DEF Return
<1>7. NoncesAscend'
  BY <1>2, <1>4, <1>5, <1>6, Typed DEF Ordered, NoncesAscend
<1>8. CASE o.err \in {"NO_SESSION", "REFUSED"}
  <2>1. asked' = asked /\ requestedAt' = requestedAt
    BY <1>2, <1>4, <1>8, NoRequest, OnlyReqIsRequest
  <2> QED
    BY <1>2, <1>4, <1>6, <1>7, <1>8, <2>1
    DEF Ordered, HandshakeIsTimed, KeysAscend, PhaseAscends, ClientPhaseIsActive
<1>9. CASE o.err \in {"OK", "FAILED"}
  <2>1. answered' = FALSE
    BY <1>2, <1>9
  <2>2. CASE o.out = {} /\ o.group.requestNonce = NotExpectingAResponse
    <3> QED
      BY <1>3, <1>4, <1>6, <1>7, <1>9, <2>1, <2>2
      DEF Ordered, HandshakeIsTimed, KeysAscend, PhaseAscends, ClientPhaseIsActive
  <2>3. CASE /\ o.out = {Req(OwnSid, Len(asked) + 1)}
             /\ o.group.requestNonce = Len(asked) + 1
             /\ o.group.lastHandshakeEventInstant = now
    <3>1. /\ Len(asked') = Len(asked) + 1
          /\ asked'[Len(asked) + 1] = issued
          /\ requestedAt' = now
      BY <1>2, <2>3, OneRequest
    <3> QED
      BY <1>3, <1>4, <1>6, <1>7, <1>9, <2>1, <2>3, <3>1, Typed
      DEF Ordered, HandshakeIsTimed, KeysAscend, PhaseAscends, ClientPhaseIsActive
  <2> QED BY <1>4, <1>9, <2>2, <2>3
<1> QED BY <1>4, <1>8, <1>9

LEMMA SecuredFdOrdered == TypeOK /\ Ordered /\ ReceiveSecuredFd => Ordered'
<1> SUFFICES ASSUME TypeOK, Ordered, ReceiveSecuredFd PROVE Ordered'
  OBVIOUS
<1> DEFINE Taken(o) ==
                /\ Return(o)
                /\ heard' = heard \cup UpTo({m.ctrnonce : m \in {x \in o.sdu : x.stk = group.currentStk}})
                /\ UNCHANGED <<sent, answered>>
<1>1. PICK stk \in 1 .. issued, ctrnonce \in Ctrnonce, intact \in BOOLEAN :
        \E o \in ClientProcessReceivedSecuredFd(
                    group, Sadfd(0, stk, ctrnonce), intact, now) : Taken(o)
  BY DEF ReceiveSecuredFd
<1>2. PICK o \in ClientProcessReceivedSecuredFd(
                    group, Sadfd(0, stk, ctrnonce), intact, now) : Taken(o)
  BY <1>1
<1>3. stk \in Stk /\ ctrnonce \in Nat
  BY IssuedAreStk DEF Ctrnonce
<1>4. /\ o.out = {}
      /\ o.group.currentStk = group.currentStk
      /\ o.group.requestNonce = group.requestNonce
      /\ o.group.lastHandshakeEventInstant = group.lastHandshakeEventInstant
      /\ o.group.previousStk \in {group.previousStk, NoStk}
      /\ o.group.currentCtrNonce >= group.currentCtrNonce
      /\ \/ o.sdu = {}
         \/ /\ o.sdu = {Sadfd(0, stk, ctrnonce)}
            /\ ClientPhaseIsActive(group) /\ stk = group.previousStk
         \/ /\ o.sdu = {Sadfd(0, stk, ctrnonce)}
            /\ o.group.currentCtrNonce > ctrnonce
  BY <1>3, SecuredFdEffect, Typed
<1>5. o.group.currentCtrNonce \in Nat
  <2>1. o \in Outcomes
    BY <1>3, SecuredFdType, Typed
  <2> QED BY <2>1 DEF Outcomes, ClientGroupState, Ctrnonce
<1>6. asked' = asked /\ requestedAt' = requestedAt /\ issued' = issued /\ group' = o.group
  BY <1>2, <1>4, NoRequest, OnlyReqIsRequest
<1>7. \A c \in sent' : c < group'.currentCtrNonce
  BY <1>2, <1>4, <1>5, <1>6, Typed DEF Ordered, NoncesAscend
<1>8. ASSUME answered', NEW c \in heard' PROVE c < group'.currentCtrNonce
  <2>1. answered
    BY <1>2, <1>8
  <2>2. CASE c \in heard
    BY <1>4, <1>5, <1>6, <2>1, <2>2, Typed DEF Ordered, NoncesAscend
  <2>3. CASE c \notin heard
    <3>1. PICK m \in o.sdu : m.stk = group.currentStk /\ c \in Ctrnonce /\ c <= m.ctrnonce
      BY <1>2, <1>8, <2>3 DEF UpTo
    <3>2. m = Sadfd(0, stk, ctrnonce) /\ m.stk = stk /\ m.ctrnonce = ctrnonce
      BY <1>4, <3>1 DEF Sadfd
    <3>3. ~(ClientPhaseIsActive(group) /\ stk = group.previousStk)
      BY <2>1, <3>1, <3>2, Typed DEF Ordered, PhaseAscends
    <3>4. o.group.currentCtrNonce > ctrnonce
      BY <1>4, <3>1, <3>3
    <3> QED BY <1>3, <1>5, <1>6, <3>1, <3>2, <3>4 DEF Ctrnonce
  <2> QED BY <2>2, <2>3
<1>9. NoncesAscend'
  BY <1>7, <1>8 DEF NoncesAscend
<1> QED
  BY <1>2, <1>4, <1>6, <1>9
  DEF Ordered, HandshakeIsTimed, KeysAscend, PhaseAscends, ClientPhaseIsActive

LEMMA BuildOrdered == TypeOK /\ Ordered /\ BuildSecuredFd => Ordered'
<1> SUFFICES ASSUME TypeOK, Ordered, BuildSecuredFd PROVE Ordered'
  OBVIOUS
<1>1. PICK o \in ClientBuildSecuredFd(group) :
        /\ Return(o)
        /\ sent' = sent \cup UpTo({m.ctrnonce : m \in o.out})
        /\ UNCHANGED <<heard, answered>>
  BY DEF BuildSecuredFd
<1>2. \/ o.out = {} /\ o.group = group
      \/ /\ o.out = {Sadfd(OwnSid, group.currentStk, group.currentCtrNonce)}
         /\ o.group = [group EXCEPT !.currentCtrNonce = group.currentCtrNonce + 1]
  BY BuildEffect, Typed
<1>3. asked' = asked /\ requestedAt' = requestedAt /\ issued' = issued /\ group' = o.group
  BY <1>1, <1>2, NoRequest, OnlyReqIsRequest
<1>4. /\ group'.currentStk = group.currentStk
      /\ group'.previousStk = group.previousStk
      /\ group'.requestNonce = group.requestNonce
      /\ group'.lastHandshakeEventInstant = group.lastHandshakeEventInstant
      /\ group'.currentCtrNonce \in {group.currentCtrNonce, group.currentCtrNonce + 1}
  BY <1>2, <1>3, Typed DEF ClientGroupState
<1>5. \A c \in sent' : c < group'.currentCtrNonce
  <2>1. CASE o.out = {} /\ o.group = group
    <3>1. sent' = sent
      BY <1>1, <2>1 DEF UpTo
    <3> QED BY <1>3, <2>1, <3>1 DEF Ordered, NoncesAscend
  <2>2. CASE /\ o.out = {Sadfd(OwnSid, group.currentStk, group.currentCtrNonce)}
             /\ o.group = [group EXCEPT !.currentCtrNonce = group.currentCtrNonce + 1]
    <3>1. group'.currentCtrNonce = group.currentCtrNonce + 1
      BY <1>3, <2>2, Typed DEF ClientGroupState
    <3>2. Sadfd(OwnSid, group.currentStk, group.currentCtrNonce).ctrnonce = group.currentCtrNonce
      BY DEF Sadfd
    <3>3. \A c \in sent' : c \in sent \/ (c \in Nat /\ c <= group.currentCtrNonce)
      BY <1>1, <2>2, <3>2 DEF UpTo, Ctrnonce
    <3> QED BY <3>1, <3>3, Typed DEF Ordered, NoncesAscend
  <2> QED BY <1>2, <2>1, <2>2
<1>6. NoncesAscend'
  BY <1>1, <1>4, <1>5, Typed DEF Ordered, NoncesAscend
<1> QED
  BY <1>1, <1>3, <1>4, <1>6
  DEF Ordered, HandshakeIsTimed, KeysAscend, PhaseAscends, ClientPhaseIsActive

LEMMA OrderedStep == TypeOK /\ Ordered /\ [Next]_vars => Ordered'
<1> SUFFICES ASSUME TypeOK, Ordered, [Next]_vars PROVE Ordered'
  OBVIOUS
<1>1. CASE Tick
  BY <1>1 DEF Tick, Ordered, HandshakeIsTimed, KeysAscend, PhaseAscends, NoncesAscend,
              ClientPhaseIsActive
<1>2. CASE ServerRenews
  BY <1>2, Typed DEF ServerRenews, Ordered, HandshakeIsTimed, KeysAscend, PhaseAscends,
                     NoncesAscend, ClientPhaseIsActive
<1>3. CASE UNCHANGED vars
  BY <1>3 DEF vars, Ordered, HandshakeIsTimed, KeysAscend, PhaseAscends, NoncesAscend,
              ClientPhaseIsActive
<1> QED
  BY <1>1, <1>2, <1>3, RestartOrdered, RequestOrdered, ResponseOrdered, RenewalOrdered,
     SecuredFdOrdered, BuildOrdered DEF Next

\* The order holds in every state.
LEMMA OrderedCorrect == Spec => [](TypeOK /\ Ordered)
<1>1. Init => TypeOK /\ Ordered
  BY TypeInit, OrderedInit
<1>2. TypeOK /\ Ordered /\ [Next]_vars => TypeOK' /\ Ordered'
  BY TypeStep, OrderedStep
<1> QED BY <1>1, <1>2, PTL DEF Spec

----------------------------------------------------------------------------
(* What follows from it *)

\* What each call builds and delivers, and what it does to the key.

LEMMA RequestActs ==
    ASSUME TypeOK, BuildRequest
    PROVE  /\ group'.currentStk = group.currentStk
           /\ ret'.sdu = {}
           /\ \/ ret'.out = {}
              \/ /\ ret'.out = {Req(OwnSid, Len(asked) + 1)}
                 /\ ~ClientIsAHandshakeOngoing(group, now)
<1>1. PICK o \in ClientBuildRequest(group, now, Len(asked) + 1) : Return(o)
  BY DEF BuildRequest
<1>2. /\ o.group.currentStk = group.currentStk
      /\ o.sdu = {}
      /\ \/ o.out = {}
         \/ /\ o.out = {Req(OwnSid, Len(asked) + 1)}
            /\ ~ClientIsAHandshakeOngoing(group, now)
  BY RequestEffect, NextRequest, Typed
<1> QED BY <1>1, <1>2 DEF Return

LEMMA ResponseActs ==
    ASSUME TypeOK, Ordered, ReceiveResponse
    PROVE  /\ group'.currentStk >= group.currentStk
           /\ ret'.out = {} /\ ret'.sdu = {}
<1>1. PICK n \in 1 .. Len(asked), client \in {OwnSid, OwnSid + 1},
           ctrnonce \in Ctrnonce, intact \in BOOLEAN :
        \E stk \in asked[n] .. issued :
            \E o \in ClientProcessReceivedResponse(
                        group, Res(client, n, stk, ctrnonce), intact, now) : Return(o)
  BY DEF ReceiveResponse
<1>2. PICK stk \in asked[n] .. issued :
        \E o \in ClientProcessReceivedResponse(
                    group, Res(client, n, stk, ctrnonce), intact, now) : Return(o)
  BY <1>1
<1>3. PICK o \in ClientProcessReceivedResponse(
                    group, Res(client, n, stk, ctrnonce), intact, now) : Return(o)
  BY <1>2
<1>4. n \in Nat /\ client \in Nat /\ stk \in Stk
  BY OwnSidAssumption, Typed, IssuedAreStk
<1>5. /\ o.out = {} /\ o.sdu = {}
      /\ \/ o.group = group
         \/ /\ n = group.requestNonce
            /\ group.requestNonce # NotExpectingAResponse
            /\ o.group.currentStk = stk
  BY <1>4, ResponseEffect, Typed
<1>6. CASE o.group = group
  BY <1>3, <1>5, <1>6, Typed DEF Return
<1>7. CASE n = group.requestNonce /\ group.requestNonce # NotExpectingAResponse
           /\ o.group.currentStk = stk
  <2>1. group.currentStk <= asked[n]
    BY <1>7 DEF Ordered, KeysAscend
  <2> QED BY <1>3, <1>4, <1>5, <1>7, <2>1, Typed DEF Return, Stk
<1> QED BY <1>5, <1>6, <1>7

LEMMA RenewalActs ==
    ASSUME TypeOK, ReceiveRenewal
    PROVE  /\ group'.currentStk = group.currentStk
           /\ ret'.sdu = {}
           /\ \/ ret'.out = {}
              \/ /\ ret'.out = {Req(OwnSid, Len(asked) + 1)}
                 /\ group.requestNonce = NotExpectingAResponse
<1>1. PICK stk \in 1 .. issued - 1, ctrnonce \in Ctrnonce, intact \in BOOLEAN :
        \E o \in ClientProcessReceivedRenewal(
                    group, Ren(stk, ctrnonce), intact, now, Len(asked) + 1) : Return(o)
  BY DEF ReceiveRenewal
<1>2. PICK o \in ClientProcessReceivedRenewal(
                    group, Ren(stk, ctrnonce), intact, now, Len(asked) + 1) : Return(o)
  BY <1>1
<1>3. stk \in Stk
  BY IssuedAreStk
<1>4. /\ o.group.currentStk = group.currentStk
      /\ o.sdu = {}
      /\ \/ o.out = {}
         \/ /\ o.out = {Req(OwnSid, Len(asked) + 1)}
            /\ group.requestNonce = NotExpectingAResponse
  BY <1>3, RenewalEffect, NextRequest, Typed
<1> QED BY <1>2, <1>4 DEF Return

\* User data under the current key is late by no more than the tolerance.
LEMMA SecuredFdActs ==
    ASSUME TypeOK, ReceiveSecuredFd
    PROVE  /\ group'.currentStk = group.currentStk
           /\ ret'.out = {}
           /\ \A m \in ret'.sdu :
                \/ ClientPhaseIsActive(group) /\ m.stk = group.previousStk
                \/ /\ m.ctrnonce \in Nat
                   /\ m.ctrnonce >= group.currentCtrNonce
                                    - CtrDelay(group.currentRxLastMessageInstant, now)
<1>1. PICK stk \in 1 .. issued, ctrnonce \in Ctrnonce, intact \in BOOLEAN :
        \E o \in ClientProcessReceivedSecuredFd(
                    group, Sadfd(0, stk, ctrnonce), intact, now) : Return(o)
  BY DEF ReceiveSecuredFd
<1>2. PICK o \in ClientProcessReceivedSecuredFd(
                    group, Sadfd(0, stk, ctrnonce), intact, now) : Return(o)
  BY <1>1
<1>3. stk \in Stk /\ ctrnonce \in Nat
  BY IssuedAreStk DEF Ctrnonce
<1>4. /\ o.group.currentStk = group.currentStk
      /\ o.out = {}
      /\ \/ o.sdu = {}
         \/ /\ o.sdu = {Sadfd(0, stk, ctrnonce)}
            /\ ClientPhaseIsActive(group) /\ stk = group.previousStk
         \/ /\ o.sdu = {Sadfd(0, stk, ctrnonce)}
            /\ ctrnonce >= group.currentCtrNonce
                           - CtrDelay(group.currentRxLastMessageInstant, now)
  BY <1>3, SecuredFdEffect, Typed
<1>5. Sadfd(0, stk, ctrnonce).stk = stk /\ Sadfd(0, stk, ctrnonce).ctrnonce = ctrnonce
  BY DEF Sadfd
<1> QED BY <1>2, <1>3, <1>4, <1>5 DEF Return

LEMMA BuildActs ==
    ASSUME TypeOK, BuildSecuredFd
    PROVE  /\ group'.currentStk = group.currentStk
           /\ ret'.sdu = {}
           /\ \/ ret'.out = {}
              \/ ret'.out = {Sadfd(OwnSid, group.currentStk, group.currentCtrNonce)}
<1>1. PICK o \in ClientBuildSecuredFd(group) : Return(o)
  BY DEF BuildSecuredFd
<1>2. /\ o.sdu = {}
      /\ o.group.currentStk = group.currentStk
      /\ \/ o.out = {}
         \/ o.out = {Sadfd(OwnSid, group.currentStk, group.currentCtrNonce)}
  <2>1. group \in ClientGroupState
    BY Typed
  <2>2. \A n : [group EXCEPT !.currentCtrNonce = n].currentStk = group.currentStk
    BY <2>1 DEF ClientGroupState
  <2> QED BY <2>1, <2>2, BuildEffect
<1> QED BY <1>1, <1>2 DEF Return

\* The other steps return nothing.
LEMMA OthersReturnNothing ==
    ASSUME Tick \/ ServerRenews \/ Restart
    PROVE  ret'.out = {} /\ ret'.sdu = {}
<1>1. Tick \/ ServerRenews => ret'.out = {} /\ ret'.sdu = {}
  BY DEF Tick, ServerRenews, Nothing
<1>2. Restart => ret'.out = {} /\ ret'.sdu = {}
  BY DEF Restart, Return, Outcome
<1> QED BY <1>1, <1>2

\* A renewal phase that was answered is a change to a later key.
THEOREM RenewalChangesStkCorrect == Spec => []RenewalChangesStk
<1>1. Ordered => RenewalChangesStk
  BY DEF Ordered, PhaseAscends, RenewalChangesStk
<1> QED BY <1>1, OrderedCorrect, PTL

\* As long as it runs the Client never goes back to an earlier key.
THEOREM StkNeverGoesBackCorrect == Spec => StkNeverGoesBack
<1>1. TypeOK /\ Ordered /\ [Next]_vars =>
        [group'.currentStk = NoStk \/ group'.currentStk >= group.currentStk]_vars
  <2> SUFFICES ASSUME TypeOK, Ordered, Next
               PROVE  group'.currentStk = NoStk \/ group'.currentStk >= group.currentStk
    OBVIOUS
  <2>1. CASE Restart
    BY <2>1 DEF Restart, Return, Outcome, ClientClearedState
  <2>2. CASE Tick \/ ServerRenews
    BY <2>2, Typed DEF Tick, ServerRenews
  <2>3. CASE ReceiveResponse
    BY <2>3, ResponseActs
  <2>4. CASE BuildRequest \/ ReceiveRenewal \/ ReceiveSecuredFd \/ BuildSecuredFd
    BY <2>4, RequestActs, RenewalActs, SecuredFdActs, BuildActs, Typed
  <2> QED BY <2>1, <2>2, <2>3, <2>4 DEF Next
<1> QED BY <1>1, OrderedCorrect, PTL DEF Spec, StkNeverGoesBack

\* No two messages between two Responses have the same counter nonce.
THEOREM NeverReusesCtrnonceCorrect == Spec => NeverReusesCtrnonce
<1>1. TypeOK /\ Ordered /\ [Next]_vars =>
        [\A m \in ret'.out : m.pty = "SADFD" => m.ctrnonce \notin sent]_vars
  <2> SUFFICES ASSUME TypeOK, Ordered, Next, NEW m \in ret'.out, m.pty = "SADFD"
               PROVE  m.ctrnonce \notin sent
    OBVIOUS
  <2>1. CASE BuildSecuredFd
    <3>1. m = Sadfd(OwnSid, group.currentStk, group.currentCtrNonce)
      BY <2>1, BuildActs
    <3>2. m.ctrnonce = group.currentCtrNonce
      BY <3>1 DEF Sadfd
    <3> QED BY <3>2, Typed DEF Ordered, NoncesAscend
  <2>2. CASE BuildRequest \/ ReceiveRenewal
    <3>1. m = Req(OwnSid, Len(asked) + 1)
      BY <2>2, RequestActs, RenewalActs
    <3> QED BY <3>1 DEF Req
  <2> QED BY <2>1, <2>2, OthersReturnNothing, ResponseActs, SecuredFdActs DEF Next
<1> QED BY <1>1, OrderedCorrect, PTL DEF Spec, NeverReusesCtrnonce

\* A Request leaves only when none waits for a Response anymore.
THEOREM OneHandshakeAtATimeCorrect == Spec => OneHandshakeAtATime
<1>1. TypeOK /\ Ordered /\ [Next]_vars =>
        [\A m \in ret'.out : m.pty = "REQ" =>
            \/ group.requestNonce = NotExpectingAResponse
            \/ TimeDelta(requestedAt, now) > TimeoutReqToResMillis]_vars
  <2> SUFFICES ASSUME TypeOK, Ordered, Next, NEW m \in ret'.out, m.pty = "REQ",
                      group.requestNonce # NotExpectingAResponse
               PROVE  TimeDelta(requestedAt, now) > TimeoutReqToResMillis
    OBVIOUS
  <2>1. requestedAt = group.lastHandshakeEventInstant
    BY DEF Ordered, HandshakeIsTimed
  <2>2. TimeDelta(requestedAt, now) \in Nat /\ TimeoutReqToResMillis \in Nat
    BY TimeDeltaType, TimeoutReqToResAssumption DEF TypeOK
  <2>3. CASE BuildRequest
    <3>1. ~ClientIsAHandshakeOngoing(group, now)
      BY <2>3, RequestActs
    <3> QED BY <2>1, <2>2, <3>1 DEF ClientIsAHandshakeOngoing
  <2>4. CASE BuildSecuredFd
    <3>1. m = Sadfd(OwnSid, group.currentStk, group.currentCtrNonce)
      BY <2>4, BuildActs
    <3> QED BY <3>1 DEF Sadfd
  <2>5. ~ReceiveRenewal
    BY RenewalActs
  <2> QED BY <2>3, <2>4, <2>5, OthersReturnNothing, ResponseActs, SecuredFdActs DEF Next
<1> QED BY <1>1, OrderedCorrect, PTL DEF Spec, OneHandshakeAtATime

\* Late and repeated messages pass only while and as far as they are tolerated.
THEOREM OldOnlyWhenRecentCorrect == Spec => OldOnlyWhenRecent
<1>1. TypeOK /\ Ordered /\ [Next]_vars =>
        [\A m \in ret'.sdu : answered /\ m.stk = group.currentStk /\ m.ctrnonce \in heard =>
            /\ TimeDelta(group.currentRxLastMessageInstant, now) < MaxSilenceIntervalMillis
            /\ \A c \in heard : c - m.ctrnonce <= MaxCtrnonceDelayMsgs]_vars
  <2> SUFFICES ASSUME TypeOK, Ordered, Next, NEW m \in ret'.sdu, answered,
                      m.stk = group.currentStk, m.ctrnonce \in heard
               PROVE  /\ TimeDelta(group.currentRxLastMessageInstant, now) < MaxSilenceIntervalMillis
                      /\ \A c \in heard : c - m.ctrnonce <= MaxCtrnonceDelayMsgs
    OBVIOUS
  <2> DEFINE delay == CtrDelay(group.currentRxLastMessageInstant, now)
  <2>1. ReceiveSecuredFd
    BY RequestActs, ResponseActs, RenewalActs, BuildActs, OthersReturnNothing DEF Next
  <2>2. ~(ClientPhaseIsActive(group) /\ m.stk = group.previousStk)
    BY Typed DEF Ordered, PhaseAscends
  <2>3. m.ctrnonce \in Nat /\ m.ctrnonce >= group.currentCtrNonce - delay
    BY <2>1, <2>2, SecuredFdActs
  <2>4. /\ delay \in 0 .. MaxCtrnonceDelayMsgs
        /\ delay > 0 => TimeDelta(group.currentRxLastMessageInstant, now) < MaxSilenceIntervalMillis
    BY Typed, CtrDelayBounded DEF ClientGroupState
  <2>5. \A c \in heard : c \in Nat /\ c < group.currentCtrNonce
    BY Typed DEF Ordered, NoncesAscend
  <2> HIDE DEF delay
  <2>6. delay > 0
    BY <2>3, <2>4, <2>5, Typed, MaxCtrnonceDelayMsgsAssumption
  <2>7. ASSUME NEW c \in heard PROVE c - m.ctrnonce <= MaxCtrnonceDelayMsgs
    BY <2>3, <2>4, <2>5, Typed, MaxCtrnonceDelayMsgsAssumption
  <2> QED BY <2>4, <2>6, <2>7
<1> QED BY <1>1, OrderedCorrect, PTL DEF Spec, OldOnlyWhenRecent
=============================================================================
