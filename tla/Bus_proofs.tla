----------------------------- MODULE Bus_proofs -----------------------------
(***************************************************************************)
(* Proofs about the Server and the Clients on a bus, for any number of     *)
(* Clients, any configuration, any number of messages in flight, any clock *)
(* and any restarts: their keys obey the safety part of GroupKeys, a       *)
(* Server that thinks its Session has no receiver is right, and parties    *)
(* that share a key and a counter nonce hear one another.                  *)
(***************************************************************************)
EXTENDS Bus, Common_proofs

\* A state of the Server, of a Client: the fields read below, and what the
\* arithmetic needs of them.
IsServer(g) ==
    /\ {"sessionStartInstant", "currentStk", "previousStk", "currentRxLastMessageInstant",
        "previousRxLastMessageInstant", "currentCtrNonce", "previousCtrNonce"} \subseteq DOMAIN g
    /\ g.currentRxLastMessageInstant \in Timestamp
    /\ g.previousRxLastMessageInstant \in Timestamp
    /\ g.currentCtrNonce \in Ctrnonce
    /\ g.previousCtrNonce \in Ctrnonce

IsClient(g) ==
    /\ {"requestNonce", "lastHandshakeEventInstant", "currentStk", "previousStk",
        "currentRxLastMessageInstant", "previousRxLastMessageInstant", "currentCtrNonce",
        "previousCtrNonce"} \subseteq DOMAIN g
    /\ g.currentRxLastMessageInstant \in Timestamp
    /\ g.previousRxLastMessageInstant \in Timestamp
    /\ g.currentCtrNonce \in Ctrnonce
    /\ g.previousCtrNonce \in Ctrnonce

\* A message: all but Requests have a counter nonce.
IsMessage(m) == m.pty # "REQ" => m.ctrnonce \in Ctrnonce

\* The Server thinks that its Session has no receiver.
IsDeaf(g) == ~ServerDidAnyClientAlreadyRequest(g)

----------------------------------------------------------------------------
(* What the handlers of the Server do to its keys, and to Responses *)

\* What a call may do: keep the key, or take a fresh one after which the old one
\* is the previous one, and transmit no Response but one with the key. It does
\* not make the Server think again that the Session has no receiver, and no
\* Response leaves it thinking so.
ServerMove(g, fresh, o) ==
    /\ IsServer(o.group)
    /\ \/ /\ o.group.currentStk = g.currentStk
          /\ o.group.previousStk \in {g.previousStk, NoStk}
          /\ IsDeaf(o.group) => IsDeaf(g) /\ \A m \in o.out : m.pty # "RES"
       \/ /\ o.group.currentStk = fresh /\ fresh \in Stk
          /\ o.group.previousStk \in {g.currentStk, NoStk}
    /\ \A m \in o.out : IsMessage(m) /\ (m.pty = "RES" => m.stk = g.currentStk)

LEMMA BuildRenewalMove ==
    ASSUME NEW g, IsServer(g), NEW fresh
    PROVE  ServerMove(g, fresh, ServerBuildMsgRenewal(g))
<1> DEFINE sent == [g EXCEPT !.previousCtrNonce = Incremented(@)]
<1>1. Incremented(g.previousCtrNonce) \in Ctrnonce
  BY IncrementedType DEF IsServer
<1>2. /\ IsServer(sent) /\ sent.currentStk = g.currentStk /\ sent.previousStk = g.previousStk
      /\ IsDeaf(sent) => IsDeaf(g)
  BY <1>1 DEF IsServer, IsDeaf, ServerDidAnyClientAlreadyRequest
<1>3. ServerBuildMsgRenewal(g)
        = Outcome("OK", sent, {Ren(g.previousStk, g.previousCtrNonce)}, {})
  BY DEF ServerBuildMsgRenewal
<1>4. IsMessage(Ren(g.previousStk, g.previousCtrNonce))
  BY DEF Ren, IsMessage, IsServer
<1> HIDE DEF sent
<1> QED BY <1>2, <1>3, <1>4 DEF Outcome, Ren, ServerMove

LEMMA EnterMove ==
    ASSUME IoFaults = {}, NEW g, IsServer(g), NEW t \in Timestamp, NEW fresh,
           NEW o \in ServerPhaseEnter(g, t, fresh)
    PROVE  /\ IsServer(o.group) /\ o.group.currentStk = fresh /\ fresh \in Stk
           /\ o.group.previousStk = g.currentStk
           /\ o.out = {}
<1> DEFINE started == [ServerBackedUp(g) EXCEPT !.sessionStartInstant = t,
                                                !.currentRxLastMessageInstant = t]
<1>1. PICK draw \in NonZeroTrng(g.currentStk, fresh) :
        o = Outcome(IF draw.ok THEN "OK" ELSE "FAILED",
                    [started EXCEPT !.currentStk = draw.stk,
                                    !.currentCtrNonce = IF draw.ok THEN 0 ELSE @],
                    {}, {})
  BY DEF ServerPhaseEnter
<1>2. draw.stk = fresh /\ fresh \in Stk
  BY DEF NonZeroTrng
<1>3. IsServer(started) /\ started.previousStk = g.currentStk
  BY DEF ServerBackedUp, IsServer
<1> HIDE DEF started
<1>4. IsServer([started EXCEPT !.currentStk = draw.stk,
                               !.currentCtrNonce = IF draw.ok THEN 0 ELSE @])
  BY <1>3, Zeros DEF IsServer
<1> QED BY <1>1, <1>2, <1>3, <1>4 DEF Outcome, IsServer

LEMMA RenewMove ==
    ASSUME IoFaults = {}, NEW g, IsServer(g), NEW t \in Timestamp, NEW fresh,
           NEW o \in ServerRenew(g, t, fresh)
    PROVE  ServerMove(g, fresh, o)
<1>1. PICK e \in ServerPhaseEnter(g, t, fresh) :
        o = IF e.err = "OK" THEN ServerBuildMsgRenewal(e.group) ELSE e
  BY DEF ServerRenew
<1>2. /\ IsServer(e.group) /\ e.group.currentStk = fresh /\ fresh \in Stk /\ e.out = {}
      /\ e.group.previousStk = g.currentStk
  BY EnterMove
<1>3. CASE e.err = "OK"
  <2> DEFINE sent == [e.group EXCEPT !.previousCtrNonce = Incremented(@)]
  <2>1. o = ServerBuildMsgRenewal(e.group)
    BY <1>1, <1>3
  <2>2. o.group = sent /\ o.out = {Ren(g.currentStk, e.group.previousCtrNonce)}
    BY <2>1, <1>2 DEF ServerBuildMsgRenewal, Outcome
  <2>3. IsServer(sent) /\ sent.currentStk = fresh /\ sent.previousStk = g.currentStk
    BY <1>2, IncrementedType DEF IsServer
  <2>4. IsMessage(Ren(g.currentStk, e.group.previousCtrNonce))
    BY <1>2 DEF Ren, IsMessage, IsServer
  <2> HIDE DEF sent
  <2> QED BY <1>2, <2>2, <2>3, <2>4 DEF Ren, ServerMove
<1>4. CASE e.err # "OK"
  BY <1>1, <1>2, <1>4 DEF ServerMove
<1> QED BY <1>3, <1>4

\* Whatever the clock shows, the reception of a message is not taken for the
\* start of the Session.
LEMMA ReceivedIsHeard ==
    ASSUME NEW g, IsServer(g), NEW t \in Timestamp
    PROVE  /\ IsServer(ServerUpdateCurrentRxLastMessageInstant(g, t))
           /\ ServerUpdateCurrentRxLastMessageInstant(g, t).currentStk = g.currentStk
           /\ ServerUpdateCurrentRxLastMessageInstant(g, t).previousStk = g.previousStk
           /\ ~IsDeaf(ServerUpdateCurrentRxLastMessageInstant(g, t))
<1>1. (t + 1) % TimestampDomainSize # t /\ (t + 1) % TimestampDomainSize \in Timestamp
  BY TimestampDomainSizeAssumption DEF Timestamp
<1> DEFINE instant == IF t = g.sessionStartInstant THEN (t + 1) % TimestampDomainSize ELSE t
<1>2. instant # g.sessionStartInstant /\ instant \in Timestamp
  BY <1>1
<1>3. ServerUpdateCurrentRxLastMessageInstant(g, t)
        = [g EXCEPT !.currentRxLastMessageInstant = instant]
  BY DEF ServerUpdateCurrentRxLastMessageInstant
<1> HIDE DEF instant
<1> QED BY <1>2, <1>3 DEF IsServer, IsDeaf, ServerDidAnyClientAlreadyRequest

LEMMA RequestMove ==
    ASSUME IoFaults = {}, NEW g, IsServer(g), NEW t \in Timestamp, NEW fresh, NEW m,
           NEW o \in ServerProcessReceivedRequest(g, m, TRUE, t)
    PROVE  ServerMove(g, fresh, o)
<1> DEFINE received == ServerUpdateCurrentRxLastMessageInstant(g, t)
           res == Res(m.sid, m.reqnonce, g.currentStk, g.currentCtrNonce)
<1>1. /\ IsServer(received) /\ ~IsDeaf(received)
      /\ received.currentStk = g.currentStk /\ received.previousStk = g.previousStk
  BY ReceivedIsHeard
<1>2. IsMessage(res) /\ res.pty = "RES" /\ res.stk = g.currentStk
  BY DEF Res, IsMessage, IsServer
<1>3. \/ o = Outcome("OK", received, {res}, {})
      \/ o = Outcome("REFUSED", g, {}, {})
  BY DEF ServerProcessReceivedRequest
<1> HIDE DEF received, res
<1> QED BY <1>1, <1>2, <1>3 DEF Outcome, ServerMove

LEMMA SecuredFdMove ==
    ASSUME IoFaults = {}, NEW g, IsServer(g), NEW t \in Timestamp, NEW fresh,
           NEW m, m.ctrnonce \in Ctrnonce,
           NEW o \in ServerProcessReceivedSecuredFd(g, m, TRUE, t, fresh)
    PROVE  ServerMove(g, fresh, o)
<1> DEFINE exited == ServerPhaseExitIfNeeded(g, t)
           isPrevious == ServerIsPreviousSession(exited, m.ctrnonce)
           received == ServerUpdateCtrnonceAndRxTimestamp(exited, m.ctrnonce, t, isPrevious)
<1>1. /\ IsServer(exited) /\ exited.currentStk = g.currentStk
      /\ exited.previousStk \in {g.previousStk, NoStk}
      /\ IsDeaf(exited) => IsDeaf(g)
  BY Zeros DEF ServerPhaseExitIfNeeded, IsServer, IsDeaf, ServerDidAnyClientAlreadyRequest
<1>2. /\ IsServer(received) /\ received.currentStk = g.currentStk
      /\ received.previousStk \in {g.previousStk, NoStk}
      /\ IsDeaf(received) => IsDeaf(g)
  <2> HIDE DEF exited, isPrevious
  <2> DEFINE asPrevious == [exited EXCEPT
                               !.previousCtrNonce = Advanced(@, m.ctrnonce),
                               !.previousRxLastMessageInstant = t]
             advanced == [exited EXCEPT !.currentCtrNonce = Advanced(@, m.ctrnonce)]
  <2>0. /\ Advanced(exited.previousCtrNonce, m.ctrnonce) \in Ctrnonce
        /\ Advanced(exited.currentCtrNonce, m.ctrnonce) \in Ctrnonce
    BY <1>1, AdvancedType DEF IsServer
  <2>1. /\ IsServer(asPrevious) /\ asPrevious.currentStk = g.currentStk
        /\ asPrevious.previousStk = exited.previousStk
        /\ IsDeaf(asPrevious) => IsDeaf(g)
    BY <1>1, <2>0 DEF IsServer, IsDeaf, ServerDidAnyClientAlreadyRequest
  <2>2. /\ IsServer(advanced) /\ advanced.currentStk = g.currentStk
        /\ advanced.previousStk = exited.previousStk
    BY <1>1, <2>0 DEF IsServer
  <2>3. received = asPrevious \/ received = ServerUpdateCurrentRxLastMessageInstant(advanced, t)
    BY DEF ServerUpdateCtrnonceAndRxTimestamp
  <2> HIDE DEF asPrevious, advanced, received
  <2> QED BY <1>1, <2>1, <2>2, <2>3, ReceivedIsHeard
<1>3. \/ o = Outcome("REFUSED", g, {}, {})
      \/ o = Outcome("REFUSED", exited, {}, {})
      \/ \E e \in ServerPhaseEnterIfNeeded(received, t, fresh) : o = [e EXCEPT !.sdu = {m}]
  BY DEF ServerProcessReceivedSecuredFd
<1> HIDE DEF exited, isPrevious, received
<1>4. ASSUME NEW e \in ServerPhaseEnterIfNeeded(received, t, fresh), o = [e EXCEPT !.sdu = {m}]
      PROVE  ServerMove(g, fresh, o)
  <2>1. CASE e = Outcome("OK", received, {}, {})
    BY <1>2, <1>4, <2>1 DEF Outcome, ServerMove
  <2>2. CASE e \in ServerRenew(received, t, fresh)
    <3>1. ServerMove(received, fresh, e)
      BY <2>2, <1>2, RenewMove
    <3>2. o.group = e.group /\ o.out = e.out
      BY <1>4
    <3> QED BY <3>1, <3>2, <1>2 DEF ServerMove
  <2> QED BY <2>1, <2>2 DEF ServerPhaseEnterIfNeeded
<1> QED BY <1>1, <1>3, <1>4 DEF Outcome, ServerMove

LEMMA ForceMove ==
    ASSUME IoFaults = {}, NEW g, IsServer(g), NEW t \in Timestamp, NEW fresh,
           NEW o \in ServerForceSessionRenewal(g, t, fresh)
    PROVE  ServerMove(g, fresh, o)
<1>1. CASE o = ServerBuildMsgRenewal(g)
  BY <1>1, BuildRenewalMove
<1>2. CASE o \in ServerRenew(g, t, fresh)
  BY <1>2, RenewMove
<1>3. CASE o = Outcome("NO_RECEIVER", g, {}, {})
  BY <1>3 DEF Outcome, ServerMove
<1> QED BY <1>1, <1>2, <1>3 DEF ServerForceSessionRenewal

LEMMA BuildSecuredFdMove ==
    ASSUME NEW g, IsServer(g), NEW fresh, NEW o \in ServerBuildSecuredFd(g)
    PROVE  ServerMove(g, fresh, o)
<1> DEFINE sent == [g EXCEPT !.currentCtrNonce = Incremented(@)]
           m == Sadfd(0, g.currentStk, g.currentCtrNonce)
<1>1. /\ IsServer(sent) /\ sent.currentStk = g.currentStk /\ sent.previousStk = g.previousStk
      /\ IsDeaf(sent) => IsDeaf(g)
  BY IncrementedType DEF IsServer, IsDeaf, ServerDidAnyClientAlreadyRequest
<1>2. IsMessage(m) /\ m.pty = "SADFD"
  BY DEF Sadfd, IsMessage, IsServer
<1>3. o = Outcome("OK", sent, {m}, {}) \/ o = Outcome("NO_RECEIVER", g, {}, {})
  BY DEF ServerBuildSecuredFd
<1> HIDE DEF sent, m
<1> QED BY <1>1, <1>2, <1>3 DEF Outcome, ServerMove

----------------------------------------------------------------------------
(* What the handlers of a Client do to its key and to its Request's nonce *)

\* The arithmetic is the same on both sides.
LEMMA SameArithmetic ==
    ASSUME NEW c, NEW a, NEW b
    PROVE  /\ C(c)!Incremented(a) = Incremented(a)
           /\ C(c)!Advanced(a, b) = Advanced(a, b)
           /\ C(c)!CtrDelay(a, b) = CtrDelay(a, b)
           /\ C(c)!CtrnonceIsExpired(a) = CtrnonceIsExpired(a)
           /\ C(c)!TimeDelta(a, b) = TimeDelta(a, b)
BY DEF C!Incremented, Incremented, C!Advanced, Advanced, C!CtrnonceIsExpired, CtrnonceIsExpired,
       C!CtrDelay, CtrDelay, C!TimeDelta, TimeDelta, C!CeilDiv, CeilDiv

\* What a call other than that for a Response may do: keep the key, keep the
\* nonce or take a fresh one, and transmit no Response.
ClientMove(g, fresh, o) ==
    /\ IsClient(o.group)
    /\ o.group.currentStk = g.currentStk
    /\ o.group.requestNonce \in {g.requestNonce, fresh}
    /\ \A m \in o.out : IsMessage(m) /\ m.pty # "RES"

LEMMA BuildMsgReqMove ==
    ASSUME IoFaults = {}, NEW c, NEW g, IsClient(g), NEW t, NEW fresh,
           NEW o \in C(c)!ClientBuildMsgReq(g, t, fresh)
    PROVE  ClientMove(g, fresh, o)
<1> DEFINE asked == [g EXCEPT !.requestNonce = fresh, !.lastHandshakeEventInstant = t]
<1>1. o = Outcome("OK", asked, {Req(c, fresh)}, {})
  BY DEF C!ClientBuildMsgReq, C!Outcome, Outcome, C!Req, Req
<1>2. IsClient(asked) /\ asked.currentStk = g.currentStk /\ asked.requestNonce = fresh
  BY DEF IsClient
<1> HIDE DEF asked
<1> QED BY <1>1, <1>2 DEF Outcome, Req, ClientMove, IsMessage

LEMMA BuildRequestMove ==
    ASSUME IoFaults = {}, NEW c, NEW g, IsClient(g), NEW t, NEW fresh,
           NEW o \in C(c)!ClientBuildRequest(g, t, fresh)
    PROVE  ClientMove(g, fresh, o)
<1>1. \/ o = Outcome("ONGOING", g, {}, {})
      \/ o \in C(c)!ClientBuildMsgReq(g, t, fresh)
  BY DEF C!ClientBuildRequest, C!Outcome, Outcome
<1>2. CASE o = Outcome("ONGOING", g, {}, {})
  BY <1>2 DEF Outcome, ClientMove
<1> QED BY <1>1, <1>2, BuildMsgReqMove

LEMMA ClientExit ==
    ASSUME NEW c, NEW g, IsClient(g), NEW t
    PROVE  /\ IsClient(C(c)!ClientPhaseExitIfNeeded(g, t))
           /\ C(c)!ClientPhaseExitIfNeeded(g, t).currentStk = g.currentStk
           /\ C(c)!ClientPhaseExitIfNeeded(g, t).requestNonce = g.requestNonce
BY Zeros DEF C!ClientPhaseExitIfNeeded, IsClient

LEMMA ClientUpdate ==
    ASSUME NEW c, NEW g, IsClient(g), NEW k \in Ctrnonce, NEW t \in Timestamp,
           NEW isPrevious \in BOOLEAN
    PROVE  /\ IsClient(C(c)!ClientUpdateCtrnonceAndRxTimestamp(g, k, t, isPrevious))
           /\ C(c)!ClientUpdateCtrnonceAndRxTimestamp(g, k, t, isPrevious).currentStk = g.currentStk
           /\ C(c)!ClientUpdateCtrnonceAndRxTimestamp(g, k, t, isPrevious).requestNonce
                = g.requestNonce
<1> DEFINE asPrevious == [g EXCEPT !.previousCtrNonce = C(c)!Advanced(@, k),
                                   !.previousRxLastMessageInstant = t]
           asCurrent == [g EXCEPT !.currentCtrNonce = C(c)!Advanced(@, k),
                                  !.currentRxLastMessageInstant = t]
<1>1. /\ C(c)!Advanced(g.previousCtrNonce, k) \in Ctrnonce
      /\ C(c)!Advanced(g.currentCtrNonce, k) \in Ctrnonce
  BY SameArithmetic, AdvancedType DEF IsClient
<1>2. /\ IsClient(asPrevious) /\ asPrevious.currentStk = g.currentStk
      /\ asPrevious.requestNonce = g.requestNonce
      /\ IsClient(asCurrent) /\ asCurrent.currentStk = g.currentStk
      /\ asCurrent.requestNonce = g.requestNonce
  BY <1>1 DEF IsClient
<1>3. C(c)!ClientUpdateCtrnonceAndRxTimestamp(g, k, t, isPrevious)
        = IF isPrevious THEN asPrevious ELSE asCurrent
  BY DEF C!ClientUpdateCtrnonceAndRxTimestamp
<1> HIDE DEF asPrevious, asCurrent
<1> QED BY <1>2, <1>3

LEMMA RenewalMove ==
    ASSUME IoFaults = {}, NEW c, NEW g, IsClient(g), NEW m, m.ctrnonce \in Ctrnonce,
           NEW t \in Timestamp, NEW fresh,
           NEW o \in C(c)!ClientProcessReceivedRenewal(g, m, TRUE, t, fresh)
    PROVE  ClientMove(g, fresh, o)
<1> DEFINE exited == C(c)!ClientPhaseExitIfNeeded(g, t)
           updated == C(c)!ClientUpdateCtrnonceAndRxTimestamp(g, m.ctrnonce, t, FALSE)
           entered == C(c)!ClientPhaseEnter(updated)
<1>1. \/ o = Outcome("NO_SESSION", g, {}, {})
      \/ o = Outcome("REFUSED", exited, {}, {})
      \/ o = Outcome("REFUSED", g, {}, {})
      \/ o \in C(c)!ClientBuildMsgReq(entered, t, fresh)
  BY DEF C!ClientProcessReceivedRenewal, C!Outcome, Outcome
<1>2. /\ IsClient(exited) /\ exited.currentStk = g.currentStk
      /\ exited.requestNonce = g.requestNonce
  BY ClientExit
<1>3. /\ IsClient(updated) /\ updated.currentStk = g.currentStk
      /\ updated.requestNonce = g.requestNonce
  BY FALSE \in BOOLEAN, ClientUpdate
<1> HIDE DEF exited, updated
<1>4. /\ IsClient(entered) /\ entered.currentStk = g.currentStk
      /\ entered.requestNonce = g.requestNonce
  BY <1>3 DEF C!ClientPhaseEnter, IsClient
<1> HIDE DEF entered
<1>5. CASE o \in C(c)!ClientBuildMsgReq(entered, t, fresh)
  <2>1. ClientMove(entered, fresh, o)
    BY <1>4, <1>5, BuildMsgReqMove
  <2> QED BY <1>4, <2>1 DEF ClientMove
<1> QED BY <1>1, <1>2, <1>5 DEF Outcome, ClientMove

LEMMA ClientSecuredFdMove ==
    ASSUME NEW c, NEW g, IsClient(g), NEW m, m.ctrnonce \in Ctrnonce,
           NEW t \in Timestamp, NEW fresh,
           NEW o \in C(c)!ClientProcessReceivedSecuredFd(g, m, TRUE, t)
    PROVE  ClientMove(g, fresh, o)
<1> DEFINE exited == C(c)!ClientPhaseExitIfNeeded(g, t)
           isPrevious == C(c)!ClientIsPreviousSession(exited, m.ctrnonce)
           updated == C(c)!ClientUpdateCtrnonceAndRxTimestamp(exited, m.ctrnonce, t, isPrevious)
<1>1. \/ o = Outcome("NO_SESSION", exited, {}, {})
      \/ o = Outcome("OK", updated, {}, {m})
      \/ o = Outcome("REFUSED", exited, {}, {})
  BY DEF C!ClientProcessReceivedSecuredFd, C!Outcome, Outcome
<1>2. /\ IsClient(exited) /\ exited.currentStk = g.currentStk
      /\ exited.requestNonce = g.requestNonce
  BY ClientExit
<1>p. isPrevious \in BOOLEAN
  BY DEF C!ClientIsPreviousSession
<1> HIDE DEF exited, isPrevious
<1>3. /\ IsClient(updated) /\ updated.currentStk = g.currentStk
      /\ updated.requestNonce = g.requestNonce
  BY <1>2, <1>p, ClientUpdate
<1> HIDE DEF updated
<1> QED BY <1>1, <1>2, <1>3 DEF Outcome, ClientMove

LEMMA ClientBuildSecuredFdMove ==
    ASSUME NEW c, NEW g, IsClient(g), NEW fresh,
           NEW o \in C(c)!ClientBuildSecuredFd(g)
    PROVE  ClientMove(g, fresh, o)
<1> DEFINE sent == [g EXCEPT !.currentCtrNonce = C(c)!Incremented(@)]
           m == Sadfd(c, g.currentStk, g.currentCtrNonce)
<1>1. \/ o = Outcome("OK", sent, {m}, {})
      \/ o = Outcome("NO_SESSION", g, {}, {})
  BY DEF C!ClientBuildSecuredFd, C!Outcome, Outcome, C!Sadfd, Sadfd
<1>2. C(c)!Incremented(g.currentCtrNonce) \in Ctrnonce
  BY SameArithmetic, IncrementedType DEF IsClient
<1>3. IsClient(sent) /\ sent.currentStk = g.currentStk /\ sent.requestNonce = g.requestNonce
  BY <1>2 DEF IsClient
<1>4. IsMessage(m) /\ m.pty # "RES"
  BY DEF Sadfd, IsMessage, IsClient
<1> HIDE DEF sent, m
<1> QED BY <1>1, <1>3, <1>4 DEF Outcome, ClientMove

\* A Response is refused, or is for the Client's last Request and brings its
\* key; no other can then come.
ResponseTaken(c, g, m, o) ==
    /\ IsClient(o.group) /\ o.out = {}
    /\ \/ /\ o.group.currentStk = g.currentStk
          /\ o.group.requestNonce = g.requestNonce
       \/ /\ m.client = c /\ m.reqnonce = g.requestNonce /\ g.requestNonce # 0
          /\ o.group.currentStk = m.stk
          /\ o.group.requestNonce = 0

LEMMA ResponseMove ==
    ASSUME NEW c, NEW g, IsClient(g), NEW m, m.ctrnonce \in Ctrnonce, NEW t \in Timestamp,
           NEW o \in C(c)!ClientProcessReceivedResponse(g, m, TRUE, t)
    PROVE  ResponseTaken(c, g, m, o)
<1> DEFINE answered == [C(c)!ClientSessionReceived(g, m, t) EXCEPT
                            !.requestNonce = C(c)!NotExpectingAResponse]
<1>1. \/ o = Outcome("REFUSED", g, {}, {})
      \/ /\ o = Outcome("OK", answered, {}, {})
         /\ C(c)!ClientIsResponseValid(g, m, TRUE, t) /\ m.reqnonce = g.requestNonce
  BY DEF C!ClientProcessReceivedResponse, C!Outcome, Outcome
<1>2. IsClient(answered) /\ answered.currentStk = m.stk /\ answered.requestNonce = 0
  BY DEF C!ClientSessionReceived, C!NotExpectingAResponse, IsClient
<1>3. C(c)!ClientIsResponseValid(g, m, TRUE, t) => m.client = c /\ g.requestNonce # 0
  BY DEF C!ClientIsResponseValid, C!ClientIsResponseAcceptable, C!NotExpectingAResponse
<1> HIDE DEF answered
<1>4. CASE o = Outcome("REFUSED", g, {}, {})
  BY <1>4 DEF Outcome, ResponseTaken
<1>5. CASE /\ o = Outcome("OK", answered, {}, {})
           /\ C(c)!ClientIsResponseValid(g, m, TRUE, t) /\ m.reqnonce = g.requestNonce
  <2>1. o.group = answered /\ o.out = {}
    BY <1>5 DEF Outcome
  <2> QED BY <2>1, <1>2, <1>3, <1>5 DEF ResponseTaken
<1> QED BY <1>1, <1>4, <1>5

----------------------------------------------------------------------------
(* The invariant *)

\* Server and Clients have the fields of a Session. The Server's key is the
\* latest; those on their way to the Clients, and those they hold, are not
\* later. A Response to a Client's last Request does not bring an earlier key
\* than the Client's: it was built after the Client asked, while nothing else
\* could move the Client on.
KeysAreBehind ==
    /\ IsServer(server) /\ server.currentStk \in Nat
    /\ DOMAIN client = Clients /\ client = [c \in Clients |-> client[c]]
    /\ \A c \in Clients :
          /\ IsClient(client[c])
          /\ client[c].currentStk \in Nat
          /\ client[c].currentStk <= server.currentStk
    /\ \A m \in bus : m.pty = "RES" => m.stk \in Nat /\ m.stk <= server.currentStk
    /\ \A m \in bus, c \in Clients :
          /\ m.pty = "RES" /\ m.client = c
          /\ m.reqnonce = client[c].requestNonce /\ client[c].requestNonce # 0
          => client[c].currentStk <= m.stk

\* Nobody has the key of a Session the Server thinks has no receiver, and no
\* Response brings it.
NobodyHasIt ==
    /\ now \in Timestamp
    /\ IsDeaf(server) =>
          /\ \A c \in Clients : client[c].currentStk < server.currentStk
          /\ \A m \in bus : m.pty = "RES" => m.stk < server.currentStk

\* The previous key of the Server is an earlier one, or none, and what is on
\* the bus is a message.
PreviousIsEarlier ==
    /\ server.previousStk \in Nat /\ server.previousStk < server.currentStk
    /\ \A m \in bus : IsMessage(m)

Inv == KeysAreBehind /\ NobodyHasIt /\ PreviousIsEarlier

\* What is on the bus was on it before or is the reaction of a party.
LEMMA TransmitAdds ==
    ASSUME NEW out, Transmit(out)
    PROVE  bus' \subseteq bus \cup out
BY DEF Transmit

\* A step of the Server: the Clients follow none of it.
LEMMA ServerStep ==
    ASSUME Inv, NEW o, ServerMove(server, FreshStk, o),
           server' = o.group, client' = client, bus' \subseteq bus \cup o.out, now' = now
    PROVE  Inv' /\ [Keys!Next]_(Keys!vars)
<1>1. /\ bus' \subseteq bus \cup o.out
      /\ server' = o.group /\ client' = client
      /\ KeysAreBehind /\ NobodyHasIt /\ PreviousIsEarlier
  BY DEF Inv
<1>2. server.currentStk \in Nat /\ FreshStk = server.currentStk + 1
  BY <1>1 DEF KeysAreBehind, FreshStk
<1>3. /\ IsServer(server')
      /\ server'.currentStk = server.currentStk \/ server'.currentStk = server.currentStk + 1
      /\ \A m \in o.out : m.pty = "RES" => m.stk = server.currentStk
  BY <1>1, <1>2 DEF ServerMove
<1>4. server'.currentStk \in Nat /\ server.currentStk <= server'.currentStk
  BY <1>2, <1>3
<1>5. KeysAreBehind'
  <2>1. \A c \in Clients :
          /\ IsClient(client'[c])
          /\ client'[c].currentStk \in Nat
          /\ client'[c].currentStk <= server'.currentStk
    BY <1>1, <1>4 DEF KeysAreBehind
  <2>2. \A m \in bus' : m.pty = "RES" => m.stk \in Nat /\ m.stk <= server'.currentStk
    BY <1>1, <1>2, <1>3, <1>4 DEF KeysAreBehind
  <2>3. ASSUME NEW m \in bus', NEW c \in Clients,
               m.pty = "RES", m.client = c,
               m.reqnonce = client'[c].requestNonce, client'[c].requestNonce # 0
        PROVE  client'[c].currentStk <= m.stk
    <3>1. CASE m \in bus
      BY <1>1, <2>3, <3>1 DEF KeysAreBehind
    <3>2. CASE m \in o.out
      BY <1>1, <1>3, <2>3, <3>2 DEF KeysAreBehind
    <3> QED BY <1>1, <3>1, <3>2
  <2> QED BY <1>1, <1>3, <1>4, <2>1, <2>2, <2>3 DEF KeysAreBehind
<1>d. NobodyHasIt'
  <2>1. ASSUME IsDeaf(server'), server'.currentStk = server.currentStk
        PROVE  IsDeaf(server) /\ \A m \in o.out : m.pty # "RES"
    BY <1>1, <1>2, <2>1 DEF ServerMove
  <2>2. ASSUME IsDeaf(server'), server'.currentStk = server.currentStk
        PROVE  /\ \A c \in Clients : client'[c].currentStk < server'.currentStk
               /\ \A m \in bus' : m.pty = "RES" => m.stk < server'.currentStk
    BY <1>1, <2>1, <2>2 DEF NobodyHasIt
  <2>3. ASSUME server'.currentStk = server.currentStk + 1
        PROVE  /\ \A c \in Clients : client'[c].currentStk < server'.currentStk
               /\ \A m \in bus' : m.pty = "RES" => m.stk < server'.currentStk
    BY <1>1, <1>2, <1>3, <2>3 DEF KeysAreBehind
  <2> QED BY <1>1, <1>3, <2>2, <2>3 DEF NobodyHasIt
<1>e. PreviousIsEarlier'
  <2>1. \A m \in bus' : IsMessage(m)
    BY <1>1 DEF PreviousIsEarlier, ServerMove
  <2>2. server'.previousStk \in Nat /\ server'.previousStk < server'.currentStk
    BY <1>1, <1>2 DEF PreviousIsEarlier, ServerMove, NoStk
  <2> QED BY <2>1, <2>2 DEF PreviousIsEarlier
<1>6. CASE server'.currentStk = server.currentStk
  BY <1>1, <1>5, <1>d, <1>e, <1>6 DEF Keys!vars, Inv
<1>7. CASE server'.currentStk = server.currentStk + 1
  <2>1. Keys!Open
    BY <1>1, <1>2, <1>7 DEF Keys!Open
  <2> QED BY <1>5, <1>d, <1>e, <2>1 DEF Keys!Next, Inv
<1> QED BY <1>3, <1>6, <1>7

\* A step of a Client that brings it no key: its Request's nonce is the one it
\* had, or one that no Response on the bus has.
LEMMA ClientStep ==
    ASSUME Inv, NEW c \in Clients, NEW o, NEW n,
           \/ n = client[c].requestNonce
           \/ \A m \in bus : m.pty = "RES" => m.reqnonce # n,
           ClientMove(client[c], n, o), ClientReturn(c, o)
    PROVE  Inv' /\ UNCHANGED Keys!vars
<1>1. /\ bus' \subseteq bus \cup o.out
      /\ server' = server /\ client' = [client EXCEPT ![c] = o.group]
      /\ now' = now /\ KeysAreBehind /\ NobodyHasIt /\ PreviousIsEarlier
  BY TransmitAdds DEF ClientReturn, Inv
<1>2. /\ IsClient(o.group) /\ o.group.currentStk = client[c].currentStk
      /\ o.group.requestNonce \in {client[c].requestNonce, n}
      /\ \A m \in o.out : IsMessage(m) /\ m.pty # "RES"
  BY DEF ClientMove
<1>3. /\ DOMAIN client' = Clients /\ client' = [d \in Clients |-> client'[d]]
      /\ client'[c] = o.group
      /\ \A d \in Clients \ {c} : client'[d] = client[d]
  BY <1>1 DEF KeysAreBehind
<1>4. \A d \in Clients : IsClient(client'[d]) /\ client'[d].currentStk = client[d].currentStk
  BY <1>1, <1>2, <1>3 DEF KeysAreBehind
<1>5. \A m \in bus' : m.pty = "RES" => m \in bus
  BY <1>1, <1>2
<1>6. ASSUME NEW m \in bus', NEW d \in Clients,
             m.pty = "RES", m.client = d,
             m.reqnonce = client'[d].requestNonce, client'[d].requestNonce # 0
      PROVE  client'[d].currentStk <= m.stk
  <2>1. m \in bus /\ client'[d].currentStk = client[d].currentStk
    BY <1>4, <1>5, <1>6
  <2>2. client'[d].requestNonce = client[d].requestNonce
    BY <1>2, <1>3, <1>6, <2>1
  <2> QED BY <1>1, <1>6, <2>1, <2>2 DEF KeysAreBehind
<1>7. KeysAreBehind'
  BY <1>1, <1>3, <1>4, <1>5, <1>6 DEF KeysAreBehind
<1>d. NobodyHasIt'
  BY <1>1, <1>4, <1>5 DEF NobodyHasIt
<1>e. PreviousIsEarlier'
  BY <1>1, <1>2 DEF PreviousIsEarlier
<1>8. UNCHANGED Keys!vars
  BY <1>1, <1>4 DEF Keys!vars
<1> QED BY <1>7, <1>8, <1>d, <1>e DEF Inv

\* A Response moves a Client to the key of the Session the Server had when it
\* answered, which is not earlier than the Client's.
LEMMA ResponseStep ==
    ASSUME Inv, NEW c \in Clients, NEW m \in bus, m.pty = "RES",
           NEW o \in C(c)!ClientProcessReceivedResponse(client[c], m, TRUE, now),
           ClientReturn(c, o)
    PROVE  Inv' /\ [Keys!Next]_(Keys!vars)
<1>b. KeysAreBehind /\ NobodyHasIt /\ PreviousIsEarlier
  BY DEF Inv
<1>a. ResponseTaken(c, client[c], m, o)
  <2>1. IsClient(client[c]) /\ m.ctrnonce \in Ctrnonce /\ now \in Timestamp
    BY <1>b DEF KeysAreBehind, PreviousIsEarlier, NobodyHasIt, IsMessage
  <2> QED BY <2>1, ResponseMove
<1>1. /\ IsClient(o.group) /\ o.out = {}
      /\ \/ /\ o.group.currentStk = client[c].currentStk
            /\ o.group.requestNonce = client[c].requestNonce
         \/ /\ m.client = c /\ m.reqnonce = client[c].requestNonce
            /\ client[c].requestNonce # 0
            /\ o.group.currentStk = m.stk
            /\ o.group.requestNonce = 0
  BY <1>a DEF ResponseTaken
<1>2. /\ bus' \subseteq bus \cup o.out
      /\ server' = server /\ client' = [client EXCEPT ![c] = o.group]
      /\ now' = now
  BY TransmitAdds DEF ClientReturn
<1>3. /\ DOMAIN client' = Clients /\ client' = [d \in Clients |-> client'[d]]
      /\ client'[c] = o.group
      /\ \A d \in Clients \ {c} : client'[d] = client[d]
  BY <1>2, <1>b DEF KeysAreBehind
<1>4. /\ o.group.currentStk \in Nat
      /\ client[c].currentStk <= o.group.currentStk
      /\ o.group.currentStk <= server.currentStk
  BY <1>1, <1>b DEF KeysAreBehind
<1>5. KeysAreBehind'
  <2>1. \A d \in Clients :
          /\ IsClient(client'[d])
          /\ client'[d].currentStk \in Nat
          /\ client'[d].currentStk <= server'.currentStk
    BY <1>1, <1>2, <1>3, <1>4, <1>b DEF KeysAreBehind
  <2>2. ASSUME NEW x \in bus', NEW d \in Clients,
               x.pty = "RES", x.client = d,
               x.reqnonce = client'[d].requestNonce, client'[d].requestNonce # 0
        PROVE  client'[d].currentStk <= x.stk
    <3>1. x \in bus
      BY <1>1, <1>2
    <3>2. client'[d].currentStk = client[d].currentStk
          /\ client'[d].requestNonce = client[d].requestNonce
      BY <1>1, <1>3, <2>2
    <3> QED BY <2>2, <3>1, <3>2, <1>b DEF KeysAreBehind
  <2> QED BY <1>1, <1>2, <1>3, <2>1, <2>2, <1>b DEF KeysAreBehind
<1>d. NobodyHasIt'
  <2>1. IsDeaf(server) => m.stk < server.currentStk
    BY <1>b DEF NobodyHasIt
  <2>2. IsDeaf(server) => \A d \in Clients : client'[d].currentStk < server.currentStk
    BY <1>1, <1>3, <2>1, <1>b DEF NobodyHasIt
  <2> QED BY <1>1, <1>2, <2>2, <1>b DEF NobodyHasIt
<1>e. PreviousIsEarlier'
  BY <1>1, <1>2, <1>b DEF PreviousIsEarlier
<1>6. CASE o.group.currentStk = client[c].currentStk
  <2>1. \A d \in Clients : client'[d].currentStk = client[d].currentStk
    BY <1>3, <1>6
  <2> QED BY <1>2, <1>5, <1>d, <1>e, <2>1 DEF Keys!vars, Inv
<1>7. CASE o.group.currentStk # client[c].currentStk
  <2> DEFINE held == [d \in Clients |-> client[d].currentStk]
             k == o.group.currentStk
  <2>1. k \in held[c] + 1 .. server.currentStk /\ held[c] < server.currentStk
    BY <1>4, <1>7, <1>b DEF KeysAreBehind
  <2>2. [d \in Clients |-> client'[d].currentStk] = [held EXCEPT ![c] = k]
    BY <1>3
  <2>3. Keys!Follow(c)
    BY <1>2, <2>1, <2>2 DEF Keys!Follow
  <2> QED BY <1>5, <1>d, <1>e, <2>3 DEF Keys!Next, Inv
<1> QED BY <1>6, <1>7

\* A Client that restarts forgets its key.
LEMMA RestartStep ==
    ASSUME Inv, NEW c \in Clients, ClientRestart(c)
    PROVE  Inv' /\ [Keys!Next]_(Keys!vars)
<1> DEFINE cleared == C(c)!ClientClearedState
           held == [d \in Clients |-> client[d].currentStk]
<1>b. KeysAreBehind /\ NobodyHasIt /\ PreviousIsEarlier
  BY DEF Inv
<1>1. IsClient(cleared) /\ cleared.currentStk = 0 /\ cleared.requestNonce = 0
  BY Zeros DEF C!ClientClearedState, C!NoStk, C!NotExpectingAResponse, IsClient
<1>2. now' = now /\ server' = server /\ bus' = bus /\ client' = [client EXCEPT ![c] = cleared]
  BY DEF ClientRestart
<1> HIDE DEF cleared
<1>3. /\ DOMAIN client' = Clients /\ client' = [d \in Clients |-> client'[d]]
      /\ client'[c] = cleared
      /\ \A d \in Clients \ {c} : client'[d] = client[d]
  BY <1>2, <1>b DEF KeysAreBehind
<1>4. \A d \in Clients :
        /\ IsClient(client'[d])
        /\ client'[d].currentStk \in Nat
        /\ client'[d].currentStk <= server'.currentStk
  BY <1>1, <1>2, <1>3, <1>b DEF KeysAreBehind
<1>5. ASSUME NEW x \in bus', NEW d \in Clients,
             x.pty = "RES", x.client = d,
             x.reqnonce = client'[d].requestNonce, client'[d].requestNonce # 0
      PROVE  client'[d].currentStk <= x.stk
  BY <1>1, <1>2, <1>3, <1>5, <1>b DEF KeysAreBehind
<1>6. KeysAreBehind'
  BY <1>2, <1>3, <1>4, <1>5, <1>b DEF KeysAreBehind
<1>d. NobodyHasIt'
  <2>1. IsDeaf(server) => 0 < server.currentStk
    BY <1>b DEF NobodyHasIt, KeysAreBehind
  <2> QED BY <1>1, <1>2, <1>3, <2>1, <1>b DEF NobodyHasIt
<1>7. [d \in Clients |-> client'[d].currentStk] = [held EXCEPT ![c] = 0]
  BY <1>1, <1>3
<1>8. Keys!Forget(c)
  BY <1>2, <1>7 DEF Keys!Forget
<1>e. PreviousIsEarlier'
  BY <1>2, <1>b DEF PreviousIsEarlier
<1> QED BY <1>6, <1>8, <1>d, <1>e DEF Keys!Next, Inv

\* The same, of a call that returns.
LEMMA ServerReturnStep ==
    ASSUME Inv, NEW o, ServerMove(server, FreshStk, o), ServerReturn(o)
    PROVE  Inv' /\ [Keys!Next]_(Keys!vars)
<1>1. /\ bus' \subseteq bus \cup o.out
      /\ server' = o.group /\ client' = client /\ now' = now
  BY TransmitAdds DEF ServerReturn
<1> QED BY <1>1, ServerStep

----------------------------------------------------------------------------
(* The theorem *)

LEMMA InitMaps == Init => Inv /\ Keys!Init
<1> SUFFICES ASSUME Init PROVE Inv /\ Keys!Init
  OBVIOUS
<1>1. IsServer(server) /\ server.currentStk = 1 /\ server.previousStk = 0
  BY Zeros DEF Init, ServerStartedSession, IsServer, NoStk
<1>2. bus = {} /\ client = [c \in Clients |-> C(c)!ClientClearedState]
  BY DEF Init
<1>3. \A c \in Clients :
        IsClient(C(c)!ClientClearedState) /\ C(c)!ClientClearedState.currentStk = 0
  BY Zeros DEF C!ClientClearedState, C!NoStk, IsClient
<1>4. \A c \in Clients : IsClient(client[c]) /\ client[c].currentStk = 0
  BY <1>2, <1>3
<1>5. DOMAIN client = Clients /\ client = [c \in Clients |-> client[c]]
  BY <1>2
<1>6. now \in Timestamp
  BY TimestampDomainSizeAssumption DEF Init, Timestamp
<1> QED BY <1>1, <1>2, <1>4, <1>5, <1>6
        DEF Inv, KeysAreBehind, NobodyHasIt, PreviousIsEarlier, Keys!Init

LEMMA NextMaps ==
    ASSUME Inv, [Next]_vars
    PROVE  Inv' /\ [Keys!Next]_(Keys!vars)
<1> USE ClientsAssumption
<1> DEFINE Goal == Inv' /\ [Keys!Next]_(Keys!vars)
<1>1. /\ IsServer(server) /\ \A c \in Clients : IsClient(client[c])
      /\ now \in Timestamp
      /\ \A m \in bus : m.pty # "REQ" => m.ctrnonce \in Ctrnonce
  BY DEF Inv, KeysAreBehind, NobodyHasIt, PreviousIsEarlier, IsMessage
<1>2. \A c \in Clients : \A n \in FreshReqnonces(c) :
        \A m \in bus : m.pty = "RES" => m.reqnonce # n
  BY DEF FreshReqnonces
<1> HIDE DEF Goal
<1>3. CASE UNCHANGED vars
  BY <1>3 DEF vars, Inv, KeysAreBehind, NobodyHasIt, PreviousIsEarlier, Keys!vars, Goal
<1>4. CASE Tick
  <2>1. PICK d \in ClockSteps : now' = (now + d) % TimestampDomainSize
    BY <1>4 DEF Tick
  <2>2. now' \in Timestamp
    BY <1>1, <2>1, BusClockAssumption, TimestampDomainSizeAssumption DEF Timestamp
  <2>3. server' = server /\ client' = client /\ bus' = bus
    BY <1>4 DEF Tick
  <2>4. Inv'
    BY <2>2, <2>3 DEF Inv, KeysAreBehind, NobodyHasIt, PreviousIsEarlier
  <2> QED BY <2>3, <2>4 DEF Keys!vars, Goal
<1>5. CASE ServerRestart
  <2> DEFINE o == Outcome("OK", ServerStartedSession(now, FreshStk), {}, {})
  <2>1. ServerMove(server, FreshStk, o)
    BY <1>1, <1>5, Zeros
    DEF ServerRestart, Outcome, ServerStartedSession, ServerMove, IsServer, NoStk
  <2>2. now' = now /\ server' = o.group /\ bus' \subseteq bus \cup o.out /\ client' = client
    BY <1>5 DEF ServerRestart, Outcome
  <2> QED BY <2>1, <2>2, ServerStep DEF Goal
<1>6. CASE ServerForce
  <2>1. PICK o \in ServerForceSessionRenewal(server, now, FreshStk) : ServerReturn(o)
    BY <1>6 DEF ServerForce
  <2>2. ServerMove(server, FreshStk, o)
    BY <1>1, ForceMove
  <2> QED BY <2>1, <2>2, ServerReturnStep DEF Goal
<1>7. CASE ServerSend
  <2>1. PICK o \in ServerBuildSecuredFd(server) : ServerReturn(o)
    BY <1>7 DEF ServerSend
  <2>2. ServerMove(server, FreshStk, o)
    BY <1>1, BuildSecuredFdMove
  <2> QED BY <2>1, <2>2, ServerReturnStep DEF Goal
<1>8. ASSUME NEW m \in bus, ServerReceive(m)
      PROVE  Goal
  <2>1. CASE \E o \in ServerProcessReceivedRequest(server, m, TRUE, now) : ServerReturn(o)
    <3>1. PICK o \in ServerProcessReceivedRequest(server, m, TRUE, now) : ServerReturn(o)
      BY <2>1
    <3>2. ServerMove(server, FreshStk, o)
      BY <1>1, RequestMove
    <3> QED BY <3>1, <3>2, ServerReturnStep DEF Goal
  <2>2. CASE /\ m.pty = "SADFD"
             /\ \E o \in ServerProcessReceivedSecuredFd(server, m, TRUE, now, FreshStk) :
                   ServerReturn(o)
    <3>1. PICK o \in ServerProcessReceivedSecuredFd(server, m, TRUE, now, FreshStk) :
            ServerReturn(o)
      BY <2>2
    <3>2. ServerMove(server, FreshStk, o)
      BY <1>1, <2>2, SecuredFdMove
    <3> QED BY <3>1, <3>2, ServerReturnStep DEF Goal
  <2> QED BY <1>8, <2>1, <2>2 DEF ServerReceive
<1>9. ASSUME NEW c \in Clients, ClientRestart(c)
      PROVE  Goal
  BY <1>9, RestartStep DEF Goal
<1>10. ASSUME NEW c \in Clients, ClientSend(c)
       PROVE  Goal
  <2>1. PICK o \in C(c)!ClientBuildSecuredFd(client[c]) : ClientReturn(c, o)
    BY <1>10 DEF ClientSend
  <2>2. ClientMove(client[c], client[c].requestNonce, o)
    BY <1>1, ClientBuildSecuredFdMove
  <2> QED BY <2>1, <2>2, ClientStep DEF Goal
<1>11. ASSUME NEW c \in Clients, ClientAsk(c)
       PROVE  Goal
  <2>n. PICK n \in FreshReqnonces(c) :
          \E o \in C(c)!ClientBuildRequest(client[c], now, n) : ClientReturn(c, o)
    BY <1>11 DEF ClientAsk
  <2>1. PICK o \in C(c)!ClientBuildRequest(client[c], now, n) : ClientReturn(c, o)
    BY <2>n
  <2>2. ClientMove(client[c], n, o)
    BY <1>1, BuildRequestMove
  <2> QED BY <1>2, <2>1, <2>2, ClientStep DEF Goal
<1>12. ASSUME NEW c \in Clients, NEW m \in bus, ClientReceive(c, m)
       PROVE  Goal
  <2>1. CASE /\ m.pty = "RES"
             /\ \E o \in C(c)!ClientProcessReceivedResponse(client[c], m, TRUE, now) :
                   ClientReturn(c, o)
    BY <2>1, ResponseStep DEF Goal
  <2>2. CASE /\ m.pty = "REN"
             /\ \E n \in FreshReqnonces(c) :
                   \E o \in C(c)!ClientProcessReceivedRenewal(client[c], m, TRUE, now, n) :
                      ClientReturn(c, o)
    <3>n. PICK n \in FreshReqnonces(c) :
            \E o \in C(c)!ClientProcessReceivedRenewal(client[c], m, TRUE, now, n) :
              ClientReturn(c, o)
      BY <2>2
    <3>1. PICK o \in C(c)!ClientProcessReceivedRenewal(client[c], m, TRUE, now, n) :
            ClientReturn(c, o)
      BY <3>n
    <3>2. ClientMove(client[c], n, o)
      BY <1>1, <2>2, RenewalMove
    <3> QED BY <1>2, <3>1, <3>2, ClientStep DEF Goal
  <2>3. CASE /\ m.pty = "SADFD"
             /\ \E o \in C(c)!ClientProcessReceivedSecuredFd(client[c], m, TRUE, now) :
                   ClientReturn(c, o)
    <3>1. PICK o \in C(c)!ClientProcessReceivedSecuredFd(client[c], m, TRUE, now) :
            ClientReturn(c, o)
      BY <2>3
    <3>2. ClientMove(client[c], client[c].requestNonce, o)
      BY <1>1, <2>3, ClientSecuredFdMove
    <3> QED BY <3>1, <3>2, ClientStep DEF Goal
  <2> QED BY <1>12, <2>1, <2>2, <2>3 DEF ClientReceive
<1> QED
  BY <1>3, <1>4, <1>5, <1>6, <1>7, <1>8, <1>9, <1>10, <1>11, <1>12 DEF Next, Goal

LEMMA InvCorrect == Spec => []Inv
<1>1. Init => Inv
  BY InitMaps
<1>2. Inv /\ [Next]_vars => Inv'
  BY NextMaps
<1> QED BY <1>1, <1>2, PTL DEF Spec

\* Whatever is lost, repeated or overtaken and whoever restarts, the parties on
\* the bus do with their keys only what GroupKeys lets them do.
THEOREM KeysPromiseSafely == Spec => Keys!Spec
<1>1. Init => Inv /\ Keys!Init
  BY InitMaps
<1>2. Inv /\ [Next]_vars => Inv' /\ [Keys!Next]_(Keys!vars)
  BY NextMaps
<1> QED BY <1>1, <1>2, PTL DEF Spec, Keys!Spec

\* Whatever the clock shows and whoever restarts, the Server never refuses to
\* transmit to a Client that has its key.
THEOREM DeafMeansAloneCorrect == Spec => []DeafMeansAlone
<1>1. Inv => DeafMeansAlone
  BY DEF Inv, KeysAreBehind, NobodyHasIt, IsDeaf, DeafMeansAlone
<1> QED BY <1>1, InvCorrect, PTL

----------------------------------------------------------------------------
(* Who hears whom *)

\* In a renewal phase that is not over, the average of the two counter nonces
\* is above the current one, and not above the previous one, if that one went
\* further than a phase lasts.
LEMMA AverageIsBetween ==
    ASSUME NEW cur \in Nat, NEW prev \in Nat, cur < 2 * MaxCtrnonceDelayMsgs,
           prev > 2 * MaxCtrnonceDelayMsgs
    PROVE  cur < (cur + prev) \div 2 /\ (cur + prev) \div 2 <= prev
<1> USE MaxCtrnonceDelayMsgsAssumption
<1>1. prev >= cur + 2
  OBVIOUS
<1> QED BY <1>1

\* Opening a Session is no refusal.
LEMMA EnterIsNoRefusal ==
    ASSUME NEW g, NEW t, NEW fresh, NEW o \in ServerPhaseEnterIfNeeded(g, t, fresh)
    PROVE  o.err \in {"OK", "FAILED"}
<1>1. ASSUME NEW x \in ServerPhaseEnter(g, t, fresh)
      PROVE  x.err \in {"OK", "FAILED"}
  <2>1. \/ \E h : x = Outcome("FAILED", h, {}, {})
        \/ \E h, ok : x = Outcome(IF ok THEN "OK" ELSE "FAILED", h, {}, {})
    BY <1>1, Zenon DEF ServerPhaseEnter
  <2> QED BY <2>1 DEF Outcome
<1>2. ServerBuildMsgRenewal(g).err = "OK"
  BY DEF ServerBuildMsgRenewal, Outcome
<1>3. CASE o \in ServerRenew(g, t, fresh)
  <2>1. PICK e \in ServerPhaseEnter(g, t, fresh) :
          o = IF e.err = "OK" THEN ServerBuildMsgRenewal(e.group) ELSE e
    BY <1>3 DEF ServerRenew
  <2> QED BY <1>1, <2>1 DEF ServerBuildMsgRenewal, Outcome
<1> QED BY <1>3 DEF ServerPhaseEnterIfNeeded, Outcome

\* The Server accepts a message with the key and the very counter nonce of the
\* Session it takes it for.
LEMMA ServerAccepts ==
    ASSUME NEW g, IsServer(g), NEW t \in Timestamp, NEW fresh, NEW m, NEW e,
           e = ServerPhaseExitIfNeeded(g, t),
           ServerValidateSidAndGid(m.sid), ~CtrnonceIsExpired(m.ctrnonce),
           IF ServerIsPreviousSession(e, m.ctrnonce)
           THEN m.stk = e.previousStk /\ m.ctrnonce = e.previousCtrNonce
           ELSE m.stk = e.currentStk /\ m.ctrnonce = e.currentCtrNonce,
           NEW o \in ServerProcessReceivedSecuredFd(g, m, TRUE, t, fresh)
    PROVE  o.err # "REFUSED"
<1> USE MaxCtrnonceDelayMsgsAssumption
<1>1. IsServer(e)
  BY Zeros DEF ServerPhaseExitIfNeeded, IsServer
<1>2. /\ CtrDelay(e.previousRxLastMessageInstant, t) \in Nat
      /\ CtrDelay(e.currentRxLastMessageInstant, t) \in Nat
  BY <1>1, CtrDelayBounded DEF IsServer
<1>3. ServerCheckRxCtrnonce(e, m.ctrnonce, t)
  BY <1>1, <1>2 DEF ServerCheckRxCtrnonce, IsServer, Ctrnonce
<1>4. m.stk = ServerChooseStk(e, ServerIsPreviousSession(e, m.ctrnonce))
  BY DEF ServerChooseStk
<1>5. PICK received : \E r \in ServerPhaseEnterIfNeeded(received, t, fresh) :
        o = [r EXCEPT !.sdu = {m}]
  BY <1>3, <1>4 DEF ServerProcessReceivedSecuredFd
<1>6. PICK r \in ServerPhaseEnterIfNeeded(received, t, fresh) : o = [r EXCEPT !.sdu = {m}]
  BY <1>5
<1> QED BY <1>6, EnterIsNoRefusal

\* What a Client transmits is under its key and has its counter nonce.
LEMMA ClientTransmits ==
    ASSUME NEW c, NEW g, NEW b \in C(c)!ClientBuildSecuredFd(g), NEW m \in b.out
    PROVE  /\ m.sid = c /\ m.stk = g.currentStk /\ m.ctrnonce = g.currentCtrNonce
           /\ ~CtrnonceIsExpired(m.ctrnonce) /\ m.stk # NoStk
BY SameArithmetic
DEF C!ClientBuildSecuredFd, C!Outcome, C!Sadfd, C!ClientIsSessionEstablishedAndValid,
    C!NoStk, NoStk

\* The Server is in step with the Clients that have both its key and its
\* counter nonce.
LEMMA HearsInStep ==
    ASSUME Inv, NEW c \in Clients, c < AmountOfClients, IsToldApart(server),
           client[c].currentStk = server.currentStk,
           client[c].currentCtrNonce = server.currentCtrNonce
    PROVE  ServerHears(c)
<1> SUFFICES ASSUME NEW b \in C(c)!ClientBuildSecuredFd(client[c]), NEW m \in b.out,
                    NEW o \in ServerProcessReceivedSecuredFd(server, m, TRUE, now, FreshStk)
             PROVE  o.err # "REFUSED"
  BY DEF ServerHears
<1> DEFINE e == ServerPhaseExitIfNeeded(server, now)
<1>1. /\ IsServer(server) /\ now \in Timestamp
      /\ server.previousStk # server.currentStk
  BY DEF Inv, KeysAreBehind, NobodyHasIt, PreviousIsEarlier
<1>2. /\ m.sid = c /\ m.stk = server.currentStk /\ m.ctrnonce = server.currentCtrNonce
      /\ ~CtrnonceIsExpired(m.ctrnonce)
  BY ClientTransmits
<1>3. e.currentStk = server.currentStk /\ e.currentCtrNonce = server.currentCtrNonce
  BY <1>1 DEF ServerPhaseExitIfNeeded, IsServer
<1>4. ASSUME ServerPhaseIsActive(e)
      PROVE  m.ctrnonce < (e.currentCtrNonce + e.previousCtrNonce) \div 2
  <2>1. e = server /\ ~ServerPhaseIsOver(server, now)
    BY <1>1, <1>4 DEF ServerPhaseExitIfNeeded, ServerPhaseIsActive, IsServer
  <2>2. server.previousCtrNonce > 2 * MaxCtrnonceDelayMsgs
    BY <1>1, <1>4, <2>1 DEF IsToldApart, ServerPhaseIsActive
  <2>3. server.currentCtrNonce < 2 * MaxCtrnonceDelayMsgs
    BY <1>1, <2>1, MaxCtrnonceDelayMsgsAssumption DEF ServerPhaseIsOver, IsServer, Ctrnonce
  <2>4. server.currentCtrNonce \in Nat /\ server.previousCtrNonce \in Nat
    BY <1>1 DEF IsServer, Ctrnonce
  <2> QED BY <1>2, <2>1, <2>2, <2>3, <2>4, AverageIsBetween
<1>5. ~ServerIsPreviousSession(e, m.ctrnonce)
  <2>1. e.currentCtrNonce \in Nat /\ e.previousCtrNonce \in Nat
    BY <1>1 DEF ServerPhaseExitIfNeeded, IsServer, Ctrnonce
  <2> HIDE DEF e
  <2> QED BY <1>2, <1>3, <1>4, <2>1
          DEF ServerIsPreviousSession, ServerIsCtrNonceOfPreviousSession
<1>6. ServerValidateSidAndGid(m.sid)
  BY <1>2, ClientsAssumption DEF ServerValidateSidAndGid
<1> HIDE DEF e
<1> QED BY <1>1, <1>2, <1>3, <1>5, <1>6, ServerAccepts DEF e

\* Until the phase is over it is in step with those that have both its previous
\* key and its previous counter nonce.
LEMMA HearsTheSlow ==
    ASSUME Inv, NEW c \in Clients, c < AmountOfClients, IsToldApart(server),
           ServerPhaseIsActive(server), ~ServerPhaseIsOver(server, now),
           client[c].currentStk = server.previousStk,
           client[c].currentCtrNonce = server.previousCtrNonce
    PROVE  ServerHears(c)
<1> SUFFICES ASSUME NEW b \in C(c)!ClientBuildSecuredFd(client[c]), NEW m \in b.out,
                    NEW o \in ServerProcessReceivedSecuredFd(server, m, TRUE, now, FreshStk)
             PROVE  o.err # "REFUSED"
  BY DEF ServerHears
<1>1. /\ IsServer(server) /\ now \in Timestamp
      /\ server.previousStk # server.currentStk
  BY DEF Inv, KeysAreBehind, NobodyHasIt, PreviousIsEarlier
<1>2. /\ m.sid = c /\ m.stk = server.previousStk /\ m.ctrnonce = server.previousCtrNonce
      /\ ~CtrnonceIsExpired(m.ctrnonce)
  BY ClientTransmits
<1>3. server = ServerPhaseExitIfNeeded(server, now)
  BY DEF ServerPhaseExitIfNeeded
<1>4. server.previousCtrNonce > 2 * MaxCtrnonceDelayMsgs
  BY <1>1 DEF IsToldApart, ServerPhaseIsActive
<1>5. server.currentCtrNonce < 2 * MaxCtrnonceDelayMsgs
  BY <1>1, MaxCtrnonceDelayMsgsAssumption DEF ServerPhaseIsOver, IsServer, Ctrnonce
<1>6. server.currentCtrNonce \in Nat /\ server.previousCtrNonce \in Nat
  BY <1>1 DEF IsServer, Ctrnonce
<1>7. (server.currentCtrNonce + server.previousCtrNonce) \div 2 <= m.ctrnonce
  BY <1>2, <1>4, <1>5, <1>6, AverageIsBetween
<1>8. ServerIsPreviousSession(server, m.ctrnonce)
  BY <1>2, <1>6, <1>7 DEF ServerIsPreviousSession, ServerIsCtrNonceOfPreviousSession
<1>9. ServerValidateSidAndGid(m.sid)
  BY <1>2, ClientsAssumption DEF ServerValidateSidAndGid
<1> QED BY <1>1, <1>2, <1>3, <1>8, <1>9, ServerAccepts

\* A Client accepts a message with its key and its counter nonce; in a phase in
\* which both its Sessions have that key, with the help of the tolerance.
LEMMA HearsEachOther ==
    ASSUME Inv, NEW c \in Clients, NEW d \in Clients, IsToldApart(client[d]),
           IsTolerant(client[d]),
           client[c].currentStk = client[d].currentStk,
           client[c].currentCtrNonce = client[d].currentCtrNonce
    PROVE  ClientHears(d, c)
<1> SUFFICES ASSUME NEW b \in C(c)!ClientBuildSecuredFd(client[c]), NEW m \in b.out,
                    NEW o \in C(d)!ClientProcessReceivedSecuredFd(client[d], m, TRUE, now)
             PROVE  o.err = "OK"
  BY DEF ClientHears
<1> USE MaxCtrnonceDelayMsgsAssumption
<1> DEFINE g == client[d]
           e == C(d)!ClientPhaseExitIfNeeded(g, now)
           average == (e.currentCtrNonce + e.previousCtrNonce) \div 2
<1>1. IsClient(g) /\ now \in Timestamp
  BY DEF Inv, KeysAreBehind, NobodyHasIt
<1>2. /\ m.stk = g.currentStk /\ m.ctrnonce = g.currentCtrNonce
      /\ ~CtrnonceIsExpired(m.ctrnonce) /\ m.stk # NoStk
  BY ClientTransmits
<1>3. IsClient(e) /\ e.currentStk = g.currentStk /\ e.currentCtrNonce = g.currentCtrNonce
  BY <1>1, Zeros DEF C!ClientPhaseExitIfNeeded, IsClient
<1>4. /\ CtrDelay(e.previousRxLastMessageInstant, now) \in Nat
      /\ CtrDelay(e.currentRxLastMessageInstant, now) \in Nat
  BY <1>1, <1>3, CtrDelayBounded DEF IsClient
<1>5. e.currentCtrNonce \in Nat /\ e.previousCtrNonce \in Nat
  BY <1>3 DEF IsClient, Ctrnonce
<1>6. ASSUME C(d)!ClientPhaseIsActive(e)
      PROVE  /\ e = g /\ g.currentCtrNonce < 2 * MaxCtrnonceDelayMsgs
             /\ g.previousStk # NoStk
  <2>1. e = g /\ ~C(d)!ClientPhaseIsOver(g, now) /\ g.previousStk # NoStk
    BY <1>1, <1>6 DEF C!ClientPhaseExitIfNeeded, C!ClientPhaseIsActive, IsClient, C!NoStk, NoStk
  <2> QED BY <1>1, <2>1 DEF C!ClientPhaseIsOver, IsClient, Ctrnonce
<1> HIDE DEF g, e
<1>7. ASSUME C(d)!ClientIsPreviousSession(e, m.ctrnonce)
      PROVE  /\ e.previousStk = e.currentStk
             /\ m.ctrnonce >= e.previousCtrNonce - CtrDelay(e.previousRxLastMessageInstant, now)
  <2>1. C(d)!ClientPhaseIsActive(e) /\ m.ctrnonce >= average
    BY <1>7 DEF C!ClientIsPreviousSession, C!ClientIsCtrNonceOfPreviousSession
  <2>2. e = g /\ g.currentCtrNonce < 2 * MaxCtrnonceDelayMsgs /\ g.previousStk # NoStk
    BY <1>6, <2>1
  <2>3. g.previousStk = g.currentStk
    <3>1. ASSUME g.previousCtrNonce > 2 * MaxCtrnonceDelayMsgs
          PROVE  FALSE
      BY <1>2, <1>5, <2>1, <2>2, <3>1, AverageIsBetween
    <3> QED BY <2>2, <3>1 DEF IsToldApart, g
  <2>4. CtrDelay(e.previousRxLastMessageInstant, now) > 0
    BY <2>2, <2>3 DEF IsTolerant, g
  <2>5. e.previousCtrNonce <= e.currentCtrNonce + 1
    BY <1>2, <1>3, <1>5, <2>1
  <2> QED BY <1>2, <1>3, <1>4, <1>5, <2>2, <2>3, <2>4, <2>5
<1>8. C(d)!ClientCheckRxCtrnonce(e, m.ctrnonce, now)
  BY <1>2, <1>3, <1>4, <1>5, <1>7, SameArithmetic DEF C!ClientCheckRxCtrnonce
<1>9. m.stk = C(d)!ClientChooseStk(e, C(d)!ClientIsPreviousSession(e, m.ctrnonce))
  BY <1>2, <1>3, <1>7 DEF C!ClientChooseStk
<1>10. C(d)!ClientIsSessionEstablishedAndValid(e)
  BY <1>2, <1>3, SameArithmetic DEF C!ClientIsSessionEstablishedAndValid, C!NoStk, NoStk
<1> QED BY <1>8, <1>9, <1>10
        DEF C!ClientProcessReceivedSecuredFd, C!Outcome, e, g

\* In or out of a renewal phase the Server hears the Clients that share its
\* Session and missed nothing, but for the one with the highest SID.
THEOREM InStepIsHeardCorrect ==
    ASSUME \A c \in Clients : c < AmountOfClients
    PROVE  Spec => []InStepIsHeard
<1>1. Inv => InStepIsHeard
  BY HearsInStep DEF InStepIsHeard
<1> QED BY <1>1, InvCorrect, PTL

\* Until the phase is over it also hears those that missed nothing of the
\* Session before.
THEOREM SlowIsHeardCorrect ==
    ASSUME \A c \in Clients : c < AmountOfClients
    PROVE  Spec => []SlowIsHeard
<1>1. Inv => SlowIsHeard
  BY HearsTheSlow DEF SlowIsHeard
<1> QED BY <1>1, InvCorrect, PTL

\* Clients that share key and counter nonce hear one another, whichever of them
\* is in a phase, and also while the two Sessions of one are the same.
THEOREM ClientsHearEachOtherCorrect == Spec => []ClientsHearEachOther
<1>1. Inv => ClientsHearEachOther
  BY HearsEachOther DEF ClientsHearEachOther
<1> QED BY <1>1, InvCorrect, PTL
=============================================================================
