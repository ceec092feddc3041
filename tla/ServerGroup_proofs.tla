------------------------ MODULE ServerGroup_proofs -------------------------
(***************************************************************************)
(* Proofs about ServerGroup, for every configuration of the Group, every   *)
(* size of the timestamp and of the counter nonce, and every clock. Types, *)
(* receivers and phases, whatever fails; receivers not forgotten and RENs, *)
(* as long as the random generator does not fail; keys, counter nonces and *)
(* renewals, as long as the clock does not either.                         *)
(***************************************************************************)
EXTENDS ServerGroup, Common_proofs

Errors == {"OK", "REFUSED", "NO_RECEIVER", "FAILED"}

\* The outcomes of the Server's handlers.
Outcomes == [err : Errors, group : ServerGroupState, out : SUBSET Pdus, sdu : SUBSET Sdus]

USE TimestampDomainSizeAssumption, MaxCtrnonceAssumption, MaxStkAssumption

----------------------------------------------------------------------------
(* Every handler returns well-formed outcomes *)

\* Whatever hzl_NonZeroTrng returns, it leaves a key in the buffer, or none.
LEMMA NonZeroTrngType ==
    ASSUME NEW old \in Stk, NEW fresh, NEW r \in NonZeroTrng(old, fresh)
    PROVE  r.stk \in Stk /\ fresh \in Stk /\ r.ok \in BOOLEAN
BY Zeros DEF NonZeroTrng, NoStk

\* Closing the renewal phase.
LEMMA ExitIfNeededType ==
    ASSUME NEW g \in ServerGroupState, NEW t
    PROVE  ServerPhaseExitIfNeeded(g, t) \in ServerGroupState
BY Zeros DEF ServerPhaseExitIfNeeded, ServerGroupState, NoStk

\* Recording a reception, also when the late instant rolls around.
LEMMA UpdateCurrentRxType ==
    ASSUME NEW g \in ServerGroupState, NEW t \in Timestamp
    PROVE  ServerUpdateCurrentRxLastMessageInstant(g, t) \in ServerGroupState
<1>1. (t + 1) % TimestampDomainSize \in Timestamp
  BY LaterIsTimestamp DEF Timestamp
<1> QED BY <1>1 DEF ServerUpdateCurrentRxLastMessageInstant, ServerGroupState

\* The state hzl_ServerInit leaves.
LEMMA StartedSessionType ==
    ASSUME NEW t \in Timestamp, NEW k \in Stk
    PROVE  ServerStartedSession(t, k) \in ServerGroupState
BY Zeros DEF ServerStartedSession, ServerGroupState, NoStk

\* Opening a Session, whichever of its steps fails: it builds nothing.
LEMMA PhaseEnterType ==
    ASSUME NEW g \in ServerGroupState, NEW t \in Timestamp, NEW fresh,
           NEW o \in ServerPhaseEnter(g, t, fresh)
    PROVE  /\ o \in Outcomes
           /\ o.err \in {"OK", "FAILED"}
           /\ o.out = {}
           /\ o.sdu = {}
<1> DEFINE backup  == ServerBackedUp(g)
           started == [backup EXCEPT !.sessionStartInstant = t,
                                     !.currentRxLastMessageInstant = t]
<1>1. backup \in ServerGroupState
  BY DEF ServerBackedUp, ServerGroupState
<1>2. started \in ServerGroupState
  BY <1>1 DEF ServerGroupState
<1>3. CASE o = Outcome("FAILED", backup, {}, {})
  BY <1>1, <1>3 DEF Outcome, Outcomes, Errors
<1>4. ASSUME NEW draw \in NonZeroTrng(g.currentStk, fresh),
             o = Outcome(IF draw.ok THEN "OK" ELSE "FAILED",
                         [started EXCEPT !.currentStk = draw.stk,
                                         !.currentCtrNonce = IF draw.ok THEN 0 ELSE @],
                         {}, {})
      PROVE  o \in Outcomes /\ o.err \in {"OK", "FAILED"} /\ o.out = {} /\ o.sdu = {}
  <2>1. draw.stk \in Stk
    BY NonZeroTrngType DEF ServerGroupState
  <2>2. [started EXCEPT !.currentStk = draw.stk,
                        !.currentCtrNonce = IF draw.ok THEN 0 ELSE @] \in ServerGroupState
    BY <2>1, <1>2, Zeros DEF ServerGroupState
  <2> QED BY <2>2, <1>4 DEF Outcome, Outcomes, Errors
<1> QED BY <1>3, <1>4 DEF ServerPhaseEnter

\* Building a REN.
LEMMA BuildMsgRenewalType ==
    ASSUME NEW g \in ServerGroupState
    PROVE  ServerBuildMsgRenewal(g) \in Outcomes /\ ServerBuildMsgRenewal(g).sdu = {}
<1>1. g.previousCtrNonce \in Ctrnonce /\ g.previousStk \in Stk
  BY DEF ServerGroupState
<1>2. [g EXCEPT !.previousCtrNonce = Incremented(@)] \in ServerGroupState
  BY <1>1, IncrementedType DEF ServerGroupState
<1>3. {Ren(g.previousStk, g.previousCtrNonce)} \subseteq Pdus
  BY <1>1 DEF Pdus
<1> QED BY <1>2, <1>3 DEF ServerBuildMsgRenewal, Outcome, Outcomes, Errors

\* Opening a Session and announcing it.
LEMMA RenewType ==
    ASSUME NEW g \in ServerGroupState, NEW t \in Timestamp, NEW fresh,
           NEW o \in ServerRenew(g, t, fresh)
    PROVE  o \in Outcomes /\ o.sdu = {}
<1>1. PICK e \in ServerPhaseEnter(g, t, fresh) :
        o = IF e.err = "OK" THEN ServerBuildMsgRenewal(e.group) ELSE e
  BY DEF ServerRenew
<1>2. e \in Outcomes /\ e.sdu = {}
  BY PhaseEnterType
<1>3. ServerBuildMsgRenewal(e.group) \in Outcomes /\ ServerBuildMsgRenewal(e.group).sdu = {}
  BY <1>2, BuildMsgRenewalType DEF Outcomes
<1> QED BY <1>1, <1>2, <1>3

\* Opening a Session when the current one is expired.
LEMMA PhaseEnterIfNeededType ==
    ASSUME NEW g \in ServerGroupState, NEW t \in Timestamp, NEW fresh,
           NEW o \in ServerPhaseEnterIfNeeded(g, t, fresh)
    PROVE  o \in Outcomes
BY RenewType DEF ServerPhaseEnterIfNeeded, Outcome, Outcomes, Errors

\* Processing a Request, answered, refused or failed.
LEMMA RequestType ==
    ASSUME NEW g \in ServerGroupState, NEW t \in Timestamp, NEW intact \in BOOLEAN,
           NEW sid \in Sid \ {0}, NEW reqnonce \in Nonces,
           NEW o \in ServerProcessReceivedRequest(g, Req(sid, reqnonce), intact, t)
    PROVE  o \in Outcomes /\ o.sdu = {}
<1> DEFINE received == ServerUpdateCurrentRxLastMessageInstant(g, t)
           res == Res(sid, reqnonce, g.currentStk, g.currentCtrNonce)
<1>1. received \in ServerGroupState
  BY UpdateCurrentRxType
<1>2. CASE ServerValidateSidAndGid(sid) /\ intact /\ reqnonce # 0
  <2>1. res \in Pdus
    BY <1>2 DEF Pdus, ServerValidateSidAndGid, ServerGroupState
  <2>2. o \in {Outcome("OK", received, {res}, {}), Outcome("FAILED", received, {}, {})}
    BY <1>2 DEF ServerProcessReceivedRequest, Req
  <2> QED BY <1>1, <2>1, <2>2 DEF Outcome, Outcomes, Errors
<1>3. CASE ~(ServerValidateSidAndGid(sid) /\ intact /\ reqnonce # 0)
  BY <1>3 DEF ServerProcessReceivedRequest, Req, Outcome, Outcomes, Errors
<1> QED BY <1>2, <1>3

\* Recording a secured message, in either Session.
LEMMA UpdateCtrnonceType ==
    ASSUME NEW g \in ServerGroupState, NEW t \in Timestamp, NEW c \in Ctrnonce,
           NEW isPrevious \in BOOLEAN
    PROVE  ServerUpdateCtrnonceAndRxTimestamp(g, c, t, isPrevious) \in ServerGroupState
<1>1. [g EXCEPT !.previousCtrNonce = Advanced(@, c),
                !.previousRxLastMessageInstant = t] \in ServerGroupState
  BY AdvancedType DEF ServerGroupState
<1>2. [g EXCEPT !.currentCtrNonce = Advanced(@, c)] \in ServerGroupState
  BY AdvancedType DEF ServerGroupState
<1> QED BY <1>1, <1>2, UpdateCurrentRxType DEF ServerUpdateCtrnonceAndRxTimestamp

\* Processing a secured message, refused or accepted.
LEMMA SecuredFdType ==
    ASSUME NEW g \in ServerGroupState, NEW t \in Timestamp, NEW fresh, NEW intact \in BOOLEAN,
           NEW sid \in Sid \ {0}, NEW k \in Stk, NEW c \in Ctrnonce,
           NEW o \in ServerProcessReceivedSecuredFd(g, Sadfd(sid, k, c), intact, t, fresh)
    PROVE  o \in Outcomes
<1> DEFINE m == Sadfd(sid, k, c)
           exited == ServerPhaseExitIfNeeded(g, t)
           isPrevious == ServerIsPreviousSession(exited, c)
           received == ServerUpdateCtrnonceAndRxTimestamp(exited, c, t, isPrevious)
<1>1. m.sid = sid /\ m.stk = k /\ m.ctrnonce = c
  BY DEF Sadfd
<1>2. exited \in ServerGroupState
  BY ExitIfNeededType
<1>3. received \in ServerGroupState
  BY <1>2, UpdateCtrnonceType DEF ServerIsPreviousSession
<1>4. CASE o = Outcome("REFUSED", g, {}, {}) \/ o = Outcome("REFUSED", exited, {}, {})
  BY <1>2, <1>4 DEF Outcome, Outcomes, Errors
<1>5. ASSUME ServerValidateSidAndGid(sid),
             NEW e \in ServerPhaseEnterIfNeeded(received, t, fresh),
             o = [e EXCEPT !.sdu = {m}]
      PROVE  o \in Outcomes
  <2>1. e \in Outcomes
    BY <1>3, PhaseEnterIfNeededType
  <2>2. m \in Sdus
    BY <1>5 DEF Sdus, ServerValidateSidAndGid
  <2> QED BY <1>5, <2>1, <2>2 DEF Outcomes
<1> QED BY <1>1, <1>4, <1>5 DEF ServerProcessReceivedSecuredFd

\* Building a secured message: it keeps the key and delivers nothing.
LEMMA BuildSecuredFdType ==
    ASSUME NEW g \in ServerGroupState, NEW o \in ServerBuildSecuredFd(g)
    PROVE  o \in Outcomes /\ o.group.currentStk = g.currentStk /\ o.sdu = {}
<1>1. g.currentCtrNonce \in Ctrnonce /\ g.currentStk \in Stk
  BY DEF ServerGroupState
<1>2. [g EXCEPT !.currentCtrNonce = Incremented(@)] \in ServerGroupState
  BY <1>1, IncrementedType DEF ServerGroupState
<1>3. {Sadfd(0, g.currentStk, g.currentCtrNonce)} \subseteq Pdus
  BY <1>1 DEF Pdus
<1> QED
  BY <1>2, <1>3 DEF ServerBuildSecuredFd, Outcome, Outcomes, Errors, ServerGroupState

\* Forcing a renewal.
LEMMA ForceType ==
    ASSUME NEW g \in ServerGroupState, NEW t \in Timestamp, NEW fresh,
           NEW o \in ServerForceSessionRenewal(g, t, fresh)
    PROVE  o \in Outcomes
BY RenewType, BuildMsgRenewalType
DEF ServerForceSessionRenewal, Outcome, Outcomes, Errors

----------------------------------------------------------------------------
(* Type correctness *)

\* The types hold after hzl_ServerInit.
LEMMA TypeInit == Init => TypeOK
<1>1. ServerStartedSession(0, 1) \in ServerGroupState
  BY StartedSessionType, Zeros
<1>2. Nothing \in Returns
  BY DEF Nothing, Returns
<1>3. ASSUME Init PROVE TypeOK
  <2>1. now = 0 /\ group = ServerStartedSession(0, 1)
    BY <1>3 DEF Init
  <2>2. issued \in 1 .. MaxStk
    BY <1>3 DEF Init
  <2>3. ret \in Returns
    BY <1>2, <1>3 DEF Init
  <2>4. known \subseteq Stk /\ served \in BOOLEAN
    BY <1>3 DEF Init
  <2>5. used \in [1 .. MaxStk -> SUBSET Ctrnonce]
    BY <1>3 DEF Init
  <2> QED BY <2>1, <1>1, <2>2, <2>3, <2>4, <2>5, Zeros DEF TypeOK
<1> QED BY <1>3

\* What every call has in common keeps the types.
LEMMA ReturnType ==
    ASSUME TypeOK, NEW o \in Outcomes, Return(o)
    PROVE  /\ now' \in Timestamp
           /\ group' \in ServerGroupState
           /\ ret' \in Returns
           /\ issued' \in 1 .. MaxStk
           /\ known' \subseteq Stk
           /\ used' \in [1 .. MaxStk -> SUBSET Ctrnonce]
<1>1. o.group \in ServerGroupState /\ o.group.currentStk \in Stk
  BY DEF Outcomes, ServerGroupState
<1>2. ret' \in Returns
  BY DEF Return, Outcomes, Returns, Errors
<1>3. issued' \in 1 .. MaxStk
  BY <1>1 DEF Return, Larger, TypeOK, Stk
<1>4. ASSUME NEW x \in Pdus, x.pty = "RES"
      PROVE  x.stk \in Stk
  BY <1>4 DEF Pdus, Res, Ren, Sadfd
<1>5. known' \subseteq Stk
  BY <1>4 DEF Return, Outcomes, TypeOK
<1>6. used' \in [1 .. MaxStk -> SUBSET Ctrnonce]
  BY DEF Return, UsedAfter, UpTo, TypeOK
<1> QED
  BY <1>1, <1>2, <1>3, <1>5, <1>6 DEF Return, TypeOK

\* Every call, and the clock, keeps the types.
LEMMA TypeStep == TypeOK /\ [Next]_vars => TypeOK'
<1> SUFFICES ASSUME TypeOK, [Next]_vars
             PROVE  TypeOK'
  OBVIOUS
<1>0. group \in ServerGroupState /\ now \in Timestamp /\ served \in BOOLEAN
      /\ issued \in 1 .. MaxStk /\ known \subseteq Stk
  BY DEF TypeOK
<1>1. CASE Tick
  <2>1. PICK d \in ClockSteps : now' = (now + d) % TimestampDomainSize
    BY <1>1 DEF Tick
  <2>2. now' \in Timestamp
    BY <1>0, <2>1, LaterIsTimestamp, ClockStepsAssumption DEF Timestamp
  <2> QED BY <1>1, <2>2 DEF Tick, TypeOK, Nothing, Returns
<1>2. CASE Restart
  <2> DEFINE o == Outcome("OK", ServerStartedSession(now, issued + 1), {}, {})
  <2>1. issued + 1 \in Stk
    BY <1>0, <1>2 DEF Restart, Stk
  <2>2. o \in Outcomes
    BY <1>0, <2>1, StartedSessionType DEF Outcome, Outcomes, Errors
  <2> QED BY <1>2, <2>2, ReturnType DEF Restart, TypeOK
<1>3. CASE ReceiveRequest
  <2>1. PICK sid \in Sid \ {0}, reqnonce \in Nonces, intact \in BOOLEAN :
          \E o \in ServerProcessReceivedRequest(group, Req(sid, reqnonce), intact, now) :
              Return(o) /\ served' = (served \/ o.err # "REFUSED")
    BY <1>3 DEF ReceiveRequest
  <2>2. PICK o \in ServerProcessReceivedRequest(group, Req(sid, reqnonce), intact, now) :
          Return(o) /\ served' = (served \/ o.err # "REFUSED")
    BY <2>1
  <2>3. o \in Outcomes
    BY <1>0, RequestType
  <2>4. served' \in BOOLEAN
    BY <2>2
  <2> QED BY <2>2, <2>3, <2>4, ReturnType DEF TypeOK
<1>4. CASE ReceiveSecuredFd
  <2>1. PICK sid \in Sid \ {0}, stk \in known \ {NoStk}, ctrnonce \in Ctrnonce,
             intact \in BOOLEAN :
          \E o \in ServerProcessReceivedSecuredFd(
                      group, Sadfd(sid, stk, ctrnonce), intact, now, issued + 1) :
              /\ Return(o)
              /\ served' = /\ served \/ (o.sdu # {} /\ stk = group.currentStk)
                           /\ o.group.currentStk = group.currentStk
    BY <1>4 DEF ReceiveSecuredFd
  <2>2. PICK o \in ServerProcessReceivedSecuredFd(
                      group, Sadfd(sid, stk, ctrnonce), intact, now, issued + 1) :
              /\ Return(o)
              /\ served' = /\ served \/ (o.sdu # {} /\ stk = group.currentStk)
                           /\ o.group.currentStk = group.currentStk
    BY <2>1
  <2>3. o \in Outcomes
    BY <1>0, SecuredFdType
  <2>4. served' \in BOOLEAN
    BY <2>2
  <2> QED BY <2>2, <2>3, <2>4, ReturnType DEF TypeOK
<1>5. CASE BuildSecuredFd
  <2>1. PICK o \in ServerBuildSecuredFd(group) : Return(o) /\ UNCHANGED served
    BY <1>5 DEF BuildSecuredFd
  <2>2. o \in Outcomes
    BY <1>0, BuildSecuredFdType
  <2> QED BY <1>0, <2>1, <2>2, ReturnType DEF TypeOK
<1>6. CASE ForceSessionRenewal
  <2>1. PICK o \in ServerForceSessionRenewal(group, now, issued + 1) :
          /\ Return(o)
          /\ served' = (served /\ o.group.currentStk = group.currentStk)
    BY <1>6 DEF ForceSessionRenewal
  <2>2. o \in Outcomes
    BY <1>0, ForceType
  <2>3. served' \in BOOLEAN
    BY <2>1
  <2> QED BY <2>1, <2>2, <2>3, ReturnType DEF TypeOK
<1>7. CASE UNCHANGED vars
  BY <1>7 DEF vars, TypeOK
<1> QED
  BY <1>1, <1>2, <1>3, <1>4, <1>5, <1>6, <1>7 DEF Next

\* Type correctness of the Server's Group, with any of the functions supplied
\* by the user failing: no handler lets a field leave its range.
THEOREM TypeCorrect == Spec => []TypeOK
BY TypeInit, TypeStep, PTL DEF Spec

----------------------------------------------------------------------------
(* The Server has a receiver only if some Client made itself heard *)

\* Reception in the current Session aside, no handler makes the Server
\* consider that it has one.
LEMMA EnterHasNoReceiver ==
    ASSUME NEW g \in ServerGroupState, NEW t \in Timestamp, NEW fresh,
           NEW o \in ServerPhaseEnter(g, t, fresh)
    PROVE  \/ ~ServerDidAnyClientAlreadyRequest(o.group)
           \/ /\ o.group.currentStk = g.currentStk
              /\ o.group.currentRxLastMessageInstant = g.currentRxLastMessageInstant
              /\ o.group.sessionStartInstant = g.sessionStartInstant
<1> DEFINE backup  == ServerBackedUp(g)
           started == [backup EXCEPT !.sessionStartInstant = t,
                                     !.currentRxLastMessageInstant = t]
<1>1. CASE o = Outcome("FAILED", backup, {}, {})
  BY <1>1 DEF Outcome, ServerBackedUp, ServerGroupState
<1>2. ASSUME NEW draw \in NonZeroTrng(g.currentStk, fresh),
             o = Outcome(IF draw.ok THEN "OK" ELSE "FAILED",
                         [started EXCEPT !.currentStk = draw.stk,
                                         !.currentCtrNonce = IF draw.ok THEN 0 ELSE @],
                         {}, {})
      PROVE  ~ServerDidAnyClientAlreadyRequest(o.group)
  BY <1>2 DEF Outcome, ServerBackedUp, ServerGroupState, ServerDidAnyClientAlreadyRequest
<1> QED BY <1>1, <1>2 DEF ServerPhaseEnter

\* Nor does opening a Session and announcing it.
LEMMA RenewHasNoReceiver ==
    ASSUME NEW g \in ServerGroupState, NEW t \in Timestamp, NEW fresh,
           NEW o \in ServerRenew(g, t, fresh)
    PROVE  \/ ~ServerDidAnyClientAlreadyRequest(o.group)
           \/ /\ o.group.currentStk = g.currentStk
              /\ ServerDidAnyClientAlreadyRequest(g)
<1>1. PICK e \in ServerPhaseEnter(g, t, fresh) :
        o = IF e.err = "OK" THEN ServerBuildMsgRenewal(e.group) ELSE e
  BY DEF ServerRenew
<1>2. e.group \in ServerGroupState
  BY PhaseEnterType DEF Outcomes
<1>3. /\ o.group.currentStk = e.group.currentStk
      /\ o.group.currentRxLastMessageInstant = e.group.currentRxLastMessageInstant
      /\ o.group.sessionStartInstant = e.group.sessionStartInstant
  BY <1>1, <1>2 DEF ServerBuildMsgRenewal, Outcome, ServerGroupState
<1> QED
  BY <1>1, <1>3, EnterHasNoReceiver DEF ServerDidAnyClientAlreadyRequest

\* Closing the renewal phase leaves the current Session alone.
LEMMA ExitKeepsReceiver ==
    ASSUME NEW g \in ServerGroupState, NEW t
    PROVE  LET e == ServerPhaseExitIfNeeded(g, t)
           IN  /\ e.currentStk = g.currentStk
               /\ e.currentRxLastMessageInstant = g.currentRxLastMessageInstant
               /\ e.sessionStartInstant = g.sessionStartInstant
BY DEF ServerPhaseExitIfNeeded, ServerGroupState

\* A call other than the reception of a Request or of secured data of the
\* current Session gives the Server no receiver it did not have, and keeps the
\* one it has only if it keeps the key.
KeepsReceiver(o) ==
    ServerDidAnyClientAlreadyRequest(o.group) =>
        /\ ServerDidAnyClientAlreadyRequest(group)
        /\ o.group.currentStk = group.currentStk

\* Forcing a renewal, in a phase or outside of one.
LEMMA ForceKeepsReceiver ==
    ASSUME TypeOK, NEW fresh, NEW o \in ServerForceSessionRenewal(group, now, fresh)
    PROVE  KeepsReceiver(o)
<1>0. group \in ServerGroupState /\ now \in Timestamp
  BY DEF TypeOK
<1>1. CASE o = ServerBuildMsgRenewal(group)
  BY <1>0, <1>1 DEF KeepsReceiver, ServerBuildMsgRenewal, Outcome, ServerGroupState,
                    ServerDidAnyClientAlreadyRequest
<1>2. CASE o \in ServerRenew(group, now, fresh)
  BY <1>0, <1>2, RenewHasNoReceiver DEF KeepsReceiver
<1>3. CASE o = Outcome("NO_RECEIVER", group, {}, {})
  BY <1>3 DEF KeepsReceiver, Outcome
<1> QED BY <1>1, <1>2, <1>3 DEF ServerForceSessionRenewal

\* A secured message accepted in the current Session is the receiver; one of
\* the previous Session is none, and neither is a message refused.
LEMMA SecuredFdKeepsReceiver ==
    ASSUME TypeOK, NEW fresh, NEW intact \in BOOLEAN,
           NEW sid \in Sid \ {0}, NEW k \in Stk, NEW c \in Ctrnonce,
           NEW o \in ServerProcessReceivedSecuredFd(group, Sadfd(sid, k, c), intact, now, fresh)
    PROVE  \/ KeepsReceiver(o)
           \/ /\ o.sdu # {} /\ k = group.currentStk
              /\ \/ o.group.currentStk = group.currentStk
                 \/ ~ServerDidAnyClientAlreadyRequest(o.group)
<1> DEFINE m == Sadfd(sid, k, c)
           exited == ServerPhaseExitIfNeeded(group, now)
           isPrevious == ServerIsPreviousSession(exited, c)
           received == ServerUpdateCtrnonceAndRxTimestamp(exited, c, now, isPrevious)
<1>0. group \in ServerGroupState /\ now \in Timestamp /\ isPrevious \in BOOLEAN
  BY DEF TypeOK, ServerIsPreviousSession
<1>1. m.sid = sid /\ m.stk = k /\ m.ctrnonce = c
  BY DEF Sadfd
<1>2. /\ exited \in ServerGroupState
      /\ exited.currentStk = group.currentStk
      /\ exited.currentRxLastMessageInstant = group.currentRxLastMessageInstant
      /\ exited.sessionStartInstant = group.sessionStartInstant
  BY <1>0, ExitIfNeededType, ExitKeepsReceiver
<1>3. CASE o = Outcome("REFUSED", group, {}, {}) \/ o = Outcome("REFUSED", exited, {}, {})
  BY <1>2, <1>3 DEF KeepsReceiver, Outcome, ServerDidAnyClientAlreadyRequest
<1>4. ASSUME m.stk = ServerChooseStk(exited, isPrevious),
             NEW e \in ServerPhaseEnterIfNeeded(received, now, fresh),
             o = [e EXCEPT !.sdu = {m}]
      PROVE  \/ KeepsReceiver(o)
             \/ /\ o.sdu # {} /\ k = group.currentStk
                /\ \/ o.group.currentStk = group.currentStk
                   \/ ~ServerDidAnyClientAlreadyRequest(o.group)
  <2>1. received \in ServerGroupState
    BY <1>0, <1>2, UpdateCtrnonceType
  <2>2. e \in Outcomes
    BY <1>0, <1>4, <2>1, PhaseEnterIfNeededType
  <2>3. o.group = e.group /\ o.sdu = {m}
    BY <1>4, <2>2 DEF Outcomes
  <2>4. received.currentStk = group.currentStk
    BY <1>2 DEF ServerUpdateCtrnonceAndRxTimestamp, ServerGroupState,
                ServerUpdateCurrentRxLastMessageInstant
  <2>5. \/ ~ServerDidAnyClientAlreadyRequest(e.group)
        \/ /\ e.group.currentStk = received.currentStk
           /\ ServerDidAnyClientAlreadyRequest(received)
    BY <1>0, <1>4, <2>1, RenewHasNoReceiver DEF ServerPhaseEnterIfNeeded, Outcome
  <2>6. CASE ~isPrevious
    <3>1. k = group.currentStk
      BY <1>1, <1>2, <1>4, <2>6 DEF ServerChooseStk
    <3> QED BY <2>3, <2>4, <2>5, <3>1
  <2>7. CASE isPrevious
    <3>1. /\ received.currentRxLastMessageInstant = group.currentRxLastMessageInstant
          /\ received.sessionStartInstant = group.sessionStartInstant
      BY <1>2, <2>7 DEF ServerUpdateCtrnonceAndRxTimestamp, ServerGroupState
    <3> QED BY <2>3, <2>4, <2>5, <3>1 DEF KeepsReceiver, ServerDidAnyClientAlreadyRequest
  <2> QED BY <1>0, <2>6, <2>7
<1> QED BY <1>1, <1>3, <1>4 DEF ServerProcessReceivedSecuredFd

\* A fresh Session has no receiver.
LEMMA ReceiverInit == Init => ReceiverIsReal
BY DEF Init, ReceiverIsReal, ServerStartedSession, ServerDidAnyClientAlreadyRequest

\* Every call keeps the property.
LEMMA ReceiverStep == TypeOK /\ ReceiverIsReal /\ [Next]_vars => ReceiverIsReal'
<1> SUFFICES ASSUME TypeOK, ReceiverIsReal, [Next]_vars
             PROVE  ReceiverIsReal'
  OBVIOUS
<1>0. group \in ServerGroupState /\ now \in Timestamp /\ served \in BOOLEAN
      /\ issued \in 1 .. MaxStk /\ known \subseteq Stk
  BY DEF TypeOK
<1>1. CASE Tick
  BY <1>1 DEF Tick, ReceiverIsReal
<1>2. CASE Restart
  BY <1>2 DEF Restart, Return, Outcome, ReceiverIsReal, ServerStartedSession,
              ServerDidAnyClientAlreadyRequest
<1>3. CASE ReceiveRequest
  <2>1. PICK sid \in Sid \ {0}, reqnonce \in Nonces, intact \in BOOLEAN :
          \E o \in ServerProcessReceivedRequest(group, Req(sid, reqnonce), intact, now) :
              Return(o) /\ served' = (served \/ o.err # "REFUSED")
    BY <1>3 DEF ReceiveRequest
  <2>2. PICK o \in ServerProcessReceivedRequest(group, Req(sid, reqnonce), intact, now) :
          Return(o) /\ served' = (served \/ o.err # "REFUSED")
    BY <2>1
  <2>3. CASE o.err # "REFUSED"
    BY <2>2, <2>3 DEF ReceiverIsReal
  <2>4. CASE o.err = "REFUSED"
    <3>1. o.group = group
      BY <2>4 DEF ServerProcessReceivedRequest, Outcome
    <3> QED BY <2>2, <2>4, <3>1 DEF ReceiverIsReal, Return
  <2> QED BY <2>3, <2>4
<1>4. CASE ReceiveSecuredFd
  <2>1. PICK sid \in Sid \ {0}, stk \in known \ {NoStk}, ctrnonce \in Ctrnonce,
             intact \in BOOLEAN :
          \E o \in ServerProcessReceivedSecuredFd(
                      group, Sadfd(sid, stk, ctrnonce), intact, now, issued + 1) :
              /\ Return(o)
              /\ served' = /\ served \/ (o.sdu # {} /\ stk = group.currentStk)
                           /\ o.group.currentStk = group.currentStk
    BY <1>4 DEF ReceiveSecuredFd
  <2>2. PICK o \in ServerProcessReceivedSecuredFd(
                      group, Sadfd(sid, stk, ctrnonce), intact, now, issued + 1) :
              /\ Return(o)
              /\ served' = /\ served \/ (o.sdu # {} /\ stk = group.currentStk)
                           /\ o.group.currentStk = group.currentStk
    BY <2>1
  <2>3. \/ KeepsReceiver(o)
        \/ /\ o.sdu # {} /\ stk = group.currentStk
           /\ \/ o.group.currentStk = group.currentStk
              \/ ~ServerDidAnyClientAlreadyRequest(o.group)
    BY <1>0, SecuredFdKeepsReceiver
  <2>4. group' = o.group
    BY <2>2 DEF Return
  <2> QED BY <2>2, <2>3, <2>4 DEF ReceiverIsReal, KeepsReceiver, ServerDidAnyClientAlreadyRequest
<1>5. CASE BuildSecuredFd
  <2>1. PICK o \in ServerBuildSecuredFd(group) : Return(o) /\ UNCHANGED served
    BY <1>5 DEF BuildSecuredFd
  <2>2. KeepsReceiver(o)
    BY <1>0 DEF ServerBuildSecuredFd, Outcome, KeepsReceiver, ServerGroupState,
                ServerDidAnyClientAlreadyRequest
  <2> QED BY <2>1, <2>2 DEF ReceiverIsReal, KeepsReceiver, Return, ServerDidAnyClientAlreadyRequest
<1>6. CASE ForceSessionRenewal
  <2>1. PICK o \in ServerForceSessionRenewal(group, now, issued + 1) :
          /\ Return(o)
          /\ served' = (served /\ o.group.currentStk = group.currentStk)
    BY <1>6 DEF ForceSessionRenewal
  <2>2. KeepsReceiver(o)
    BY ForceKeepsReceiver
  <2> QED BY <2>1, <2>2 DEF ReceiverIsReal, KeepsReceiver, Return, ServerDidAnyClientAlreadyRequest
<1>7. CASE UNCHANGED vars
  BY <1>7 DEF vars, ReceiverIsReal
<1> QED
  BY <1>1, <1>2, <1>3, <1>4, <1>5, <1>6, <1>7 DEF Next

\* The two instants that hzl_ServerDidAnyClientAlreadyRequest compares differ
\* only if a Client's message was accepted in the current Session: also after
\* any failure of the clock or of the random generator in a renewal, at any
\* roll-around of the clock, and whatever the messages received.
THEOREM ReceiverCorrect == Spec => []ReceiverIsReal
<1>1. Init => TypeOK /\ ReceiverIsReal
  BY TypeInit, ReceiverInit
<1>2. TypeOK /\ ReceiverIsReal /\ [Next]_vars => (TypeOK /\ ReceiverIsReal)'
  BY TypeStep, ReceiverStep
<1> QED BY <1>1, <1>2, PTL DEF Spec

----------------------------------------------------------------------------
(* The keys, as long as the clock and the random generator do not fail *)

\* The two ways a call treats the keys of a Group: it keeps the current one,
\* and the previous one or none; or the current one becomes the previous one
\* and a fresh one takes its place.
KeyChange(old, new, fresh) ==
    \/ /\ new.currentStk = old.currentStk
       /\ new.previousStk \in {old.previousStk, NoStk}
    \/ /\ fresh \in Stk
       /\ new.currentStk = fresh
       /\ new.previousStk = old.currentStk

\* The current key is the last one drawn, the previous one an earlier one.
KeysAscend ==
    /\ group.currentStk = issued
    /\ group.previousStk < issued

----------------------------------------------------------------------------
(* What the handlers do to the keys *)

\* Without a fault a renewal is always complete.
LEMMA EnterChangesKey ==
    ASSUME IoFaults = {}, NEW g \in ServerGroupState, NEW t \in Timestamp, NEW fresh,
           NEW o \in ServerPhaseEnter(g, t, fresh)
    PROVE  /\ fresh \in Stk
           /\ o.group.currentStk = fresh
           /\ o.group.previousStk = g.currentStk
<1> DEFINE started == [ServerBackedUp(g) EXCEPT !.sessionStartInstant = t,
                                                !.currentRxLastMessageInstant = t]
<1>1. PICK draw \in NonZeroTrng(g.currentStk, fresh) :
        o = Outcome(IF draw.ok THEN "OK" ELSE "FAILED",
                    [started EXCEPT !.currentStk = draw.stk,
                                    !.currentCtrNonce = IF draw.ok THEN 0 ELSE @],
                    {}, {})
  BY DEF ServerPhaseEnter
<1>2. draw.stk = fresh /\ fresh \in Stk
  BY DEF NonZeroTrng
<1>3. started.previousStk = g.currentStk /\ started \in ServerGroupState
  BY DEF ServerBackedUp, ServerGroupState
<1> QED BY <1>1, <1>2, <1>3 DEF Outcome, ServerGroupState

\* Announcing the new Session leaves the keys alone.
LEMMA RenewChangesKey ==
    ASSUME IoFaults = {}, NEW g \in ServerGroupState, NEW t \in Timestamp, NEW fresh,
           NEW o \in ServerRenew(g, t, fresh)
    PROVE  KeyChange(g, o.group, fresh)
<1>1. PICK e \in ServerPhaseEnter(g, t, fresh) :
        o = IF e.err = "OK" THEN ServerBuildMsgRenewal(e.group) ELSE e
  BY DEF ServerRenew
<1>2. e.group \in ServerGroupState
  BY PhaseEnterType DEF Outcomes
<1>3. /\ o.group.currentStk = e.group.currentStk
      /\ o.group.previousStk = e.group.previousStk
  BY <1>1, <1>2 DEF ServerBuildMsgRenewal, Outcome, ServerGroupState
<1> QED BY <1>3, EnterChangesKey DEF KeyChange

\* A Request changes no key.
LEMMA RequestChangesKey ==
    ASSUME NEW g \in ServerGroupState, NEW t \in Timestamp, NEW fresh, NEW m, NEW intact,
           NEW o \in ServerProcessReceivedRequest(g, m, intact, t)
    PROVE  KeyChange(g, o.group, fresh)
<1> DEFINE received == ServerUpdateCurrentRxLastMessageInstant(g, t)
<1>1. received.currentStk = g.currentStk /\ received.previousStk = g.previousStk
  BY DEF ServerUpdateCurrentRxLastMessageInstant, ServerGroupState
<1>2. o.group \in {g, received}
  BY DEF ServerProcessReceivedRequest, Outcome
<1> QED BY <1>1, <1>2 DEF KeyChange

\* A secured message may end the phase, and then open the next Session.
LEMMA SecuredFdChangesKey ==
    ASSUME IoFaults = {}, NEW g \in ServerGroupState, NEW t \in Timestamp, NEW fresh,
           NEW intact \in BOOLEAN, NEW sid \in Sid \ {0}, NEW k \in Stk, NEW c \in Ctrnonce,
           NEW o \in ServerProcessReceivedSecuredFd(g, Sadfd(sid, k, c), intact, t, fresh)
    PROVE  KeyChange(g, o.group, fresh)
<1> DEFINE m == Sadfd(sid, k, c)
           exited == ServerPhaseExitIfNeeded(g, t)
           isPrevious == ServerIsPreviousSession(exited, c)
           received == ServerUpdateCtrnonceAndRxTimestamp(exited, c, t, isPrevious)
<1>1. m.ctrnonce = c
  BY DEF Sadfd
<1>2. /\ exited \in ServerGroupState
      /\ exited.currentStk = g.currentStk
      /\ exited.previousStk \in {g.previousStk, NoStk}
  BY ExitIfNeededType DEF ServerPhaseExitIfNeeded, ServerGroupState
<1>3. /\ received \in ServerGroupState
      /\ received.currentStk = g.currentStk
      /\ received.previousStk \in {g.previousStk, NoStk}
  <2>1. received \in ServerGroupState
    BY <1>2, UpdateCtrnonceType DEF ServerIsPreviousSession
  <2>2. received.currentStk = exited.currentStk /\ received.previousStk = exited.previousStk
    BY <1>2 DEF ServerUpdateCtrnonceAndRxTimestamp, ServerGroupState,
                ServerUpdateCurrentRxLastMessageInstant
  <2> QED BY <1>2, <2>1, <2>2
<1>4. CASE o = Outcome("REFUSED", g, {}, {}) \/ o = Outcome("REFUSED", exited, {}, {})
  BY <1>2, <1>4 DEF Outcome, KeyChange
<1>5. ASSUME NEW e \in ServerPhaseEnterIfNeeded(received, t, fresh), o = [e EXCEPT !.sdu = {m}]
      PROVE  KeyChange(g, o.group, fresh)
  <2>1. e \in Outcomes
    BY <1>3, PhaseEnterIfNeededType
  <2>2. o.group = e.group
    BY <1>5, <2>1 DEF Outcomes
  <2>3. CASE e = Outcome("OK", received, {}, {})
    BY <1>3, <2>2, <2>3 DEF Outcome, KeyChange
  <2>4. CASE e \in ServerRenew(received, t, fresh)
    BY <1>3, <2>2, <2>4, RenewChangesKey DEF KeyChange
  <2> QED BY <2>3, <2>4 DEF ServerPhaseEnterIfNeeded
<1> QED BY <1>1, <1>4, <1>5 DEF ServerProcessReceivedSecuredFd

\* A secured message built changes no key.
LEMMA BuildChangesKey ==
    ASSUME NEW g \in ServerGroupState, NEW fresh, NEW o \in ServerBuildSecuredFd(g)
    PROVE  KeyChange(g, o.group, fresh)
BY DEF ServerBuildSecuredFd, Outcome, ServerGroupState, KeyChange

\* A forced renewal repeats the REN, or changes the key, or is refused.
LEMMA ForceChangesKey ==
    ASSUME IoFaults = {}, NEW g \in ServerGroupState, NEW t \in Timestamp, NEW fresh,
           NEW o \in ServerForceSessionRenewal(g, t, fresh)
    PROVE  KeyChange(g, o.group, fresh)
<1>1. CASE o = ServerBuildMsgRenewal(g)
  BY <1>1 DEF ServerBuildMsgRenewal, Outcome, ServerGroupState, KeyChange
<1>2. CASE o \in ServerRenew(g, t, fresh)
  BY <1>2, RenewChangesKey
<1>3. CASE o = Outcome("NO_RECEIVER", g, {}, {})
  BY <1>3 DEF Outcome, KeyChange
<1> QED BY <1>1, <1>2, <1>3 DEF ServerForceSessionRenewal

----------------------------------------------------------------------------
(* The keys ascend *)

\* The first Session has the first key.
LEMMA KeysInit == Init => KeysAscend
BY DEF Init, KeysAscend, ServerStartedSession, NoStk

\* A call that treats the keys in one of the two ways keeps them ascending.
LEMMA KeyChangeAscends ==
    ASSUME TypeOK, KeysAscend, NEW o, Return(o), KeyChange(group, o.group, issued + 1)
    PROVE  KeysAscend'
<1>1. issued \in Nat /\ issued > 0 /\ group.previousStk \in Nat
  BY DEF TypeOK, ServerGroupState, Stk
<1>2. group' = o.group /\ issued' = Larger(issued, o.group.currentStk)
  BY DEF Return
<1> QED BY <1>1, <1>2 DEF KeysAscend, KeyChange, Larger, NoStk

\* Every call keeps the keys ascending.
LEMMA KeysStep ==
    ASSUME IoFaults = {}
    PROVE  TypeOK /\ KeysAscend /\ [Next]_vars => KeysAscend'
<1> SUFFICES ASSUME TypeOK, KeysAscend, [Next]_vars
             PROVE  KeysAscend'
  OBVIOUS
<1>0. group \in ServerGroupState /\ now \in Timestamp /\ known \subseteq Stk
  BY DEF TypeOK
<1>1. CASE Tick
  BY <1>1 DEF Tick, KeysAscend
<1>2. CASE Restart
  <2>1. issued \in Nat
    BY DEF TypeOK
  <2>2. /\ group' = ServerStartedSession(now, issued + 1)
        /\ issued' = Larger(issued, group'.currentStk)
    BY <1>2 DEF Restart, Return, Outcome
  <2> QED BY <2>1, <2>2 DEF ServerStartedSession, Larger, KeysAscend, NoStk
<1>3. CASE ReceiveRequest
  <2>1. PICK sid \in Sid \ {0}, reqnonce \in Nonces, intact \in BOOLEAN :
          \E o \in ServerProcessReceivedRequest(group, Req(sid, reqnonce), intact, now) : Return(o)
    BY <1>3 DEF ReceiveRequest
  <2>2. PICK o \in ServerProcessReceivedRequest(group, Req(sid, reqnonce), intact, now) : Return(o)
    BY <2>1
  <2> QED BY <1>0, <2>2, RequestChangesKey, KeyChangeAscends
<1>4. CASE ReceiveSecuredFd
  <2>1. PICK sid \in Sid \ {0}, stk \in known \ {NoStk}, ctrnonce \in Ctrnonce,
             intact \in BOOLEAN :
          \E o \in ServerProcessReceivedSecuredFd(
                      group, Sadfd(sid, stk, ctrnonce), intact, now, issued + 1) : Return(o)
    BY <1>4 DEF ReceiveSecuredFd
  <2>2. PICK o \in ServerProcessReceivedSecuredFd(
                      group, Sadfd(sid, stk, ctrnonce), intact, now, issued + 1) : Return(o)
    BY <2>1
  <2>3. KeyChange(group, o.group, issued + 1)
    BY <1>0, SecuredFdChangesKey
  <2> QED BY <2>2, <2>3, KeyChangeAscends
<1>5. CASE BuildSecuredFd
  <2>1. PICK o \in ServerBuildSecuredFd(group) : Return(o)
    BY <1>5 DEF BuildSecuredFd
  <2> QED BY <1>0, <2>1, BuildChangesKey, KeyChangeAscends
<1>6. CASE ForceSessionRenewal
  <2>1. PICK o \in ServerForceSessionRenewal(group, now, issued + 1) : Return(o)
    BY <1>6 DEF ForceSessionRenewal
  <2> QED BY <1>0, <2>1, ForceChangesKey, KeyChangeAscends
<1>7. CASE UNCHANGED vars
  BY <1>7 DEF vars, KeysAscend
<1> QED
  BY <1>1, <1>2, <1>3, <1>4, <1>5, <1>6, <1>7 DEF Next

\* Ascending keys are different keys.
LEMMA AscendingKeysDiffer == TypeOK /\ KeysAscend => RenewalChangesStk
BY DEF TypeOK, KeysAscend, RenewalChangesStk, NoStk, ServerGroupState, Stk

\* With a working clock and trng, a Group in a renewal phase holds two
\* different keys, neither of them all zeros: whatever the order of renewals,
\* forced or not, ends of phases and restarts.
THEOREM RenewalChangesStkCorrect ==
    ASSUME IoFaults = {}
    PROVE  Spec => []RenewalChangesStk
<1>1. Init => TypeOK /\ KeysAscend
  BY TypeInit, KeysInit
<1>2. TypeOK /\ KeysAscend /\ [Next]_vars => (TypeOK /\ KeysAscend)'
  BY TypeStep, KeysStep
<1>3. TypeOK /\ KeysAscend => RenewalChangesStk
  BY AscendingKeysDiffer
<1> QED BY <1>1, <1>2, <1>3, PTL DEF Spec

----------------------------------------------------------------------------
(* Counter nonces and renewals: the inductive invariant *)

\* A counter nonce above all those of a set, or at the end of its range.
Above(n, cs) == \A c \in cs : c < n \/ CtrnonceIsExpired(n)

\* Each Session's counter nonce is above those used with its key; of the keys
\* not held nothing is used.
NoncesAhead ==
    /\ Above(group.currentCtrNonce, used[group.currentStk])
    /\ ServerPhaseIsActive(group) => Above(group.previousCtrNonce, used[group.previousStk])
    /\ \A k \in 1 .. MaxStk : k \notin {group.currentStk, group.previousStk} => used[k] = {}

----------------------------------------------------------------------------
(* Counter nonces *)

LEMMA AboveLater ==
    ASSUME NEW n \in Ctrnonce, NEW p \in Ctrnonce, n <= p,
           NEW cs \in SUBSET Ctrnonce, Above(n, cs)
    PROVE  Above(p, cs)
BY DEF Above, CtrnonceIsExpired, Ctrnonce

LEMMA IncrementedIsAbove ==
    ASSUME NEW n \in Ctrnonce
    PROVE  /\ Incremented(n) \in Ctrnonce
           /\ Incremented(n) >= n
           /\ n < Incremented(n) \/ CtrnonceIsExpired(Incremented(n))
BY DEF Incremented, CtrnonceIsExpired, Ctrnonce

----------------------------------------------------------------------------
(* What the handlers do, without a fault *)

\* A renewal opens a Session under a fresh key, keeps the one it had as the
\* previous one, and announces it with the next counter nonce of that one.
LEMMA RenewEffect ==
    ASSUME IoFaults = {}, NEW g \in ServerGroupState, NEW t \in Timestamp, NEW fresh,
           NEW o \in ServerRenew(g, t, fresh)
    PROVE  /\ o.err = "OK"
           /\ o.out = {Ren(g.currentStk, g.currentCtrNonce)}
           /\ o.sdu = {}
           /\ fresh \in Stk
           /\ o.group.currentStk = fresh
           /\ o.group.previousStk = g.currentStk
           /\ o.group.currentCtrNonce = 0
           /\ o.group.previousCtrNonce = Incremented(g.currentCtrNonce)
<1> DEFINE started == [ServerBackedUp(g) EXCEPT !.sessionStartInstant = t,
                                                !.currentRxLastMessageInstant = t]
<1>1. PICK e \in ServerPhaseEnter(g, t, fresh) :
        o = IF e.err = "OK" THEN ServerBuildMsgRenewal(e.group) ELSE e
  BY DEF ServerRenew
<1>2. PICK draw \in NonZeroTrng(g.currentStk, fresh) :
        e = Outcome(IF draw.ok THEN "OK" ELSE "FAILED",
                    [started EXCEPT !.currentStk = draw.stk,
                                    !.currentCtrNonce = IF draw.ok THEN 0 ELSE @],
                    {}, {})
  BY DEF ServerPhaseEnter
<1>3. draw.ok /\ draw.stk = fresh /\ fresh \in Stk
  BY DEF NonZeroTrng
<1>4. /\ started.previousStk = g.currentStk /\ started \in ServerGroupState
      /\ started.previousCtrNonce = g.currentCtrNonce
  BY DEF ServerBackedUp, ServerGroupState
<1>5. /\ e.err = "OK"
      /\ e.group = [started EXCEPT !.currentStk = fresh, !.currentCtrNonce = 0]
  BY <1>2, <1>3 DEF Outcome
<1> HIDE DEF started
<1>6. /\ e.group.currentStk = fresh
      /\ e.group.previousStk = g.currentStk
      /\ e.group.currentCtrNonce = 0
      /\ e.group.previousCtrNonce = g.currentCtrNonce
      /\ e.group \in ServerGroupState
  BY <1>3, <1>4, <1>5, Zeros DEF ServerGroupState
<1>7. o = ServerBuildMsgRenewal(e.group)
  BY <1>1, <1>5
<1> QED BY <1>3, <1>6, <1>7 DEF ServerBuildMsgRenewal, Outcome, ServerGroupState

\* Repeating the announcement takes the next counter nonce.
LEMMA BuildMsgRenewalEffect ==
    ASSUME NEW g \in ServerGroupState
    PROVE  LET o == ServerBuildMsgRenewal(g)
           IN  /\ o.out = {Ren(g.previousStk, g.previousCtrNonce)}
               /\ o.sdu = {}
               /\ o.group.currentStk = g.currentStk
               /\ o.group.previousStk = g.previousStk
               /\ o.group.currentCtrNonce = g.currentCtrNonce
               /\ o.group.previousCtrNonce = Incremented(g.previousCtrNonce)
               /\ o.group.sessionStartInstant = g.sessionStartInstant
               /\ o.group.currentRxLastMessageInstant = g.currentRxLastMessageInstant
BY DEF ServerBuildMsgRenewal, Outcome, ServerGroupState

\* The millisecond after another is another.
LEMMA LaterDiffers ==
    ASSUME NEW t \in Timestamp
    PROVE  (t + 1) % TimestampDomainSize # t
<1>1. CASE t = TimestampDomainSize - 1
  BY <1>1
<1>2. CASE t < TimestampDomainSize - 1
  <2>1. (t + 1) % TimestampDomainSize = t + 1
    BY <1>2 DEF Timestamp
  <2> QED BY <2>1 DEF Timestamp
<1> QED BY <1>1, <1>2 DEF Timestamp

\* A Request changes only the instant of the last reception, which then shows
\* that there is a receiver; its answer gives the current key away.
LEMMA UpdateCurrentRxEffect ==
    ASSUME NEW g \in ServerGroupState, NEW t \in Timestamp
    PROVE  LET r == ServerUpdateCurrentRxLastMessageInstant(g, t)
           IN  /\ ServerDidAnyClientAlreadyRequest(r)
               /\ r.currentStk = g.currentStk
               /\ r.previousStk = g.previousStk
               /\ r.currentCtrNonce = g.currentCtrNonce
               /\ r.previousCtrNonce = g.previousCtrNonce
               /\ r.sessionStartInstant = g.sessionStartInstant
<1> DEFINE r == ServerUpdateCurrentRxLastMessageInstant(g, t)
           late == IF t = g.sessionStartInstant THEN (t + 1) % TimestampDomainSize ELSE t
<1>1. late # g.sessionStartInstant
  BY LaterDiffers
<1>2. r = [g EXCEPT !.currentRxLastMessageInstant = late]
  BY DEF ServerUpdateCurrentRxLastMessageInstant
<1> HIDE DEF late
<1> QED BY <1>1, <1>2 DEF ServerGroupState, ServerDidAnyClientAlreadyRequest

\* A Request is answered or leaves everything alone.
LEMMA RequestEffect ==
    ASSUME "trng" \notin IoFaults, NEW g \in ServerGroupState, NEW t \in Timestamp,
           NEW sid \in Sid \ {0}, NEW reqnonce \in Nonces, NEW intact \in BOOLEAN,
           NEW o \in ServerProcessReceivedRequest(g, Req(sid, reqnonce), intact, t)
    PROVE  /\ o.sdu = {}
           /\ \/ o.err = "REFUSED" /\ o.group = g /\ o.out = {}
              \/ /\ o.err = "OK"
                 /\ o.group = ServerUpdateCurrentRxLastMessageInstant(g, t)
                 /\ o.out = {Res(sid, reqnonce, g.currentStk, g.currentCtrNonce)}
BY DEF ServerProcessReceivedRequest, Outcome, Req

\* Closing the phase changes nothing else; afterwards, no phase is both
\* active and over.
LEMMA ExitEffect ==
    ASSUME NEW g \in ServerGroupState, NEW t \in Timestamp
    PROVE  LET e == ServerPhaseExitIfNeeded(g, t)
           IN  /\ e \in ServerGroupState
               /\ e.currentStk = g.currentStk
               /\ e.currentCtrNonce = g.currentCtrNonce
               /\ e.sessionStartInstant = g.sessionStartInstant
               /\ e.currentRxLastMessageInstant = g.currentRxLastMessageInstant
               /\ \/ /\ e.previousStk = NoStk
                     /\ ~ServerPhaseIsActive(g) \/ ServerPhaseIsOver(g, t)
                  \/ /\ e = g
                     /\ ServerPhaseIsActive(g) /\ ~ServerPhaseIsOver(g, t)
<1>1. ServerPhaseExitIfNeeded(g, t) \in ServerGroupState
  BY ExitIfNeededType
<1> QED BY <1>1 DEF ServerPhaseExitIfNeeded, ServerGroupState, ServerPhaseIsActive

\* An accepted message moves the counter nonce of its own Session only.
LEMMA ReceivedEffect ==
    ASSUME NEW g \in ServerGroupState, NEW t \in Timestamp, NEW c \in Ctrnonce,
           NEW isPrevious \in BOOLEAN
    PROVE  LET r == ServerUpdateCtrnonceAndRxTimestamp(g, c, t, isPrevious)
           IN  /\ r \in ServerGroupState
               /\ r.currentStk = g.currentStk
               /\ r.previousStk = g.previousStk
               /\ r.sessionStartInstant = g.sessionStartInstant
               /\ \/ /\ isPrevious
                     /\ r.previousCtrNonce = Advanced(g.previousCtrNonce, c)
                     /\ r.currentCtrNonce = g.currentCtrNonce
                     /\ r.currentRxLastMessageInstant = g.currentRxLastMessageInstant
                  \/ /\ ~isPrevious
                     /\ r.currentCtrNonce = Advanced(g.currentCtrNonce, c)
                     /\ r.previousCtrNonce = g.previousCtrNonce
                     /\ ServerDidAnyClientAlreadyRequest(r)
<1> DEFINE r == ServerUpdateCtrnonceAndRxTimestamp(g, c, t, isPrevious)
           a == [g EXCEPT !.currentCtrNonce = Advanced(@, c)]
<1>1. r \in ServerGroupState
  BY UpdateCtrnonceType
<1>2. CASE isPrevious
  <2>1. r = [g EXCEPT !.previousCtrNonce = Advanced(@, c), !.previousRxLastMessageInstant = t]
    BY <1>2 DEF ServerUpdateCtrnonceAndRxTimestamp
  <2> QED BY <1>1, <1>2, <2>1 DEF ServerGroupState
<1>3. CASE ~isPrevious
  <2>1. r = ServerUpdateCurrentRxLastMessageInstant(a, t)
    BY <1>3 DEF ServerUpdateCtrnonceAndRxTimestamp
  <2>2. /\ a \in ServerGroupState
        /\ a.currentStk = g.currentStk /\ a.previousStk = g.previousStk
        /\ a.sessionStartInstant = g.sessionStartInstant
        /\ a.currentCtrNonce = Advanced(g.currentCtrNonce, c)
        /\ a.previousCtrNonce = g.previousCtrNonce
    BY AdvancedType DEF ServerGroupState
  <2> HIDE DEF a
  <2> QED BY <1>1, <1>3, <2>1, <2>2, UpdateCurrentRxEffect
<1> QED BY <1>2, <1>3

\* A secured message is refused, which may close the phase all the same, or
\* accepted: then it was checked, its key is that of the Session its counter
\* nonce belongs to, and a renewal may follow.
SecuredFdCases(g, sid, k, c, t, fresh, o) ==
    LET exited == ServerPhaseExitIfNeeded(g, t)
        isPrevious == ServerIsPreviousSession(exited, c)
        received == ServerUpdateCtrnonceAndRxTimestamp(exited, c, t, isPrevious)
    IN  \/ o.out = {} /\ o.sdu = {} /\ o.group \in {g, exited}
        \/ /\ o.sdu = {Sadfd(sid, k, c)}
           /\ ServerCheckRxCtrnonce(exited, c, t)
           /\ k = ServerChooseStk(exited, isPrevious)
           /\ \/ o.out = {} /\ o.group = received
              \/ /\ ServerSessionIsExpired(received, t)
                 /\ \E r \in ServerRenew(received, t, fresh) :
                       o.group = r.group /\ o.out = r.out

LEMMA SecuredFdEffect ==
    ASSUME NEW g \in ServerGroupState, NEW t \in Timestamp, NEW fresh,
           NEW intact \in BOOLEAN, NEW sid \in Sid \ {0}, NEW k \in Stk, NEW c \in Ctrnonce,
           NEW o \in ServerProcessReceivedSecuredFd(g, Sadfd(sid, k, c), intact, t, fresh)
    PROVE  SecuredFdCases(g, sid, k, c, t, fresh, o)
<1> DEFINE m == Sadfd(sid, k, c)
           exited == ServerPhaseExitIfNeeded(g, t)
           isPrevious == ServerIsPreviousSession(exited, c)
           received == ServerUpdateCtrnonceAndRxTimestamp(exited, c, t, isPrevious)
<1>1. m.sid = sid /\ m.stk = k /\ m.ctrnonce = c
  BY DEF Sadfd
<1>2. received \in ServerGroupState
  BY ExitIfNeededType, UpdateCtrnonceType DEF ServerIsPreviousSession
<1>4. ASSUME ServerCheckRxCtrnonce(exited, c, t), k = ServerChooseStk(exited, isPrevious),
             NEW e \in ServerPhaseEnterIfNeeded(received, t, fresh),
             o = [e EXCEPT !.sdu = {m}]
      PROVE  /\ o.sdu = {m}
             /\ \/ o.out = {} /\ o.group = received
                \/ /\ ServerSessionIsExpired(received, t)
                   /\ \E r \in ServerRenew(received, t, fresh) :
                         o.group = r.group /\ o.out = r.out
  <2>1. e \in Outcomes
    BY <1>2, PhaseEnterIfNeededType
  <2>2. o.group = e.group /\ o.out = e.out /\ o.sdu = {m}
    BY <1>4, <2>1 DEF Outcomes
  <2>3. \/ e = Outcome("OK", received, {}, {})
        \/ ServerSessionIsExpired(received, t) /\ e \in ServerRenew(received, t, fresh)
    BY DEF ServerPhaseEnterIfNeeded
  <2> QED BY <2>2, <2>3 DEF Outcome
<1> HIDE DEF exited, isPrevious, received
<1>5. \/ o = Outcome("REFUSED", g, {}, {}) \/ o = Outcome("REFUSED", exited, {}, {})
      \/ /\ ServerCheckRxCtrnonce(exited, c, t) /\ k = ServerChooseStk(exited, isPrevious)
         /\ \E e \in ServerPhaseEnterIfNeeded(received, t, fresh) : o = [e EXCEPT !.sdu = {m}]
  BY <1>1 DEF ServerProcessReceivedSecuredFd, exited, isPrevious, received
<1>6. \/ o.out = {} /\ o.sdu = {} /\ o.group \in {g, exited}
      \/ /\ o.sdu = {m}
         /\ ServerCheckRxCtrnonce(exited, c, t)
         /\ k = ServerChooseStk(exited, isPrevious)
         /\ \/ o.out = {} /\ o.group = received
            \/ /\ ServerSessionIsExpired(received, t)
               /\ \E r \in ServerRenew(received, t, fresh) :
                     o.group = r.group /\ o.out = r.out
  <2>1. CASE o = Outcome("REFUSED", g, {}, {}) \/ o = Outcome("REFUSED", exited, {}, {})
    BY <2>1 DEF Outcome
  <2>2. CASE /\ ServerCheckRxCtrnonce(exited, c, t) /\ k = ServerChooseStk(exited, isPrevious)
             /\ \E e \in ServerPhaseEnterIfNeeded(received, t, fresh) : o = [e EXCEPT !.sdu = {m}]
    BY <1>4, <2>2
  <2> QED BY <1>5, <2>1, <2>2
<1> QED BY <1>6 DEF exited, isPrevious, received, SecuredFdCases

\* Forcing a renewal repeats the announcement in a phase, opens a Session if
\* there is a receiver, or does nothing.
LEMMA ForceEffect ==
    ASSUME NEW g \in ServerGroupState, NEW t \in Timestamp, NEW fresh,
           NEW o \in ServerForceSessionRenewal(g, t, fresh)
    PROVE  \/ ServerPhaseIsActive(g) /\ o = ServerBuildMsgRenewal(g)
           \/ /\ ~ServerPhaseIsActive(g) /\ ServerDidAnyClientAlreadyRequest(g)
              /\ o \in ServerRenew(g, t, fresh)
           \/ o.out = {} /\ o.sdu = {} /\ o.group = g
BY DEF ServerForceSessionRenewal, Outcome

\* Building a secured message takes the next counter nonce of the current
\* Session, or does nothing.
LEMMA BuildEffect ==
    ASSUME NEW g \in ServerGroupState, NEW o \in ServerBuildSecuredFd(g)
    PROVE  /\ o.sdu = {}
           /\ o.group.currentStk = g.currentStk
           /\ o.group.previousStk = g.previousStk
           /\ o.group.previousCtrNonce = g.previousCtrNonce
           /\ o.group.sessionStartInstant = g.sessionStartInstant
           /\ o.group.currentRxLastMessageInstant = g.currentRxLastMessageInstant
           /\ \/ o.out = {} /\ o.group = g
              \/ /\ o.out = {Sadfd(0, g.currentStk, g.currentCtrNonce)}
                 /\ o.group.currentCtrNonce = Incremented(g.currentCtrNonce)
BY DEF ServerBuildSecuredFd, Outcome, ServerGroupState

----------------------------------------------------------------------------
(* The counter nonces stay ahead *)

\* A call leaves counter nonce n of key k above those used before and by it.
AheadAfter(o, k, n) ==
    /\ Above(n, used[k])
    /\ \A m \in o.out \cup o.sdu :
          m.pty \in {"REN", "SADFD"} /\ m.stk = k => m.ctrnonce < n \/ CtrnonceIsExpired(n)

\* Messages use up counter nonces up to their own.
LEMMA UsedUpIsBelow ==
    ASSUME TypeOK, NEW o \in Outcomes, NEW k \in 1 .. MaxStk, NEW n \in Ctrnonce,
           Return(o), k \in {o.group.currentStk, o.group.previousStk}, AheadAfter(o, k, n)
    PROVE  Above(n, used'[k])
<1> SUFFICES ASSUME NEW c \in used'[k], ~CtrnonceIsExpired(n)
             PROVE  c < n
  BY DEF Above
<1>1. used'[k] = used[k] \cup UpTo(UsedBy(o.out \cup o.sdu, k))
  BY DEF Return, UsedAfter
<1>2. CASE c \in used[k]
  BY <1>2 DEF AheadAfter, Above
<1>3. CASE c \in UpTo(UsedBy(o.out \cup o.sdu, k))
  <2>1. c \in Ctrnonce
    BY <1>3 DEF UpTo
  <2>2. PICK d \in UsedBy(o.out \cup o.sdu, k) : c <= d
    BY <1>3 DEF UpTo
  <2>3. PICK m \in o.out \cup o.sdu : m.pty \in {"REN", "SADFD"} /\ m.stk = k /\ d = m.ctrnonce
    BY <2>2 DEF UsedBy
  <2>4. m.ctrnonce \in Ctrnonce
    <3>1. m \in Pdus \cup Sdus
      BY DEF Outcomes
    <3> QED BY <3>1 DEF Pdus, Sdus, Res, Ren, Sadfd
  <2>5. d < n
    BY <2>3 DEF AheadAfter
  <2> QED BY <2>1, <2>2, <2>3, <2>4, <2>5 DEF Ctrnonce
<1> QED BY <1>1, <1>2, <1>3

\* The invariant is about the keys a call leaves behind.
LEMMA ReturnAhead ==
    ASSUME TypeOK, KeysAscend', TypeOK', NEW o \in Outcomes, Return(o),
           AheadAfter(o, o.group.currentStk, o.group.currentCtrNonce),
           ServerPhaseIsActive(o.group) =>
               AheadAfter(o, o.group.previousStk, o.group.previousCtrNonce)
    PROVE  NoncesAhead'
<1>1. group' = o.group
  BY DEF Return
<1>2. /\ group'.currentStk \in 1 .. MaxStk
      /\ group'.previousStk \in Stk
      /\ group'.currentCtrNonce \in Ctrnonce /\ group'.previousCtrNonce \in Ctrnonce
  BY DEF TypeOK, KeysAscend, ServerGroupState
<1>3. Above(group'.currentCtrNonce, used'[group'.currentStk])
  BY <1>1, <1>2, UsedUpIsBelow
<1>4. ServerPhaseIsActive(group') => Above(group'.previousCtrNonce, used'[group'.previousStk])
  <2>1. ServerPhaseIsActive(group') => group'.previousStk \in 1 .. MaxStk
    BY <1>2 DEF ServerPhaseIsActive, NoStk, Stk
  <2> QED BY <1>1, <1>2, <2>1, UsedUpIsBelow
<1>5. \A k \in 1 .. MaxStk : k \notin {group'.currentStk, group'.previousStk} => used'[k] = {}
  BY <1>1 DEF Return, UsedAfter
<1> QED BY <1>3, <1>4, <1>5 DEF NoncesAhead

\* What the lemmas below start from.
Inv == TypeOK /\ KeysAscend /\ NoncesAhead

\* The invariant, as facts about numbers.
LEMMA InvFacts ==
    ASSUME Inv
    PROVE  /\ group \in ServerGroupState /\ now \in Timestamp /\ known \subseteq Stk
           /\ issued \in 1 .. MaxStk
           /\ group.currentStk = issued
           /\ group.previousStk \in Stk /\ group.previousStk # group.currentStk
           /\ group.previousStk # issued + 1
           /\ group.currentCtrNonce \in Ctrnonce
           /\ group.previousCtrNonce \in Ctrnonce
           /\ used \in [1 .. MaxStk -> SUBSET Ctrnonce]
           /\ Above(group.currentCtrNonce, used[issued])
           /\ ServerPhaseIsActive(group) => Above(group.previousCtrNonce, used[group.previousStk])
<1>1. issued \in 1 .. MaxStk /\ group.previousStk \in Stk /\ group.previousStk < issued
  BY DEF Inv, TypeOK, KeysAscend, ServerGroupState
<1>2. group.previousStk # issued /\ group.previousStk # issued + 1
  BY <1>1 DEF Stk
<1> QED BY <1>1, <1>2 DEF Inv, TypeOK, KeysAscend, NoncesAhead, ServerGroupState

\* Nothing is used with the key drawn next.
LEMMA FreshIsUnused ==
    ASSUME Inv, issued + 1 \in Stk
    PROVE  issued + 1 \in 1 .. MaxStk /\ used[issued + 1] = {}
<1>1. issued + 1 \in 1 .. MaxStk /\ issued + 1 # issued
  BY InvFacts DEF Stk
<1> QED BY <1>1, InvFacts DEF Inv, NoncesAhead

\* A renewal in a state of the current Session, perhaps just after a message.
LEMMA RenewAhead ==
    ASSUME IoFaults = {}, Inv, NEW r \in ServerGroupState, NEW o,
           NEW e \in ServerRenew(r, now, issued + 1), o.group = e.group, o.out = e.out,
           r.currentStk = issued,
           AheadAfter([out |-> {}, sdu |-> o.sdu], issued, r.currentCtrNonce),
           o.sdu \subseteq Sdus, \A m \in o.sdu : m.stk # issued + 1
    PROVE  /\ AheadAfter(o, o.group.currentStk, o.group.currentCtrNonce)
           /\ AheadAfter(o, o.group.previousStk, o.group.previousCtrNonce)
<1>1. /\ o.out = {Ren(issued, r.currentCtrNonce)}
      /\ issued + 1 \in Stk
      /\ o.group.currentStk = issued + 1
      /\ o.group.previousStk = issued
      /\ o.group.currentCtrNonce = 0
      /\ o.group.previousCtrNonce = Incremented(r.currentCtrNonce)
  BY InvFacts, RenewEffect
<1>2. used[issued + 1] = {} /\ issued # issued + 1
  BY <1>1, FreshIsUnused, InvFacts
<1>3. \A m \in o.out : m.stk = issued /\ m.ctrnonce = r.currentCtrNonce
  BY <1>1 DEF Ren
<1>4. AheadAfter(o, issued + 1, 0)
  BY <1>2, <1>3 DEF AheadAfter, Above
<1> DEFINE n == r.currentCtrNonce
           p == Incremented(n)
<1>5. /\ n \in Ctrnonce /\ p \in Ctrnonce /\ p >= n
      /\ n < p \/ CtrnonceIsExpired(p)
  BY IncrementedIsAbove DEF ServerGroupState
<1>6. Above(p, used[issued])
  BY <1>5, AboveLater, InvFacts DEF AheadAfter
<1>7. ASSUME NEW m \in o.sdu, m.pty \in {"REN", "SADFD"}, m.stk = issued,
             ~CtrnonceIsExpired(p)
      PROVE  m.ctrnonce < p \/ CtrnonceIsExpired(p)
  <2>1. m.ctrnonce < n \/ CtrnonceIsExpired(n)
    BY <1>7 DEF AheadAfter
  <2>2. ~CtrnonceIsExpired(n) /\ p = n + 1
    BY <1>5, <1>7 DEF CtrnonceIsExpired, Incremented, Ctrnonce
  <2>3. m.ctrnonce \in Nat
    BY DEF Sdus, Sadfd, Ctrnonce
  <2> QED BY <2>1, <2>2, <2>3, <1>5 DEF Ctrnonce
<1> QED BY <1>1, <1>3, <1>4, <1>5, <1>6, <1>7 DEF AheadAfter

\* What an accepted message, of counter nonce c under key k, leaves of the
\* state: it belongs to one of the two Sessions, is not too late for it, and
\* that Session's counter nonce moves beyond it.
Accepted(k, c, received) ==
    /\ received \in ServerGroupState
    /\ received.currentStk = issued
    /\ received.previousStk \in {group.previousStk, NoStk}
    /\ received.sessionStartInstant = group.sessionStartInstant
    /\ received.currentCtrNonce >= group.currentCtrNonce
    /\ ServerPhaseIsActive(received) =>
           /\ ServerPhaseIsActive(group) /\ received.previousStk = group.previousStk
           /\ ~ServerPhaseIsOver(group, now)
           /\ received.previousCtrNonce >= group.previousCtrNonce
    /\ ~CtrnonceIsExpired(c)
    /\ \/ /\ k = issued
          /\ c >= group.currentCtrNonce - CtrDelay(group.currentRxLastMessageInstant, now)
          /\ received.currentCtrNonce = Advanced(group.currentCtrNonce, c)
          /\ received.currentCtrNonce > c
          /\ ServerDidAnyClientAlreadyRequest(received)
       \/ /\ k = group.previousStk /\ ServerPhaseIsActive(group)
          /\ ~ServerPhaseIsOver(group, now)
          /\ c >= group.previousCtrNonce - CtrDelay(group.previousRxLastMessageInstant, now)
          /\ ServerPhaseIsActive(received)
          /\ received.previousCtrNonce > c
          /\ received.currentCtrNonce = group.currentCtrNonce
          /\ received.currentRxLastMessageInstant = group.currentRxLastMessageInstant

\* What is accepted is Accepted.
LEMMA AcceptedAhead ==
    ASSUME Inv, NEW c \in Ctrnonce, NEW k \in Stk, NEW received,
           LET exited == ServerPhaseExitIfNeeded(group, now)
               isPrevious == ServerIsPreviousSession(exited, c)
           IN  /\ received = ServerUpdateCtrnonceAndRxTimestamp(exited, c, now, isPrevious)
               /\ ServerCheckRxCtrnonce(exited, c, now)
               /\ k = ServerChooseStk(exited, isPrevious)
    PROVE  Accepted(k, c, received)
<1> DEFINE exited == ServerPhaseExitIfNeeded(group, now)
           isPrevious == ServerIsPreviousSession(exited, c)
<1>0. ~CtrnonceIsExpired(c) /\ k = ServerChooseStk(exited, isPrevious)
  BY DEF ServerCheckRxCtrnonce
<1>1. /\ exited \in ServerGroupState
      /\ exited.currentStk = issued
      /\ exited.currentCtrNonce = group.currentCtrNonce
      /\ exited.sessionStartInstant = group.sessionStartInstant
      /\ exited.currentRxLastMessageInstant = group.currentRxLastMessageInstant
      /\ \/ exited.previousStk = NoStk
         \/ exited = group /\ ServerPhaseIsActive(group) /\ ~ServerPhaseIsOver(group, now)
  BY ExitEffect, InvFacts
<1>2. isPrevious \in BOOLEAN /\ (isPrevious => ServerPhaseIsActive(exited))
  BY DEF ServerIsPreviousSession
<1>10. /\ isPrevious => c >= exited.previousCtrNonce
                             - CtrDelay(exited.previousRxLastMessageInstant, now)
       /\ ~isPrevious => c >= exited.currentCtrNonce
                              - CtrDelay(exited.currentRxLastMessageInstant, now)
  BY DEF ServerCheckRxCtrnonce
<1>3. received = ServerUpdateCtrnonceAndRxTimestamp(exited, c, now, isPrevious)
  OBVIOUS
<1> HIDE DEF exited, isPrevious
<1>4. /\ received \in ServerGroupState
      /\ received.currentStk = exited.currentStk
      /\ received.previousStk = exited.previousStk
      /\ received.sessionStartInstant = exited.sessionStartInstant
      /\ \/ /\ isPrevious
            /\ received.previousCtrNonce = Advanced(exited.previousCtrNonce, c)
            /\ received.currentCtrNonce = exited.currentCtrNonce
            /\ received.currentRxLastMessageInstant = exited.currentRxLastMessageInstant
         \/ /\ ~isPrevious
            /\ received.currentCtrNonce = Advanced(exited.currentCtrNonce, c)
            /\ received.previousCtrNonce = exited.previousCtrNonce
            /\ ServerDidAnyClientAlreadyRequest(received)
  BY <1>1, <1>2, <1>3, ReceivedEffect, InvFacts
<1>5. /\ Advanced(exited.previousCtrNonce, c) >= exited.previousCtrNonce
      /\ Advanced(exited.previousCtrNonce, c) > c
      /\ Advanced(exited.currentCtrNonce, c) >= exited.currentCtrNonce
      /\ Advanced(exited.currentCtrNonce, c) > c
  BY <1>0, <1>1, AdvancedIsLater DEF ServerGroupState
<1>6. group.currentCtrNonce >= group.currentCtrNonce
      /\ group.previousCtrNonce >= group.previousCtrNonce
  BY InvFacts DEF Ctrnonce
<1>7. ServerPhaseIsActive(received) =>
        /\ exited = group /\ ServerPhaseIsActive(group) /\ ~ServerPhaseIsOver(group, now)
        /\ received.previousStk = group.previousStk
  BY <1>1, <1>4 DEF ServerPhaseIsActive
<1>8. CASE isPrevious
  <2>1. ServerPhaseIsActive(received) /\ k = group.previousStk
    BY <1>0, <1>1, <1>2, <1>4, <1>8 DEF ServerPhaseIsActive, ServerChooseStk
  <2> QED BY <1>0, <1>1, <1>4, <1>5, <1>6, <1>7, <1>8, <1>10, <2>1 DEF Accepted
<1>9. CASE ~isPrevious
  <2>1. k = issued
    BY <1>0, <1>1, <1>9 DEF ServerChooseStk
  <2>2. received.previousStk \in {group.previousStk, NoStk}
    BY <1>1, <1>4
  <2> QED BY <1>0, <1>1, <1>4, <1>5, <1>6, <1>7, <1>9, <1>10, <2>1, <2>2 DEF Accepted
<1> QED BY <1>2, <1>8, <1>9

\* A call leaves both counter nonces ahead.
LeavesAhead(o) ==
    /\ AheadAfter(o, o.group.currentStk, o.group.currentCtrNonce)
    /\ ServerPhaseIsActive(o.group) =>
           AheadAfter(o, o.group.previousStk, o.group.previousCtrNonce)

\* A call without messages that changes neither key nor counter nonce, but
\* perhaps closes the phase.
LEMMA QuietAhead ==
    ASSUME Inv, NEW o, o.sdu = {}, o.group.currentStk = group.currentStk,
           \A m \in o.out : m.pty = "RES",
           o.group.currentCtrNonce = group.currentCtrNonce,
           \/ ~ServerPhaseIsActive(o.group)
           \/ /\ o.group.previousStk = group.previousStk
              /\ o.group.previousCtrNonce = group.previousCtrNonce
    PROVE  LeavesAhead(o)
<1>1. AheadAfter(o, o.group.currentStk, o.group.currentCtrNonce)
  BY InvFacts DEF AheadAfter
<1>2. ASSUME ServerPhaseIsActive(o.group)
      PROVE  AheadAfter(o, o.group.previousStk, o.group.previousCtrNonce)
  BY <1>2, InvFacts DEF AheadAfter, ServerPhaseIsActive
<1> QED BY <1>1, <1>2 DEF LeavesAhead

\* A secured message of either Session, with or without a renewal after it.
LEMMA SecuredFdAhead ==
    ASSUME IoFaults = {}, Inv, NEW intact \in BOOLEAN,
           NEW sid \in Sid \ {0}, NEW k \in Stk, NEW c \in Ctrnonce,
           NEW o \in ServerProcessReceivedSecuredFd(
                        group, Sadfd(sid, k, c), intact, now, issued + 1)
    PROVE  LeavesAhead(o)
<1> DEFINE m == Sadfd(sid, k, c)
           exited == ServerPhaseExitIfNeeded(group, now)
           isPrevious == ServerIsPreviousSession(exited, c)
           received == ServerUpdateCtrnonceAndRxTimestamp(exited, c, now, isPrevious)
<1>1. m.stk = k /\ m.ctrnonce = c
  BY DEF Sadfd
<1>2. CASE o.out = {} /\ o.sdu = {} /\ o.group \in {group, exited}
  <2>1. /\ exited.currentStk = group.currentStk
        /\ exited.currentCtrNonce = group.currentCtrNonce
        /\ exited.previousStk = NoStk \/ exited = group
    BY ExitEffect, InvFacts
  <2> QED BY <1>2, <2>1, QuietAhead DEF ServerPhaseIsActive
<1>3. ASSUME o.sdu = {m},
             ServerCheckRxCtrnonce(exited, c, now),
             k = ServerChooseStk(exited, isPrevious),
             \/ o.out = {} /\ o.group = received
             \/ \E r \in ServerRenew(received, now, issued + 1) :
                   o.group = r.group /\ o.out = r.out
      PROVE  LeavesAhead(o)
  <2>1. /\ received \in ServerGroupState
        /\ received.currentStk = issued
        /\ received.currentCtrNonce >= group.currentCtrNonce
        /\ ServerPhaseIsActive(received) =>
              /\ ServerPhaseIsActive(group) /\ received.previousStk = group.previousStk
              /\ received.previousCtrNonce >= group.previousCtrNonce
        /\ \/ k = issued /\ received.currentCtrNonce > c
           \/ k = group.previousStk /\ received.previousCtrNonce > c
    BY <1>3, AcceptedAhead DEF Accepted
  <2> HIDE DEF received, exited, isPrevious
  <2>2. received.currentCtrNonce \in Ctrnonce /\ received.previousCtrNonce \in Ctrnonce
    BY <2>1 DEF ServerGroupState
  <2>3. k # issued + 1 /\ issued # issued + 1
    BY <2>1, InvFacts
  <2>4. Above(received.currentCtrNonce, used[issued])
    BY <2>1, <2>2, InvFacts, AboveLater
  <2>5. k = issued => received.currentCtrNonce > c
    BY <2>1, InvFacts
  <2>6. CASE o.out = {} /\ o.group = received
    <3>1. AheadAfter(o, issued, received.currentCtrNonce)
      BY <1>1, <1>3, <2>2, <2>4, <2>5, <2>6 DEF AheadAfter, Ctrnonce
    <3>2. ASSUME ServerPhaseIsActive(received)
          PROVE  AheadAfter(o, received.previousStk, received.previousCtrNonce)
      <4>1. group.previousStk \in 1 .. MaxStk
        BY <2>1, <3>2, InvFacts DEF ServerPhaseIsActive, NoStk, Stk
      <4>2. Above(received.previousCtrNonce, used[group.previousStk])
        BY <2>1, <2>2, <3>2, <4>1, InvFacts, AboveLater
      <4>3. k = group.previousStk => received.previousCtrNonce > c
        BY <2>1, InvFacts
      <4> QED BY <1>1, <1>3, <2>1, <2>2, <2>6, <3>2, <4>2, <4>3 DEF AheadAfter, Ctrnonce
    <3> QED BY <2>1, <2>6, <3>1, <3>2 DEF LeavesAhead
  <2>7. CASE \E r \in ServerRenew(received, now, issued + 1) : o.group = r.group /\ o.out = r.out
    <3>1. PICK r \in ServerRenew(received, now, issued + 1) : o.group = r.group /\ o.out = r.out
      BY <2>7
    <3>2. AheadAfter([out |-> {}, sdu |-> o.sdu], issued, received.currentCtrNonce)
      BY <1>1, <1>3, <2>2, <2>4, <2>5 DEF AheadAfter, Ctrnonce
    <3>3. o.sdu \subseteq Sdus /\ \A x \in o.sdu : x.stk # issued + 1
      <4>1. o \in Outcomes
        BY InvFacts, SecuredFdType
      <4> QED BY <1>1, <1>3, <2>3, <4>1 DEF Outcomes
    <3> QED BY <2>1, <3>1, <3>2, <3>3, RenewAhead DEF LeavesAhead
  <2> QED BY <1>3, <2>6, <2>7 DEF received, exited, isPrevious
<1>4. \/ o.out = {} /\ o.sdu = {} /\ o.group \in {group, exited}
      \/ /\ o.sdu = {m}
         /\ ServerCheckRxCtrnonce(exited, c, now)
         /\ k = ServerChooseStk(exited, isPrevious)
         /\ \/ o.out = {} /\ o.group = received
            \/ /\ ServerSessionIsExpired(received, now)
               /\ \E r \in ServerRenew(received, now, issued + 1) :
                     o.group = r.group /\ o.out = r.out
  <2>1. SecuredFdCases(group, sid, k, c, now, issued + 1, o)
    BY InvFacts, SecuredFdEffect
  <2> QED BY <2>1 DEF SecuredFdCases
<1> HIDE DEF exited, isPrevious, received
<1> QED BY <1>2, <1>3, <1>4

\* A Request, and its answer.
LEMMA RequestAhead ==
    ASSUME IoFaults = {}, Inv, NEW intact \in BOOLEAN, NEW sid \in Sid \ {0},
           NEW reqnonce \in Nonces,
           NEW o \in ServerProcessReceivedRequest(group, Req(sid, reqnonce), intact, now)
    PROVE  LeavesAhead(o)
<1>1. /\ o.sdu = {}
      /\ \/ o.group = group /\ o.out = {}
         \/ /\ o.group = ServerUpdateCurrentRxLastMessageInstant(group, now)
            /\ o.out = {Res(sid, reqnonce, group.currentStk, group.currentCtrNonce)}
  BY RequestEffect, InvFacts
<1>2. \A m \in o.out : m.pty = "RES"
  BY <1>1 DEF Res
<1>3. /\ o.group.currentStk = group.currentStk
      /\ o.group.currentCtrNonce = group.currentCtrNonce
      /\ o.group.previousStk = group.previousStk
      /\ o.group.previousCtrNonce = group.previousCtrNonce
  BY <1>1, UpdateCurrentRxEffect, InvFacts
<1> QED BY <1>1, <1>2, <1>3, QuietAhead

\* A secured message built.
LEMMA BuildAhead ==
    ASSUME Inv, NEW o \in ServerBuildSecuredFd(group)
    PROVE  LeavesAhead(o)
<1> DEFINE n == group.currentCtrNonce
<1>1. /\ o.sdu = {}
      /\ o.group.currentStk = group.currentStk
      /\ o.group.previousStk = group.previousStk
      /\ o.group.previousCtrNonce = group.previousCtrNonce
      /\ \/ o.out = {} /\ o.group = group
         \/ /\ o.out = {Sadfd(0, group.currentStk, n)}
            /\ o.group.currentCtrNonce = Incremented(n)
  BY BuildEffect, InvFacts
<1>2. CASE o.out = {} /\ o.group = group
  BY <1>1, <1>2, QuietAhead
<1>3. CASE o.out = {Sadfd(0, group.currentStk, n)} /\ o.group.currentCtrNonce = Incremented(n)
  <2>1. \A m \in o.out \cup o.sdu : m.stk = issued /\ m.ctrnonce = n
    BY <1>1, <1>3, InvFacts DEF Sadfd
  <2>2. Above(Incremented(n), used[issued])
    BY InvFacts, IncrementedIsAbove, AboveLater
  <2>3. AheadAfter(o, issued, Incremented(n))
    BY <2>1, <2>2, InvFacts, IncrementedIsAbove DEF AheadAfter
  <2>4. ServerPhaseIsActive(group) => AheadAfter(o, group.previousStk, group.previousCtrNonce)
    BY <2>1, InvFacts DEF AheadAfter
  <2> QED BY <1>1, <1>3, <2>3, <2>4, InvFacts DEF LeavesAhead, ServerPhaseIsActive
<1> QED BY <1>1, <1>2, <1>3

\* A renewal forced, or its announcement repeated.
LEMMA ForceAhead ==
    ASSUME IoFaults = {}, Inv, NEW o \in ServerForceSessionRenewal(group, now, issued + 1)
    PROVE  LeavesAhead(o)
<1>1. CASE ServerPhaseIsActive(group) /\ o = ServerBuildMsgRenewal(group)
  <2> DEFINE n == group.previousCtrNonce
  <2>1. /\ o.out = {Ren(group.previousStk, n)} /\ o.sdu = {}
        /\ o.group.currentStk = issued
        /\ o.group.previousStk = group.previousStk
        /\ o.group.currentCtrNonce = group.currentCtrNonce
        /\ o.group.previousCtrNonce = Incremented(n)
    BY <1>1, BuildMsgRenewalEffect, InvFacts
  <2>2. \A m \in o.out \cup o.sdu : m.stk = group.previousStk /\ m.ctrnonce = n
    BY <2>1 DEF Ren
  <2>3. AheadAfter(o, issued, group.currentCtrNonce)
    BY <2>2, InvFacts DEF AheadAfter
  <2>4. group.previousStk \in 1 .. MaxStk
    BY <1>1, InvFacts DEF ServerPhaseIsActive, NoStk, Stk
  <2>5. Above(Incremented(n), used[group.previousStk])
    BY <1>1, <2>4, InvFacts, IncrementedIsAbove, AboveLater
  <2>6. AheadAfter(o, group.previousStk, Incremented(n))
    BY <2>2, <2>5, InvFacts, IncrementedIsAbove DEF AheadAfter
  <2> QED BY <2>1, <2>3, <2>6 DEF LeavesAhead
<1>2. CASE o \in ServerRenew(group, now, issued + 1)
  <2>1. o.sdu = {}
    BY <1>2, RenewEffect, InvFacts
  <2>2. AheadAfter([out |-> {}, sdu |-> o.sdu], issued, group.currentCtrNonce)
    BY <2>1, InvFacts DEF AheadAfter
  <2> QED BY <1>2, <2>1, <2>2, RenewAhead, InvFacts DEF LeavesAhead
<1>3. CASE o.out = {} /\ o.sdu = {} /\ o.group = group
  BY <1>3, QuietAhead
<1> QED BY <1>1, <1>2, <1>3, ForceEffect, InvFacts

\* Every step keeps the counter nonces ahead.
LEMMA NoncesStep ==
    ASSUME IoFaults = {}
    PROVE  Inv /\ [Next]_vars => Inv'
<1> SUFFICES ASSUME Inv, [Next]_vars
             PROVE  Inv'
  OBVIOUS
<1>0. /\ group \in ServerGroupState /\ now \in Timestamp /\ known \subseteq Stk
      /\ issued \in 1 .. MaxStk
  BY InvFacts
<1>1. TypeOK' /\ KeysAscend'
  BY TypeStep, KeysStep DEF Inv
<1>2. ASSUME NEW o \in Outcomes, Return(o), LeavesAhead(o)
      PROVE  Inv'
  BY <1>1, <1>2, ReturnAhead DEF Inv, LeavesAhead
<1>3. CASE Tick
  BY <1>1, <1>3 DEF Tick, Inv, NoncesAhead
<1>4. CASE Restart
  <2> DEFINE started == ServerStartedSession(now, issued + 1)
             o == Outcome("OK", started, {}, {})
  <2>1. issued + 1 \in Stk
    BY <1>0, <1>4 DEF Restart, Stk
  <2>2. o \in Outcomes /\ Return(o)
    BY <1>0, <1>4, <2>1, StartedSessionType DEF Restart, Outcome, Outcomes, Errors
  <2>3. /\ o.out = {} /\ o.sdu = {} /\ o.group.currentStk = issued + 1
        /\ ~ServerPhaseIsActive(o.group)
    BY DEF Outcome, ServerStartedSession, ServerPhaseIsActive
  <2>4. used[issued + 1] = {}
    BY <2>1, FreshIsUnused
  <2> HIDE DEF o
  <2>5. LeavesAhead(o)
    BY <2>3, <2>4 DEF LeavesAhead, AheadAfter, Above
  <2> QED BY <1>2, <2>2, <2>5
<1>5. CASE ReceiveRequest
  <2>1. PICK sid \in Sid \ {0}, reqnonce \in Nonces, intact \in BOOLEAN :
          \E o \in ServerProcessReceivedRequest(group, Req(sid, reqnonce), intact, now) : Return(o)
    BY <1>5 DEF ReceiveRequest
  <2>2. PICK o \in ServerProcessReceivedRequest(group, Req(sid, reqnonce), intact, now) : Return(o)
    BY <2>1
  <2>3. o \in Outcomes /\ LeavesAhead(o)
    BY <1>0, RequestType, RequestAhead
  <2> QED BY <1>2, <2>2, <2>3
<1>6. CASE ReceiveSecuredFd
  <2>1. PICK sid \in Sid \ {0}, stk \in known \ {NoStk}, ctrnonce \in Ctrnonce,
             intact \in BOOLEAN :
          \E o \in ServerProcessReceivedSecuredFd(
                      group, Sadfd(sid, stk, ctrnonce), intact, now, issued + 1) : Return(o)
    BY <1>6 DEF ReceiveSecuredFd
  <2>2. PICK o \in ServerProcessReceivedSecuredFd(
                      group, Sadfd(sid, stk, ctrnonce), intact, now, issued + 1) : Return(o)
    BY <2>1
  <2>3. o \in Outcomes /\ LeavesAhead(o)
    BY <1>0, SecuredFdType, SecuredFdAhead
  <2> QED BY <1>2, <2>2, <2>3
<1>7. CASE BuildSecuredFd
  <2>1. PICK o \in ServerBuildSecuredFd(group) : Return(o)
    BY <1>7 DEF BuildSecuredFd
  <2> QED BY <1>0, <1>2, <2>1, BuildSecuredFdType, BuildAhead
<1>8. CASE ForceSessionRenewal
  <2>1. PICK o \in ServerForceSessionRenewal(group, now, issued + 1) : Return(o)
    BY <1>8 DEF ForceSessionRenewal
  <2> QED BY <1>0, <1>2, <2>1, ForceType, ForceAhead
<1>9. CASE UNCHANGED vars
  BY <1>1, <1>9 DEF vars, Inv, NoncesAhead
<1> QED
  BY <1>3, <1>4, <1>5, <1>6, <1>7, <1>8, <1>9 DEF Next

\* Nothing is used at first.
LEMMA NoncesInit == Init => Inv
<1> SUFFICES ASSUME Init PROVE NoncesAhead
  BY TypeInit, KeysInit DEF Inv
<1>1. used = [k \in 1 .. MaxStk |-> {}] /\ group.currentStk = 1 /\ ~ServerPhaseIsActive(group)
  BY DEF Init, ServerStartedSession, ServerPhaseIsActive
<1> QED BY <1>1 DEF NoncesAhead, Above

\* The inductive invariant, of every behaviour without a fault.
LEMMA InvCorrect ==
    ASSUME IoFaults = {}
    PROVE  Spec => []Inv
BY NoncesInit, NoncesStep, PTL DEF Spec

----------------------------------------------------------------------------
(* What each action returns and leaves *)

\* A Request: no data and no REN; one that is accepted gives the key away.
LEMMA RequestActs ==
    ASSUME "trng" \notin IoFaults, TypeOK, group.currentStk = issued, ReceiveRequest
    PROVE  /\ ret'.sdu = {} /\ \A m \in ret'.out : m.pty = "RES"
           /\ group'.currentStk = issued /\ group'.previousStk = group.previousStk
           /\ issued' = Larger(issued, group'.currentStk)
           /\ known \subseteq known' /\ known' \subseteq known \cup {issued}
           /\ \/ /\ served' = served /\ known' = known
                 /\ group' = group
              \/ /\ ServerDidAnyClientAlreadyRequest(group') /\ served'
                 /\ group'.currentStk \in known'
<1>0. group \in ServerGroupState /\ now \in Timestamp /\ served \in BOOLEAN
  BY DEF TypeOK
<1>1. PICK sid \in Sid \ {0}, reqnonce \in Nonces, intact \in BOOLEAN :
        \E o \in ServerProcessReceivedRequest(group, Req(sid, reqnonce), intact, now) :
            Return(o) /\ served' = (served \/ o.err # "REFUSED")
  BY DEF ReceiveRequest
<1>2. PICK o \in ServerProcessReceivedRequest(group, Req(sid, reqnonce), intact, now) :
        Return(o) /\ served' = (served \/ o.err # "REFUSED")
  BY <1>1
<1>3. /\ o.sdu = {}
      /\ \/ o.err = "REFUSED" /\ o.group = group /\ o.out = {}
         \/ /\ o.err = "OK"
            /\ o.group = ServerUpdateCurrentRxLastMessageInstant(group, now)
            /\ o.out = {Res(sid, reqnonce, group.currentStk, group.currentCtrNonce)}
  BY <1>0, RequestEffect
<1>4. /\ group' = o.group /\ ret'.out = o.out /\ ret'.sdu = o.sdu
      /\ issued' = Larger(issued, group'.currentStk)
      /\ known' = known \cup {m.stk : m \in {x \in o.out : x.pty = "RES"}}
  BY <1>2 DEF Return
<1>5. CASE o.err = "REFUSED" /\ o.group = group /\ o.out = {}
  BY <1>0, <1>2, <1>3, <1>4, <1>5
<1>6. CASE /\ o.err = "OK"
           /\ o.group = ServerUpdateCurrentRxLastMessageInstant(group, now)
           /\ o.out = {Res(sid, reqnonce, group.currentStk, group.currentCtrNonce)}
  <2>1. /\ ServerDidAnyClientAlreadyRequest(o.group)
        /\ o.group.currentStk = group.currentStk /\ o.group.previousStk = group.previousStk
    BY <1>0, <1>6, UpdateCurrentRxEffect
  <2>2. \A m \in o.out : m.pty = "RES" /\ m.stk = group.currentStk
    BY <1>6 DEF Res
  <2>3. group.currentStk \in known'
    BY <1>4, <1>6, <2>2
  <2>4. known' \subseteq known \cup {group.currentStk}
    BY <1>4, <2>2
  <2> QED BY <1>2, <1>3, <1>4, <1>6, <2>1, <2>2, <2>3, <2>4
<1> QED BY <1>3, <1>5, <1>6

\* A secured message: refused, or accepted in one of the two Sessions, and
\* then perhaps followed by a renewal.
LEMMA SecuredFdActs ==
    ASSUME IoFaults = {}, Inv, ReceiveSecuredFd
    PROVE  /\ known' = known
           /\ \/ /\ ret'.sdu = {} /\ ret'.out = {} /\ (served' => served)
                 /\ group'.currentStk = issued
                 /\ group'.previousStk \in {group.previousStk, NoStk}
                 /\ group'.currentRxLastMessageInstant = group.currentRxLastMessageInstant
                 /\ group'.sessionStartInstant = group.sessionStartInstant
              \/ \E m \in ret'.sdu, received \in ServerGroupState :
                 /\ ret'.sdu = {m} /\ m.stk \in known /\ m.ctrnonce \in Ctrnonce
                 /\ Accepted(m.stk, m.ctrnonce, received)
                 /\ \/ /\ ret'.out = {} /\ group' = received
                       /\ served' => served \/ m.stk = issued
                    \/ /\ ServerSessionIsExpired(received, now)
                       /\ ret'.out = {Ren(issued, received.currentCtrNonce)}
                       /\ group'.currentStk = issued + 1
                       /\ group'.previousStk = issued
                       /\ ~served'
<1>0. group \in ServerGroupState /\ now \in Timestamp /\ known \subseteq Stk
      /\ group.currentStk = issued /\ issued # issued + 1
  BY InvFacts
<1>1. PICK sid \in Sid \ {0}, stk \in known \ {NoStk}, c \in Ctrnonce, intact \in BOOLEAN :
        \E o \in ServerProcessReceivedSecuredFd(
                    group, Sadfd(sid, stk, c), intact, now, issued + 1) :
            /\ Return(o)
            /\ served' = /\ served \/ (o.sdu # {} /\ stk = group.currentStk)
                         /\ o.group.currentStk = group.currentStk
  BY DEF ReceiveSecuredFd
<1>2. PICK o \in ServerProcessReceivedSecuredFd(
                    group, Sadfd(sid, stk, c), intact, now, issued + 1) :
            /\ Return(o)
            /\ served' = /\ served \/ (o.sdu # {} /\ stk = group.currentStk)
                         /\ o.group.currentStk = group.currentStk
  BY <1>1
<1> DEFINE m == Sadfd(sid, stk, c)
           exited == ServerPhaseExitIfNeeded(group, now)
           isPrevious == ServerIsPreviousSession(exited, c)
           received == ServerUpdateCtrnonceAndRxTimestamp(exited, c, now, isPrevious)
<1>3. stk \in Stk /\ stk \in known
  BY <1>0
<1>4. \/ o.out = {} /\ o.sdu = {} /\ o.group \in {group, exited}
      \/ /\ o.sdu = {m}
         /\ ServerCheckRxCtrnonce(exited, c, now)
         /\ stk = ServerChooseStk(exited, isPrevious)
         /\ \/ o.out = {} /\ o.group = received
            \/ /\ ServerSessionIsExpired(received, now)
               /\ \E r \in ServerRenew(received, now, issued + 1) :
                     o.group = r.group /\ o.out = r.out
  <2>1. SecuredFdCases(group, sid, stk, c, now, issued + 1, o)
    BY <1>0, <1>3, SecuredFdEffect
  <2> QED BY <2>1 DEF SecuredFdCases
<1>5. /\ group' = o.group /\ ret'.out = o.out /\ ret'.sdu = o.sdu
      /\ known' = known \cup {x.stk : x \in {y \in o.out : y.pty = "RES"}}
  BY <1>2 DEF Return
<1>6. m.stk = stk /\ m.ctrnonce = c
  BY DEF Sadfd
<1>7. CASE o.out = {} /\ o.sdu = {} /\ o.group \in {group, exited}
  <2>1. /\ exited.currentStk = issued
        /\ exited.previousStk \in {group.previousStk, NoStk}
        /\ exited.currentRxLastMessageInstant = group.currentRxLastMessageInstant
        /\ exited.sessionStartInstant = group.sessionStartInstant
    BY <1>0, ExitEffect
  <2> HIDE DEF exited
  <2> QED BY <1>0, <1>2, <1>5, <1>7, <2>1
<1>8. ASSUME o.sdu = {m}, Accepted(stk, c, received),
             \/ o.out = {} /\ o.group = received
             \/ /\ ServerSessionIsExpired(received, now)
                /\ \E r \in ServerRenew(received, now, issued + 1) :
                      o.group = r.group /\ o.out = r.out
      PROVE  /\ known' = known
             /\ \/ /\ ret'.out = {} /\ group' = received
                   /\ served' => served \/ stk = issued
                \/ /\ ServerSessionIsExpired(received, now)
                   /\ ret'.out = {Ren(issued, received.currentCtrNonce)}
                   /\ group'.currentStk = issued + 1
                   /\ group'.previousStk = issued
                   /\ ~served'
  <2> HIDE DEF received, m
  <2>1. CASE o.out = {} /\ o.group = received
    BY <1>0, <1>2, <1>5, <2>1
  <2>2. CASE /\ ServerSessionIsExpired(received, now)
             /\ \E r \in ServerRenew(received, now, issued + 1) :
                   o.group = r.group /\ o.out = r.out
    <3>1. PICK r \in ServerRenew(received, now, issued + 1) : o.group = r.group /\ o.out = r.out
      BY <2>2
    <3>2. received \in ServerGroupState /\ received.currentStk = issued
      BY <1>8 DEF Accepted
    <3>3. /\ o.out = {Ren(issued, received.currentCtrNonce)}
          /\ o.group.currentStk = issued + 1
          /\ o.group.previousStk = issued
      BY <1>0, <3>1, <3>2, RenewEffect
    <3>4. \A x \in o.out : x.pty # "RES"
      BY <3>3 DEF Ren
    <3> QED BY <1>0, <1>2, <1>5, <2>2, <3>3, <3>4
  <2> QED BY <1>8, <2>1, <2>2
<1>9. CASE o.sdu = {m} /\ ServerCheckRxCtrnonce(exited, c, now)
           /\ stk = ServerChooseStk(exited, isPrevious)
  <2>1. Accepted(stk, c, received)
    BY <1>3, <1>9, AcceptedAhead
  <2>2. received \in ServerGroupState
    BY <2>1 DEF Accepted
  <2>3. \/ o.out = {} /\ o.group = received
        \/ /\ ServerSessionIsExpired(received, now)
           /\ \E r \in ServerRenew(received, now, issued + 1) :
                 o.group = r.group /\ o.out = r.out
    <3> HIDE DEF received, m, exited, isPrevious
    <3>1. o.sdu # {}
      BY <1>9
    <3> QED BY <1>4, <3>1
  <2>4. ret'.sdu = {m}
    BY <1>5, <1>9
  <2> HIDE DEF received, m, exited, isPrevious
  <2> QED BY <1>3, <1>6, <1>8, <1>9, <2>1, <2>2, <2>3, <2>4
<1> HIDE DEF received, m, exited, isPrevious
<1> QED BY <1>4, <1>7, <1>9

\* A secured message built, if there is a receiver.
LEMMA BuildActs ==
    ASSUME TypeOK, group.currentStk = issued, BuildSecuredFd
    PROVE  /\ ret'.sdu = {} /\ known' = known /\ served' = served
           /\ issued' = Larger(issued, group'.currentStk)
           /\ ret'.out \subseteq {Sadfd(0, issued, group.currentCtrNonce)}
           /\ group'.currentStk = issued /\ group'.previousStk = group.previousStk
           /\ group'.currentRxLastMessageInstant = group.currentRxLastMessageInstant
           /\ group'.sessionStartInstant = group.sessionStartInstant
<1>1. PICK o \in ServerBuildSecuredFd(group) : Return(o) /\ UNCHANGED served
  BY DEF BuildSecuredFd
<1>2. /\ o.sdu = {}
      /\ o.group.currentStk = group.currentStk
      /\ o.group.previousStk = group.previousStk
      /\ o.group.sessionStartInstant = group.sessionStartInstant
      /\ o.group.currentRxLastMessageInstant = group.currentRxLastMessageInstant
      /\ o.out \subseteq {Sadfd(0, group.currentStk, group.currentCtrNonce)}
  BY BuildEffect DEF TypeOK
<1>3. \A x \in o.out : x.pty # "RES"
  BY <1>2 DEF Sadfd
<1> QED BY <1>1, <1>2, <1>3 DEF Return

\* A renewal forced: announced again, opened, or nothing.
LEMMA ForceActs ==
    ASSUME IoFaults = {}, Inv, ForceSessionRenewal
    PROVE  /\ ret'.sdu = {} /\ known' = known
           /\ \/ /\ ServerPhaseIsActive(group)
                 /\ ret'.out = {Ren(group.previousStk, group.previousCtrNonce)}
                 /\ group'.currentStk = issued /\ group'.previousStk = group.previousStk
                 /\ group'.currentRxLastMessageInstant = group.currentRxLastMessageInstant
                 /\ group'.sessionStartInstant = group.sessionStartInstant
                 /\ served' => served
              \/ /\ ~ServerPhaseIsActive(group) /\ ServerDidAnyClientAlreadyRequest(group)
                 /\ ret'.out = {Ren(issued, group.currentCtrNonce)}
                 /\ group'.currentStk = issued + 1 /\ group'.previousStk = issued
                 /\ ~served'
              \/ ret'.out = {} /\ group' = group /\ (served' => served)
<1>0. group \in ServerGroupState /\ now \in Timestamp /\ group.currentStk = issued
      /\ issued # issued + 1
  BY InvFacts
<1>1. PICK o \in ServerForceSessionRenewal(group, now, issued + 1) :
        Return(o) /\ served' = (served /\ o.group.currentStk = group.currentStk)
  BY DEF ForceSessionRenewal
<1>2. /\ group' = o.group /\ ret'.out = o.out /\ ret'.sdu = o.sdu
      /\ known' = known \cup {x.stk : x \in {y \in o.out : y.pty = "RES"}}
  BY <1>1 DEF Return
<1>3. CASE ServerPhaseIsActive(group) /\ o = ServerBuildMsgRenewal(group)
  <2>1. /\ o.out = {Ren(group.previousStk, group.previousCtrNonce)}
        /\ o.sdu = {}
        /\ o.group.currentStk = group.currentStk /\ o.group.previousStk = group.previousStk
        /\ o.group.sessionStartInstant = group.sessionStartInstant
        /\ o.group.currentRxLastMessageInstant = group.currentRxLastMessageInstant
    BY <1>0, <1>3, BuildMsgRenewalEffect
  <2>2. \A x \in o.out : x.pty # "RES"
    BY <2>1 DEF Ren
  <2> QED BY <1>0, <1>1, <1>2, <1>3, <2>1, <2>2
<1>4. CASE /\ ~ServerPhaseIsActive(group) /\ ServerDidAnyClientAlreadyRequest(group)
           /\ o \in ServerRenew(group, now, issued + 1)
  <2>1. /\ o.out = {Ren(issued, group.currentCtrNonce)} /\ o.sdu = {}
        /\ o.group.currentStk = issued + 1 /\ o.group.previousStk = issued
    BY <1>0, <1>4, RenewEffect
  <2>2. \A x \in o.out : x.pty # "RES"
    BY <2>1 DEF Ren
  <2> QED BY <1>0, <1>1, <1>2, <1>4, <2>1, <2>2
<1>5. CASE o.out = {} /\ o.sdu = {} /\ o.group = group
  BY <1>1, <1>2, <1>5
<1> QED BY <1>0, <1>3, <1>4, <1>5, ForceEffect

\* The other steps return nothing.
LEMMA OthersReturnNothing ==
    ASSUME Tick \/ Restart
    PROVE  ret'.out = {} /\ ret'.sdu = {}
BY DEF Tick, Restart, Return, Nothing, Outcome

----------------------------------------------------------------------------
(* Counter nonces *)

\* The counter nonces stay above every one used with their key, by the Server
\* or by a Client it heard: whatever the order of messages, RENs, ends of
\* phases, renewals and restarts (hzl_ServerCtrNonceIncrement..., and the two
\* assignments of the renewal phase).
THEOREM CtrnonceAheadCorrect ==
    ASSUME IoFaults = {}
    PROVE  Spec => []CtrnonceAhead
<1>1. Inv => CtrnonceAhead
  <2> SUFFICES ASSUME Inv PROVE CtrnonceAhead
    OBVIOUS
  <2>1. ASSUME NEW n \in Ctrnonce, NEW cs, Above(n, cs)
        PROVE  CtrnonceIsExpired(n) \/ n \notin cs
    BY <2>1 DEF Above, Ctrnonce
  <2> QED BY <2>1, InvFacts DEF CtrnonceAhead, ServerPhaseIsActive
<1> QED BY <1>1, InvCorrect, PTL

\* The messages a step builds have the counter nonce of a Session.
LEMMA BuiltHasOwnNonce ==
    ASSUME IoFaults = {}, Inv, Next, NEW m \in ret'.out, m.pty \in {"REN", "SADFD"}
    PROVE  \/ /\ m.stk = issued /\ m.ctrnonce \in Ctrnonce
              /\ m.ctrnonce >= group.currentCtrNonce
           \/ /\ ServerPhaseIsActive(group)
              /\ m.stk = group.previousStk /\ m.ctrnonce = group.previousCtrNonce
<1>0. group.currentCtrNonce \in Ctrnonce /\ group.currentCtrNonce >= group.currentCtrNonce
  BY InvFacts DEF Ctrnonce
<1>1. CASE ReceiveSecuredFd
  <2>1. PICK r \in ServerGroupState :
          /\ r.currentCtrNonce >= group.currentCtrNonce
          /\ m = Ren(issued, r.currentCtrNonce)
    BY <1>1, SecuredFdActs DEF Accepted
  <2> QED BY <2>1 DEF Ren, ServerGroupState
<1>2. CASE BuildSecuredFd
  <2>1. m = Sadfd(0, issued, group.currentCtrNonce)
    BY <1>2, InvFacts, BuildActs DEF Inv
  <2> QED BY <1>0, <2>1 DEF Sadfd
<1>3. CASE ForceSessionRenewal
  <2>1. \/ ServerPhaseIsActive(group) /\ m = Ren(group.previousStk, group.previousCtrNonce)
        \/ m = Ren(issued, group.currentCtrNonce)
    BY <1>3, ForceActs
  <2> QED BY <1>0, <2>1 DEF Ren
<1> QED BY <1>1, <1>2, <1>3, InvFacts, RequestActs, OthersReturnNothing DEF Next, Inv

\* No counter nonce is used twice with a key until the last one is reached.
THEOREM NeverReusesCtrnonceCorrect ==
    ASSUME IoFaults = {}
    PROVE  Spec => NeverReusesCtrnonce
<1>1. Inv /\ [Next]_vars =>
        [\A m \in ret'.out : m.pty \in {"REN", "SADFD"} /\ m.stk # NoStk =>
            \/ CtrnonceIsExpired(m.ctrnonce)
            \/ m.ctrnonce \notin used[m.stk]]_vars
  <2> SUFFICES ASSUME Inv, Next, NEW m \in ret'.out, m.pty \in {"REN", "SADFD"},
                      m.ctrnonce \in used[m.stk]
               PROVE  CtrnonceIsExpired(m.ctrnonce)
    OBVIOUS
  <2>1. CASE /\ m.stk = issued /\ m.ctrnonce \in Ctrnonce
             /\ m.ctrnonce >= group.currentCtrNonce
    <3>1. m.ctrnonce < group.currentCtrNonce \/ CtrnonceIsExpired(group.currentCtrNonce)
      BY <2>1, InvFacts DEF Above
    <3> QED BY <2>1, <3>1, InvFacts DEF CtrnonceIsExpired, Ctrnonce
  <2>2. CASE /\ ServerPhaseIsActive(group)
             /\ m.stk = group.previousStk /\ m.ctrnonce = group.previousCtrNonce
    <3>1. m.ctrnonce < m.ctrnonce \/ CtrnonceIsExpired(m.ctrnonce)
      BY <2>2, InvFacts DEF Above
    <3> QED BY <2>2, <3>1, InvFacts DEF Ctrnonce
  <2> QED BY <2>1, <2>2, BuiltHasOwnNonce
<1> QED BY <1>1, InvCorrect, PTL DEF Spec, NeverReusesCtrnonce

\* A used counter nonce that passes the check was tolerated: what is above
\* all used ones is at most the tolerance away, so there is a tolerance.
LEMMA ToleratedWhenUsed ==
    ASSUME NEW n \in Ctrnonce, NEW c \in Ctrnonce, NEW cs \in SUBSET Ctrnonce, Above(n, cs),
           NEW rx \in Timestamp, now \in Timestamp,
           c \in cs, ~CtrnonceIsExpired(c), c >= n - CtrDelay(rx, now)
    PROVE  /\ TimeDelta(rx, now) < MaxSilenceIntervalMillis
           /\ \A d \in cs : d - c <= MaxCtrnonceDelayMsgs
<1> DEFINE delay == CtrDelay(rx, now)
<1>1. /\ delay \in 0 .. MaxCtrnonceDelayMsgs
      /\ delay > 0 => TimeDelta(rx, now) < MaxSilenceIntervalMillis
  BY CtrDelayBounded
<1> HIDE DEF delay
<1>2. c < n
  BY DEF Above, CtrnonceIsExpired, Ctrnonce
<1>3. delay > 0
  BY <1>1, <1>2, MaxCtrnonceDelayMsgsAssumption DEF delay, Ctrnonce
<1>4. ASSUME NEW d \in cs PROVE d - c <= MaxCtrnonceDelayMsgs
  <2>1. d <= n /\ d \in Ctrnonce
    BY DEF Above, CtrnonceIsExpired, Ctrnonce
  <2>2. n - c <= delay
    BY <1>1, MaxCtrnonceDelayMsgsAssumption DEF delay, Ctrnonce
  <2> QED BY <1>1, <2>1, <2>2, MaxCtrnonceDelayMsgsAssumption DEF Ctrnonce
<1> QED BY <1>1, <1>3, <1>4

\* Data is delivered by the reception of secured messages only.
LEMMA DataIsReceived ==
    ASSUME IoFaults = {}, Inv, Next, NEW m \in ret'.sdu
    PROVE  /\ m.ctrnonce \in Ctrnonce
           /\ m.stk \in known
           /\ \E received \in ServerGroupState : Accepted(m.stk, m.ctrnonce, received)
<1>1. ReceiveSecuredFd
  BY InvFacts, RequestActs, BuildActs, ForceActs, OthersReturnNothing DEF Next, Inv
<1> QED BY <1>1, SecuredFdActs

\* Late and repeated messages, of either Session, pass only while and as far
\* as they are tolerated (hzl_ServerCheckRxCtrnonce, hzl_CommonCtrDelay).
THEOREM OldOnlyWhenRecentCorrect ==
    ASSUME IoFaults = {}
    PROVE  Spec => OldOnlyWhenRecent
<1>1. Inv /\ [Next]_vars =>
        [\A m \in ret'.sdu : m.ctrnonce \in used[m.stk] =>
            /\ TimeDelta(LastRxInstant(m.stk), now) < MaxSilenceIntervalMillis
            /\ \A c \in used[m.stk] : c - m.ctrnonce <= MaxCtrnonceDelayMsgs]_vars
  <2> SUFFICES ASSUME Inv, Next, NEW m \in ret'.sdu, m.ctrnonce \in used[m.stk]
               PROVE  /\ TimeDelta(LastRxInstant(m.stk), now) < MaxSilenceIntervalMillis
                      /\ \A c \in used[m.stk] : c - m.ctrnonce <= MaxCtrnonceDelayMsgs
    OBVIOUS
  <2>1. /\ m.ctrnonce \in Ctrnonce
        /\ \E received \in ServerGroupState : Accepted(m.stk, m.ctrnonce, received)
    BY DataIsReceived
  <2>2. /\ ~CtrnonceIsExpired(m.ctrnonce)
        /\ \/ /\ m.stk = issued
              /\ m.ctrnonce >= group.currentCtrNonce
                               - CtrDelay(group.currentRxLastMessageInstant, now)
           \/ /\ m.stk = group.previousStk /\ ServerPhaseIsActive(group)
              /\ m.ctrnonce >= group.previousCtrNonce
                               - CtrDelay(group.previousRxLastMessageInstant, now)
    BY <2>1 DEF Accepted
  <2>3. /\ group.currentRxLastMessageInstant \in Timestamp
        /\ group.previousRxLastMessageInstant \in Timestamp /\ now \in Timestamp
    BY InvFacts DEF ServerGroupState
  <2>4. CASE /\ m.stk = issued
             /\ m.ctrnonce >= group.currentCtrNonce
                              - CtrDelay(group.currentRxLastMessageInstant, now)
    <3>1. LastRxInstant(m.stk) = group.currentRxLastMessageInstant
      BY <2>4, InvFacts DEF LastRxInstant
    <3>2. /\ used[issued] \in SUBSET Ctrnonce /\ Above(group.currentCtrNonce, used[issued])
          /\ group.currentCtrNonce \in Ctrnonce
      BY InvFacts
    <3> QED BY <2>1, <2>2, <2>3, <2>4, <3>1, <3>2, ToleratedWhenUsed
  <2>5. CASE /\ m.stk = group.previousStk /\ ServerPhaseIsActive(group)
             /\ m.ctrnonce >= group.previousCtrNonce
                              - CtrDelay(group.previousRxLastMessageInstant, now)
    <3>1. LastRxInstant(m.stk) = group.previousRxLastMessageInstant
      BY <2>5 DEF LastRxInstant
    <3>2. group.previousStk \in 1 .. MaxStk
      BY <2>5, InvFacts DEF ServerPhaseIsActive, NoStk, Stk
    <3>3. /\ used[m.stk] \in SUBSET Ctrnonce /\ Above(group.previousCtrNonce, used[m.stk])
          /\ group.previousCtrNonce \in Ctrnonce
      BY <2>5, <3>2, InvFacts
    <3> QED BY <2>1, <2>2, <2>3, <2>5, <3>1, <3>3, ToleratedWhenUsed
  <2> QED BY <2>2, <2>4, <2>5
<1> QED BY <1>1, InvCorrect, PTL DEF Spec, OldOnlyWhenRecent

----------------------------------------------------------------------------
(* Renewals *)

\* A Session that is expired after a message under the previous key would be
\* one whose phase is over: the limits leave no room for that.
LEMMA ExpiredIsOver ==
    ASSUME CtrNonceUpperLimit >= 2 * MaxCtrnonceDelayMsgs, TypeOK,
           NEW received \in ServerGroupState,
           received.sessionStartInstant = group.sessionStartInstant,
           ServerSessionIsExpired(received, now)
    PROVE  \/ ServerPhaseIsOver(group, now)
           \/ received.currentCtrNonce >= 2 * MaxCtrnonceDelayMsgs
<1> USE MaxCtrnonceDelayMsgsAssumption, CtrNonceUpperLimitAssumption, SessionDurationAssumption,
        DelayBetweenRenAssumption
<1>1. CASE received.currentCtrNonce >= CtrNonceUpperLimit
  BY <1>1 DEF ServerGroupState, Ctrnonce
<1>2. CASE TimeDelta(group.sessionStartInstant, now) > SessionDurationMillis
  <2>1. TimeDelta(group.sessionStartInstant, now) \in Nat
    BY TimeDeltaType DEF TypeOK, ServerGroupState
  <2>2. SessionDurationMillis >= 6 * DelayBetweenRenNotificationsMillis
    OBVIOUS
  <2> QED BY <1>2, <2>1, <2>2 DEF ServerPhaseIsOver
<1> QED BY <1>1, <1>2 DEF ServerSessionIsExpired

\* No renewal starts within one, if the limit of the counter nonce leaves the
\* phase its room (hzl_ServerInit does not check that it does).
THEOREM NoRenewalWithinRenewalCorrect ==
    ASSUME IoFaults = {}, CtrNonceUpperLimit >= 2 * MaxCtrnonceDelayMsgs
    PROVE  Spec => NoRenewalWithinRenewal
<1>1. Inv /\ [Next]_vars =>
        [\A m \in ret'.out : m.pty = "REN" /\ m.stk = group.currentStk =>
            \/ ~ServerPhaseIsActive(group)
            \/ ServerPhaseIsOver(group, now)
            \/ \E d \in ret'.sdu : /\ d.stk = group.currentStk
                                   /\ Advanced(group.currentCtrNonce, d.ctrnonce)
                                        >= 2 * MaxCtrnonceDelayMsgs]_vars
  <2> SUFFICES ASSUME Inv, Next, NEW m \in ret'.out, m.pty = "REN", m.stk = group.currentStk,
                      ServerPhaseIsActive(group), ~ServerPhaseIsOver(group, now)
               PROVE  \E d \in ret'.sdu : /\ d.stk = group.currentStk
                                          /\ Advanced(group.currentCtrNonce, d.ctrnonce)
                                               >= 2 * MaxCtrnonceDelayMsgs
    OBVIOUS
  <2>1. CASE ReceiveSecuredFd
    <3>1. PICK d \in ret'.sdu, r \in ServerGroupState :
            Accepted(d.stk, d.ctrnonce, r) /\ ServerSessionIsExpired(r, now)
      BY <2>1, SecuredFdActs
    <3>2. r.currentCtrNonce >= 2 * MaxCtrnonceDelayMsgs
      BY <3>1, ExpiredIsOver DEF Accepted, Inv
    <3>3. group.currentCtrNonce < 2 * MaxCtrnonceDelayMsgs
      BY InvFacts, MaxCtrnonceDelayMsgsAssumption DEF ServerPhaseIsOver, Ctrnonce
    <3>4. r.currentCtrNonce # group.currentCtrNonce
      BY <3>2, <3>3, InvFacts, MaxCtrnonceDelayMsgsAssumption DEF Ctrnonce
    <3>5. d.stk = issued /\ r.currentCtrNonce = Advanced(group.currentCtrNonce, d.ctrnonce)
      BY <3>1, <3>4 DEF Accepted
    <3> QED BY <3>2, <3>5, InvFacts
  <2>2. CASE BuildSecuredFd
    BY <2>2, InvFacts, BuildActs DEF Inv, Sadfd
  <2>3. CASE ForceSessionRenewal
    <3>1. m = Ren(group.previousStk, group.previousCtrNonce)
      BY <2>3, ForceActs
    <3> QED BY <3>1, InvFacts DEF Ren
  <2>4. CASE ReceiveRequest
    BY <2>4, InvFacts, RequestActs DEF Inv
  <2> QED BY <2>1, <2>2, <2>3, <2>4, OthersReturnNothing DEF Next
<1> QED BY <1>1, InvCorrect, PTL DEF Spec, NoRenewalWithinRenewal

----------------------------------------------------------------------------
(* Phases and receivers, whatever the clock does *)

\* What the reception of data under key k leaves of the state: the data is of
\* the current Session, which then has a receiver, or of the previous one,
\* whose phase was not over.
Delivered(k, received) ==
    /\ received \in ServerGroupState
    /\ received.currentStk = group.currentStk
    /\ received.previousStk \in {group.previousStk, NoStk}
    /\ received.sessionStartInstant = group.sessionStartInstant
    /\ received.currentCtrNonce \in Ctrnonce
    /\ \/ /\ k = group.currentStk
          /\ ServerDidAnyClientAlreadyRequest(received)
       \/ /\ k = group.previousStk /\ ServerPhaseIsActive(group)
          /\ ~ServerPhaseIsOver(group, now)
          /\ received.currentCtrNonce = group.currentCtrNonce
          /\ received.currentRxLastMessageInstant = group.currentRxLastMessageInstant

\* Whatever its counter nonce: the phase was closed first if it was over.
LEMMA AcceptedIsDelivered ==
    ASSUME TypeOK, NEW c \in Ctrnonce, NEW k \in Stk, NEW exited, NEW isPrevious, NEW received,
           exited = ServerPhaseExitIfNeeded(group, now),
           isPrevious = ServerIsPreviousSession(exited, c),
           received = ServerUpdateCtrnonceAndRxTimestamp(exited, c, now, isPrevious),
           k = ServerChooseStk(exited, isPrevious)
    PROVE  Delivered(k, received)
<1>0. group \in ServerGroupState /\ now \in Timestamp
  BY DEF TypeOK
<1>1. /\ exited \in ServerGroupState
      /\ exited.currentStk = group.currentStk
      /\ exited.currentCtrNonce = group.currentCtrNonce
      /\ exited.sessionStartInstant = group.sessionStartInstant
      /\ exited.currentRxLastMessageInstant = group.currentRxLastMessageInstant
      /\ \/ exited.previousStk = NoStk
         \/ exited = group /\ ServerPhaseIsActive(group) /\ ~ServerPhaseIsOver(group, now)
  BY <1>0, ExitEffect
<1>2. isPrevious \in BOOLEAN
  BY DEF ServerIsPreviousSession
<1>3. /\ received \in ServerGroupState
      /\ received.currentStk = exited.currentStk
      /\ received.previousStk = exited.previousStk
      /\ received.sessionStartInstant = exited.sessionStartInstant
      /\ \/ /\ isPrevious
            /\ received.currentCtrNonce = exited.currentCtrNonce
            /\ received.currentRxLastMessageInstant = exited.currentRxLastMessageInstant
         \/ ~isPrevious /\ ServerDidAnyClientAlreadyRequest(received)
  BY <1>0, <1>1, <1>2, ReceivedEffect
<1>4. received.currentCtrNonce \in Ctrnonce
  BY <1>3 DEF ServerGroupState
<1>5. CASE ~isPrevious
  <2>1. k = group.currentStk
    BY <1>1, <1>5 DEF ServerChooseStk
  <2> QED BY <1>1, <1>3, <1>4, <1>5, <2>1 DEF Delivered
<1>6. CASE isPrevious
  <2>1. exited.previousStk # NoStk /\ k = exited.previousStk
    BY <1>6 DEF ServerIsPreviousSession, ServerPhaseIsActive, ServerChooseStk
  <2>2. exited = group /\ ServerPhaseIsActive(group) /\ ~ServerPhaseIsOver(group, now)
    BY <1>1, <2>1
  <2> QED BY <1>3, <1>4, <1>6, <2>1, <2>2 DEF Delivered
<1> QED BY <1>2, <1>5, <1>6

\* The reception of a secured message, refused or delivered; in the end a
\* renewal may have been tried.
SecuredFdOutcome(sid, k, c, o) ==
    \/ /\ o.out = {} /\ o.sdu = {}
       /\ o.group.currentStk = group.currentStk
       /\ o.group.previousStk \in {group.previousStk, NoStk}
       /\ o.group.currentRxLastMessageInstant = group.currentRxLastMessageInstant
       /\ o.group.sessionStartInstant = group.sessionStartInstant
    \/ \E received \in ServerGroupState :
          /\ o.sdu = {Sadfd(sid, k, c)}
          /\ Delivered(k, received)
          /\ \/ o.out = {} /\ o.group = received
             \/ /\ ServerSessionIsExpired(received, now)
                /\ \E r \in ServerRenew(received, now, issued + 1) :
                      o.group = r.group /\ o.out = r.out

LEMMA SecuredFdDelivers ==
    ASSUME TypeOK, NEW intact \in BOOLEAN, NEW sid \in Sid \ {0}, NEW k \in Stk, NEW c \in Ctrnonce,
           NEW o \in ServerProcessReceivedSecuredFd(
                        group, Sadfd(sid, k, c), intact, now, issued + 1)
    PROVE  SecuredFdOutcome(sid, k, c, o)
<1> DEFINE exited == ServerPhaseExitIfNeeded(group, now)
           isPrevious == ServerIsPreviousSession(exited, c)
           received == ServerUpdateCtrnonceAndRxTimestamp(exited, c, now, isPrevious)
<1>0. group \in ServerGroupState /\ now \in Timestamp
  BY DEF TypeOK
<1>1. SecuredFdCases(group, sid, k, c, now, issued + 1, o)
  BY <1>0, SecuredFdEffect
<1>2. \/ o.out = {} /\ o.sdu = {} /\ o.group \in {group, exited}
      \/ /\ o.sdu = {Sadfd(sid, k, c)}
         /\ k = ServerChooseStk(exited, isPrevious)
         /\ \/ o.out = {} /\ o.group = received
            \/ /\ ServerSessionIsExpired(received, now)
               /\ \E r \in ServerRenew(received, now, issued + 1) :
                     o.group = r.group /\ o.out = r.out
  BY <1>1 DEF SecuredFdCases
<1>3. /\ exited.currentStk = group.currentStk
      /\ exited.previousStk \in {group.previousStk, NoStk}
      /\ exited.currentRxLastMessageInstant = group.currentRxLastMessageInstant
      /\ exited.sessionStartInstant = group.sessionStartInstant
  BY <1>0, ExitEffect
<1>4. k = ServerChooseStk(exited, isPrevious) => Delivered(k, received)
  BY AcceptedIsDelivered
<1> HIDE DEF exited, isPrevious, received
<1>5. CASE o.out = {} /\ o.sdu = {} /\ o.group \in {group, exited}
  BY <1>3, <1>5 DEF SecuredFdOutcome
<1>6. CASE /\ o.sdu = {Sadfd(sid, k, c)}
           /\ k = ServerChooseStk(exited, isPrevious)
           /\ \/ o.out = {} /\ o.group = received
              \/ /\ ServerSessionIsExpired(received, now)
                 /\ \E r \in ServerRenew(received, now, issued + 1) :
                       o.group = r.group /\ o.out = r.out
  <2>1. Delivered(k, received) /\ received \in ServerGroupState
    BY <1>4, <1>6 DEF Delivered
  <2> QED BY <1>6, <2>1 DEF SecuredFdOutcome
<1> QED BY <1>2, <1>5, <1>6

\* Data is delivered by the reception of secured messages only.
LEMMA DataIsDelivered ==
    ASSUME TypeOK, Next, NEW m \in ret'.sdu
    PROVE  \E received \in ServerGroupState : Delivered(m.stk, received)
<1>0. group \in ServerGroupState /\ now \in Timestamp /\ known \subseteq Stk
  BY DEF TypeOK
<1>1. CASE Tick \/ Restart
  BY <1>1, OthersReturnNothing
<1>2. CASE ReceiveRequest
  <2>1. PICK sid \in Sid \ {0}, reqnonce \in Nonces, intact \in BOOLEAN :
          \E o \in ServerProcessReceivedRequest(group, Req(sid, reqnonce), intact, now) : Return(o)
    BY <1>2 DEF ReceiveRequest
  <2>2. PICK o \in ServerProcessReceivedRequest(group, Req(sid, reqnonce), intact, now) : Return(o)
    BY <2>1
  <2>3. o.sdu = {}
    BY <1>0, RequestType
  <2> QED BY <2>2, <2>3 DEF Return
<1>3. CASE ReceiveSecuredFd
  <2>1. PICK sid \in Sid \ {0}, stk \in known \ {NoStk}, c \in Ctrnonce, intact \in BOOLEAN :
          \E o \in ServerProcessReceivedSecuredFd(
                      group, Sadfd(sid, stk, c), intact, now, issued + 1) : Return(o)
    BY <1>3 DEF ReceiveSecuredFd
  <2>2. PICK o \in ServerProcessReceivedSecuredFd(
                      group, Sadfd(sid, stk, c), intact, now, issued + 1) : Return(o)
    BY <2>1
  <2>3. SecuredFdOutcome(sid, stk, c, o)
    BY <1>0, SecuredFdDelivers
  <2>4. ret'.sdu = o.sdu
    BY <2>2 DEF Return
  <2>5. PICK received \in ServerGroupState :
          o.sdu = {Sadfd(sid, stk, c)} /\ Delivered(stk, received)
    BY <2>3, <2>4 DEF SecuredFdOutcome
  <2>6. m.stk = stk
    BY <2>4, <2>5 DEF Sadfd
  <2> QED BY <2>5, <2>6
<1>4. CASE BuildSecuredFd
  <2>1. PICK o \in ServerBuildSecuredFd(group) : Return(o)
    BY <1>4 DEF BuildSecuredFd
  <2>2. o.sdu = {}
    BY <1>0, BuildSecuredFdType
  <2> QED BY <2>1, <2>2 DEF Return
<1>5. CASE ForceSessionRenewal
  <2>1. PICK o \in ServerForceSessionRenewal(group, now, issued + 1) : Return(o)
    BY <1>5 DEF ForceSessionRenewal
  <2>2. o.sdu = {}
    BY <1>0, ForceEffect, BuildMsgRenewalType, RenewType
  <2> QED BY <2>1, <2>2 DEF Return
<1> QED BY <1>1, <1>2, <1>3, <1>4, <1>5 DEF Next

\* Data under the previous key is delivered within the phase only, whatever
\* fails: the phase is closed before the message is looked at.
THEOREM PreviousStkOnlyInPhaseCorrect == Spec => PreviousStkOnlyInPhase
<1>1. TypeOK /\ [Next]_vars =>
        [\A m \in ret'.sdu : m.stk # group.currentStk =>
            /\ m.stk = group.previousStk
            /\ ~ServerPhaseIsOver(group, now)]_vars
  <2> SUFFICES ASSUME TypeOK, Next, NEW m \in ret'.sdu, m.stk # group.currentStk
               PROVE  m.stk = group.previousStk /\ ~ServerPhaseIsOver(group, now)
    OBVIOUS
  <2> QED BY DataIsDelivered DEF Delivered
<1> QED BY <1>1, TypeCorrect, PTL DEF Spec, PreviousStkOnlyInPhase

\* With a working generator a renewal is complete, or undone by the clock:
\* then the key, and the two instants, are those of before, and the key is the
\* previous one too.
LEMMA RenewedOrUndone ==
    ASSUME "trng" \notin IoFaults, NEW g \in ServerGroupState, NEW t \in Timestamp, NEW fresh,
           NEW o \in ServerRenew(g, t, fresh)
    PROVE  /\ o.sdu = {}
           /\ o.group.previousStk = g.currentStk
           /\ \/ /\ o.out = {Ren(g.currentStk, g.currentCtrNonce)}
                 /\ o.group.currentStk = fresh
              \/ /\ o.out = {}
                 /\ o.group.currentStk = g.currentStk
                 /\ o.group.currentRxLastMessageInstant = g.currentRxLastMessageInstant
                 /\ o.group.sessionStartInstant = g.sessionStartInstant
<1> DEFINE backup  == ServerBackedUp(g)
           started == [backup EXCEPT !.sessionStartInstant = t,
                                     !.currentRxLastMessageInstant = t]
<1>1. PICK e \in ServerPhaseEnter(g, t, fresh) :
        o = IF e.err = "OK" THEN ServerBuildMsgRenewal(e.group) ELSE e
  BY DEF ServerRenew
<1>2. /\ backup \in ServerGroupState
      /\ backup.previousStk = g.currentStk
      /\ backup.currentStk = g.currentStk
      /\ backup.previousCtrNonce = g.currentCtrNonce
      /\ backup.currentRxLastMessageInstant = g.currentRxLastMessageInstant
      /\ backup.sessionStartInstant = g.sessionStartInstant
  BY DEF ServerBackedUp, ServerGroupState
<1> HIDE DEF backup
<1>3. /\ started.previousStk = g.currentStk /\ started \in ServerGroupState
      /\ started.previousCtrNonce = g.currentCtrNonce
  BY <1>2 DEF ServerGroupState
<1>4. \/ e = Outcome("FAILED", backup, {}, {})
      \/ \E draw \in NonZeroTrng(g.currentStk, fresh) :
            e = Outcome(IF draw.ok THEN "OK" ELSE "FAILED",
                        [started EXCEPT !.currentStk = draw.stk,
                                        !.currentCtrNonce = IF draw.ok THEN 0 ELSE @],
                        {}, {})
  BY DEF ServerPhaseEnter, backup
<1> HIDE DEF started
<1>5. CASE e = Outcome("FAILED", backup, {}, {})
  <2>1. o = e
    BY <1>1, <1>5 DEF Outcome
  <2> QED BY <1>2, <1>5, <2>1 DEF Outcome
<1>6. CASE \E draw \in NonZeroTrng(g.currentStk, fresh) :
              e = Outcome(IF draw.ok THEN "OK" ELSE "FAILED",
                          [started EXCEPT !.currentStk = draw.stk,
                                          !.currentCtrNonce = IF draw.ok THEN 0 ELSE @],
                          {}, {})
  <2>1. PICK draw \in NonZeroTrng(g.currentStk, fresh) :
              e = Outcome(IF draw.ok THEN "OK" ELSE "FAILED",
                          [started EXCEPT !.currentStk = draw.stk,
                                          !.currentCtrNonce = IF draw.ok THEN 0 ELSE @],
                          {}, {})
    BY <1>6
  <2>2. draw.ok /\ draw.stk = fresh /\ fresh \in Stk
    BY DEF NonZeroTrng
  <2>3. /\ e.err = "OK"
        /\ e.group = [started EXCEPT !.currentStk = fresh, !.currentCtrNonce = 0]
    BY <2>1, <2>2 DEF Outcome
  <2>4. /\ e.group.currentStk = fresh
        /\ e.group.previousStk = g.currentStk
        /\ e.group.previousCtrNonce = g.currentCtrNonce
        /\ e.group \in ServerGroupState
    BY <1>3, <2>2, <2>3, Zeros DEF ServerGroupState
  <2>5. o = ServerBuildMsgRenewal(e.group)
    BY <1>1, <2>3
  <2>6. /\ o.out = {Ren(g.currentStk, g.currentCtrNonce)}
        /\ o.sdu = {}
        /\ o.group.currentStk = fresh /\ o.group.previousStk = g.currentStk
    BY <2>4, <2>5, BuildMsgRenewalEffect
  <2> QED BY <2>6
<1> QED BY <1>4, <1>5, <1>6

\* With a working generator: the current key is the last one drawn, none
\* later was handed out, and it was handed out only in answer to a Client.
Latest ==
    /\ TypeOK
    /\ group.currentStk = issued
    /\ \A k \in known : k <= issued
    /\ issued \in known => served

\* A secured message: refused, or delivered, and then perhaps followed by a
\* renewal, complete or undone by the clock.
LEMMA SecuredFdLeaves ==
    ASSUME "trng" \notin IoFaults, Latest, ReceiveSecuredFd
    PROVE  /\ known' = known
           /\ issued' = Larger(issued, group'.currentStk)
           /\ \/ /\ ret'.out = {} /\ (served' => served)
                 /\ group'.currentStk = issued
                 /\ group'.previousStk \in {group.previousStk, NoStk}
                 /\ group'.currentRxLastMessageInstant = group.currentRxLastMessageInstant
                 /\ group'.sessionStartInstant = group.sessionStartInstant
                 /\ served => served'
              \/ \E k \in known \ {NoStk}, received \in ServerGroupState :
                 /\ Delivered(k, received)
                 /\ \/ /\ ret'.out = {}
                       /\ group'.currentStk = issued
                       /\ group'.currentRxLastMessageInstant = received.currentRxLastMessageInstant
                       /\ group'.sessionStartInstant = received.sessionStartInstant
                       /\ \/ group'.previousStk \in {group.previousStk, NoStk}
                          \/ /\ group'.previousStk = issued
                             /\ ServerSessionIsExpired(received, now)
                       /\ served' = (served \/ k = issued)
                    \/ /\ ServerSessionIsExpired(received, now)
                       /\ ret'.out = {Ren(issued, received.currentCtrNonce)}
                       /\ group'.currentStk = issued + 1
                       /\ group'.previousStk = issued
                       /\ ~served'
<1>0. group \in ServerGroupState /\ now \in Timestamp /\ known \subseteq Stk
      /\ group.currentStk = issued /\ issued # issued + 1
  BY DEF Latest, TypeOK
<1>1. PICK sid \in Sid \ {0}, stk \in known \ {NoStk}, c \in Ctrnonce, intact \in BOOLEAN :
        \E o \in ServerProcessReceivedSecuredFd(
                    group, Sadfd(sid, stk, c), intact, now, issued + 1) :
            /\ Return(o)
            /\ served' = /\ served \/ (o.sdu # {} /\ stk = group.currentStk)
                         /\ o.group.currentStk = group.currentStk
  BY DEF ReceiveSecuredFd
<1>2. PICK o \in ServerProcessReceivedSecuredFd(
                    group, Sadfd(sid, stk, c), intact, now, issued + 1) :
            /\ Return(o)
            /\ served' = /\ served \/ (o.sdu # {} /\ stk = group.currentStk)
                         /\ o.group.currentStk = group.currentStk
  BY <1>1
<1>3. SecuredFdOutcome(sid, stk, c, o)
  BY <1>0, SecuredFdDelivers DEF Latest
<1>4. /\ group' = o.group /\ ret'.out = o.out
      /\ issued' = Larger(issued, group'.currentStk)
      /\ known' = known \cup {x.stk : x \in {y \in o.out : y.pty = "RES"}}
  BY <1>2 DEF Return
<1>5. served \in BOOLEAN
  BY DEF Latest, TypeOK
<1>6. CASE /\ o.out = {} /\ o.sdu = {}
           /\ o.group.currentStk = group.currentStk
           /\ o.group.previousStk \in {group.previousStk, NoStk}
           /\ o.group.currentRxLastMessageInstant = group.currentRxLastMessageInstant
           /\ o.group.sessionStartInstant = group.sessionStartInstant
  BY <1>0, <1>2, <1>4, <1>6
<1>7. ASSUME NEW received \in ServerGroupState,
             o.sdu = {Sadfd(sid, stk, c)}, Delivered(stk, received),
             \/ o.out = {} /\ o.group = received
             \/ /\ ServerSessionIsExpired(received, now)
                /\ \E r \in ServerRenew(received, now, issued + 1) :
                      o.group = r.group /\ o.out = r.out
      PROVE  /\ known' = known
             /\ \/ /\ ret'.out = {}
                   /\ group'.currentStk = issued
                   /\ group'.currentRxLastMessageInstant = received.currentRxLastMessageInstant
                   /\ group'.sessionStartInstant = received.sessionStartInstant
                   /\ \/ group'.previousStk \in {group.previousStk, NoStk}
                      \/ /\ group'.previousStk = issued
                         /\ ServerSessionIsExpired(received, now)
                   /\ served' = (served \/ stk = issued)
                \/ /\ ServerSessionIsExpired(received, now)
                   /\ ret'.out = {Ren(issued, received.currentCtrNonce)}
                   /\ group'.currentStk = issued + 1
                   /\ group'.previousStk = issued
                   /\ ~served'
  <2>1. /\ received.currentStk = issued
        /\ received.previousStk \in {group.previousStk, NoStk}
    BY <1>0, <1>7 DEF Delivered
  <2>2. o.sdu # {}
    BY <1>7
  <2>3. CASE o.out = {} /\ o.group = received
    BY <1>0, <1>2, <1>4, <1>5, <2>1, <2>2, <2>3
  <2>4. CASE /\ ServerSessionIsExpired(received, now)
             /\ \E r \in ServerRenew(received, now, issued + 1) :
                   o.group = r.group /\ o.out = r.out
    <3>1. PICK r \in ServerRenew(received, now, issued + 1) : o.group = r.group /\ o.out = r.out
      BY <2>4
    <3>2. /\ r.group.previousStk = issued
          /\ \/ /\ r.out = {Ren(issued, received.currentCtrNonce)}
                /\ r.group.currentStk = issued + 1
             \/ /\ r.out = {}
                /\ r.group.currentStk = issued
                /\ r.group.currentRxLastMessageInstant = received.currentRxLastMessageInstant
                /\ r.group.sessionStartInstant = received.sessionStartInstant
      BY <1>0, <1>7, <2>1, RenewedOrUndone
    <3>3. \A x \in o.out : x.pty # "RES"
      BY <3>1, <3>2 DEF Ren
    <3>4. known' = known
      BY <1>4, <3>3
    <3> QED BY <1>0, <1>2, <1>4, <1>5, <2>2, <2>4, <3>1, <3>2, <3>4
  <2> QED BY <1>7, <2>3, <2>4
<1>8. stk \in known \ {NoStk}
  OBVIOUS
<1> QED BY <1>3, <1>4, <1>6, <1>7, <1>8 DEF SecuredFdOutcome

\* A renewal forced: announced again, opened, undone by the clock, or nothing.
LEMMA ForceLeaves ==
    ASSUME "trng" \notin IoFaults, Latest, ForceSessionRenewal
    PROVE  /\ known' = known
           /\ issued' = Larger(issued, group'.currentStk)
           /\ \/ /\ group'.currentStk = issued
                 /\ group'.currentRxLastMessageInstant = group.currentRxLastMessageInstant
                 /\ group'.sessionStartInstant = group.sessionStartInstant
                 /\ served' = served
                 /\ \/ group'.previousStk = group.previousStk
                    \/ group'.previousStk = issued /\ ServerDidAnyClientAlreadyRequest(group)
                 /\ \/ ret'.out = {}
                    \/ /\ ServerPhaseIsActive(group)
                       /\ ret'.out = {Ren(group.previousStk, group.previousCtrNonce)}
              \/ /\ ServerDidAnyClientAlreadyRequest(group)
                 /\ ret'.out = {Ren(issued, group.currentCtrNonce)}
                 /\ group'.currentStk = issued + 1 /\ group'.previousStk = issued
                 /\ ~served'
<1>0. group \in ServerGroupState /\ now \in Timestamp /\ group.currentStk = issued
      /\ issued # issued + 1 /\ served \in BOOLEAN
  BY DEF Latest, TypeOK
<1>1. PICK o \in ServerForceSessionRenewal(group, now, issued + 1) :
        Return(o) /\ served' = (served /\ o.group.currentStk = group.currentStk)
  BY DEF ForceSessionRenewal
<1>2. /\ group' = o.group /\ ret'.out = o.out
      /\ issued' = Larger(issued, group'.currentStk)
      /\ known' = known \cup {x.stk : x \in {y \in o.out : y.pty = "RES"}}
  BY <1>1 DEF Return
<1>3. CASE ServerPhaseIsActive(group) /\ o = ServerBuildMsgRenewal(group)
  <2>1. /\ o.out = {Ren(group.previousStk, group.previousCtrNonce)}
        /\ o.group.currentStk = group.currentStk /\ o.group.previousStk = group.previousStk
        /\ o.group.sessionStartInstant = group.sessionStartInstant
        /\ o.group.currentRxLastMessageInstant = group.currentRxLastMessageInstant
    BY <1>0, <1>3, BuildMsgRenewalEffect
  <2>2. \A x \in o.out : x.pty # "RES"
    BY <2>1 DEF Ren
  <2> QED BY <1>0, <1>1, <1>2, <1>3, <2>1, <2>2
<1>4. CASE /\ ServerDidAnyClientAlreadyRequest(group)
           /\ o \in ServerRenew(group, now, issued + 1)
  <2>1. /\ o.group.previousStk = issued
        /\ \/ /\ o.out = {Ren(issued, group.currentCtrNonce)}
              /\ o.group.currentStk = issued + 1
           \/ /\ o.out = {}
              /\ o.group.currentStk = issued
              /\ o.group.currentRxLastMessageInstant = group.currentRxLastMessageInstant
              /\ o.group.sessionStartInstant = group.sessionStartInstant
    BY <1>0, <1>4, RenewedOrUndone
  <2>2. \A x \in o.out : x.pty # "RES"
    BY <2>1 DEF Ren
  <2>3. known' = known
    BY <1>2, <2>2
  <2> QED BY <1>0, <1>1, <1>2, <1>4, <2>1, <2>3
<1>5. CASE o.out = {} /\ o.sdu = {} /\ o.group = group
  BY <1>0, <1>1, <1>2, <1>5
<1> QED BY <1>0, <1>3, <1>4, <1>5, ForceEffect

\* What a Request, a secured message, a renewal do keeps the keys in order.
LEMMA LatestStep ==
    ASSUME "trng" \notin IoFaults
    PROVE  Latest /\ [Next]_vars => Latest'
<1> SUFFICES ASSUME Latest, [Next]_vars
             PROVE  Latest'
  OBVIOUS
<1>0. /\ group.currentStk = issued /\ issued \in Nat /\ known \subseteq Nat
      /\ \A k \in known : k <= issued
      /\ issued \in known => served
      /\ served \in BOOLEAN
  BY DEF Latest, TypeOK, Stk
<1>1. TypeOK'
  BY TypeStep DEF Latest
<1>2. ASSUME issued' = issued, group'.currentStk = issued, known' \subseteq known \cup {issued},
             served => served', issued \in known' => served'
      PROVE  Latest'
  BY <1>0, <1>1, <1>2 DEF Latest
<1>3. ASSUME issued' = issued + 1, group'.currentStk = issued + 1, known' = known
      PROVE  Latest'
  BY <1>0, <1>1, <1>3 DEF Latest
<1>4. Larger(issued, issued) = issued /\ Larger(issued, issued + 1) = issued + 1
  BY <1>0 DEF Larger
<1>5. CASE Tick \/ UNCHANGED vars
  BY <1>0, <1>2, <1>5 DEF Tick, vars
<1>6. CASE Restart
  <2>1. /\ group'.currentStk = issued + 1
        /\ issued' = Larger(issued, issued + 1)
        /\ known' = known
    BY <1>6 DEF Restart, Return, Outcome, ServerStartedSession
  <2> QED BY <1>3, <1>4, <2>1
<1>7. CASE ReceiveRequest
  BY <1>0, <1>2, <1>4, <1>7, RequestActs DEF Latest
<1>8. CASE ReceiveSecuredFd
  <2>1. \/ /\ group'.currentStk = issued /\ (served => served')
        \/ group'.currentStk = issued + 1
    BY <1>0, <1>8, SecuredFdLeaves
  <2>2. known' = known /\ issued' = Larger(issued, group'.currentStk)
    BY <1>8, SecuredFdLeaves
  <2> QED BY <1>0, <1>2, <1>3, <1>4, <2>1, <2>2
<1>9. CASE BuildSecuredFd
  <2>1. /\ group'.currentStk = issued /\ known' = known /\ served' = served
        /\ issued' = Larger(issued, group'.currentStk)
    BY <1>9, BuildActs DEF Latest
  <2> QED BY <1>0, <1>2, <1>4, <2>1
<1>10. CASE ForceSessionRenewal
  <2>1. \/ group'.currentStk = issued /\ served' = served
        \/ group'.currentStk = issued + 1
    BY <1>10, ForceLeaves
  <2>2. known' = known /\ issued' = Larger(issued, group'.currentStk)
    BY <1>10, ForceLeaves
  <2> QED BY <1>0, <1>2, <1>3, <1>4, <2>1, <2>2
<1> QED BY <1>5, <1>6, <1>7, <1>8, <1>9, <1>10 DEF Next

\* The first key is nobody's yet.
LEMMA LatestInit == Init => Latest
BY TypeInit DEF Init, Latest, ServerStartedSession

LEMMA LatestCorrect ==
    ASSUME "trng" \notin IoFaults
    PROVE  Spec => []Latest
BY LatestInit, LatestStep, PTL DEF Spec

\* The Server does not forget its receiver: recording a reception always makes
\* the two instants differ, at the start of the Session and at the roll-around
\* too, and nothing makes them equal again but a new Session. A renewal undone
\* by the clock leaves two copies of one key, of which the messages may then be
\* taken for the previous Session's: they come from a Client that has the key,
\* which made itself heard before.
THEOREM ReceiverNotForgottenCorrect ==
    ASSUME "trng" \notin IoFaults
    PROVE  Spec => []ReceiverNotForgotten
<1>1. Init => ReceiverNotForgotten
  BY DEF Init, ReceiverNotForgotten
<1>2. Latest /\ ReceiverNotForgotten /\ [Next]_vars => ReceiverNotForgotten'
  <2> SUFFICES ASSUME Latest, ReceiverNotForgotten, [Next]_vars, served'
               PROVE  ServerDidAnyClientAlreadyRequest(group')
    BY DEF ReceiverNotForgotten
  <2>0. group.currentStk = issued /\ (issued \in known => served)
        /\ (served => ServerDidAnyClientAlreadyRequest(group))
    BY DEF Latest, ReceiverNotForgotten
  <2>1. CASE Tick \/ UNCHANGED vars
    BY <2>1 DEF Tick, vars, ReceiverNotForgotten
  <2>2. CASE Restart
    BY <2>2 DEF Restart
  <2>3. CASE ReceiveRequest
    BY <2>0, <2>3, RequestActs DEF Latest
  <2>4. CASE ReceiveSecuredFd
    <3>1. CASE /\ served
               /\ group'.currentRxLastMessageInstant = group.currentRxLastMessageInstant
               /\ group'.sessionStartInstant = group.sessionStartInstant
      BY <2>0, <3>1 DEF ServerDidAnyClientAlreadyRequest
    <3>2. ASSUME NEW k \in known, NEW received \in ServerGroupState, Delivered(k, received),
                 group'.currentRxLastMessageInstant = received.currentRxLastMessageInstant,
                 group'.sessionStartInstant = received.sessionStartInstant,
                 served \/ k = issued
          PROVE  ServerDidAnyClientAlreadyRequest(group')
      <4>1. served
        BY <2>0, <3>2
      <4>2. ServerDidAnyClientAlreadyRequest(received)
        BY <2>0, <3>2, <4>1 DEF Delivered, ServerDidAnyClientAlreadyRequest
      <4> QED BY <3>2, <4>2 DEF ServerDidAnyClientAlreadyRequest
    <3> QED BY <2>4, <3>1, <3>2, SecuredFdLeaves
  <2>5. CASE BuildSecuredFd
    BY <2>0, <2>5, BuildActs DEF Latest, ServerDidAnyClientAlreadyRequest
  <2>6. CASE ForceSessionRenewal
    BY <2>0, <2>6, ForceLeaves DEF ServerDidAnyClientAlreadyRequest
  <2> QED BY <2>1, <2>2, <2>3, <2>4, <2>5, <2>6 DEF Next
<1> QED BY <1>1, <1>2, LatestCorrect, PTL DEF Spec

\* A Session with a receiver had its key handed out, and so had the Session
\* before it, which was closed only because it had a receiver.
KeysKnown ==
    /\ served => group.currentStk \in known
    /\ ServerPhaseIsActive(group) => group.previousStk \in known

\* A Session is closed only if its key was handed out, so that the previous
\* Session's key always was.
LEMMA KeysKnownStep ==
    ASSUME "trng" \notin IoFaults, CtrNonceUpperLimit >= 2 * MaxCtrnonceDelayMsgs
    PROVE  Latest /\ ReceiverIsReal /\ KeysKnown /\ [Next]_vars => KeysKnown'
<1> SUFFICES ASSUME Latest, ReceiverIsReal, KeysKnown, [Next]_vars
             PROVE  KeysKnown'
  OBVIOUS
<1>0. /\ group.currentStk = issued
      /\ served => issued \in known
      /\ group.previousStk # NoStk => group.previousStk \in known
      /\ ServerDidAnyClientAlreadyRequest(group) => issued \in known
  BY DEF Latest, KeysKnown, ServerPhaseIsActive, ReceiverIsReal
<1>1. CASE Tick \/ UNCHANGED vars
  BY <1>1 DEF Tick, vars, KeysKnown
<1>2. CASE Restart
  BY <1>2 DEF Restart, Return, Outcome, KeysKnown, ServerStartedSession, ServerPhaseIsActive
<1>3. CASE ReceiveRequest
  <2>1. /\ group'.currentStk = issued /\ group'.previousStk = group.previousStk
        /\ known \subseteq known'
        /\ served' = served \/ issued \in known'
    BY <1>0, <1>3, RequestActs DEF Latest
  <2> QED BY <1>0, <2>1 DEF KeysKnown, ServerPhaseIsActive
<1>4. CASE ReceiveSecuredFd
  <2>0. known' = known
    BY <1>4, SecuredFdLeaves
  <2>1. CASE /\ served' => served
             /\ group'.currentStk = issued
             /\ group'.previousStk \in {group.previousStk, NoStk}
    BY <1>0, <2>0, <2>1 DEF KeysKnown, ServerPhaseIsActive
  <2>2. ASSUME NEW k \in known, NEW received \in ServerGroupState, Delivered(k, received),
               ServerSessionIsExpired(received, now)
        PROVE  issued \in known
    <3>1. CASE k = issued
      BY <3>1
    <3>2. CASE k # issued
      <4>1. /\ ~ServerPhaseIsOver(group, now)
            /\ received.sessionStartInstant = group.sessionStartInstant
            /\ received.currentCtrNonce = group.currentCtrNonce
        BY <1>0, <2>2, <3>2 DEF Delivered
      <4>2. received.currentCtrNonce >= 2 * MaxCtrnonceDelayMsgs
        BY <2>2, <4>1, ExpiredIsOver DEF Latest
      <4> QED BY <4>1, <4>2 DEF ServerPhaseIsOver
    <3> QED BY <3>1, <3>2
  <2>3. ASSUME NEW k \in known, NEW received \in ServerGroupState, Delivered(k, received),
               group'.currentStk = issued,
               \/ group'.previousStk \in {group.previousStk, NoStk}
               \/ group'.previousStk = issued /\ ServerSessionIsExpired(received, now),
               served' = (served \/ k = issued)
        PROVE  KeysKnown'
    BY <1>0, <2>0, <2>2, <2>3 DEF KeysKnown, ServerPhaseIsActive
  <2>4. ASSUME NEW k \in known, NEW received \in ServerGroupState, Delivered(k, received),
               ServerSessionIsExpired(received, now), group'.previousStk = issued, ~served'
        PROVE  KeysKnown'
    BY <2>0, <2>2, <2>4 DEF KeysKnown
  <2> QED BY <1>4, <2>1, <2>3, <2>4, SecuredFdLeaves
<1>5. CASE BuildSecuredFd
  BY <1>0, <1>5, BuildActs DEF KeysKnown, ServerPhaseIsActive, Latest
<1>6. CASE ForceSessionRenewal
  <2>1. known' = known
    BY <1>6, ForceLeaves
  <2>2. CASE /\ group'.currentStk = issued /\ served' = served
             /\ \/ group'.previousStk = group.previousStk
                \/ group'.previousStk = issued /\ ServerDidAnyClientAlreadyRequest(group)
    BY <1>0, <2>1, <2>2 DEF KeysKnown, ServerPhaseIsActive
  <2>3. CASE ServerDidAnyClientAlreadyRequest(group) /\ group'.previousStk = issued /\ ~served'
    BY <1>0, <2>1, <2>3 DEF KeysKnown
  <2> QED BY <1>6, <2>2, <2>3, ForceLeaves
<1> QED BY <1>1, <1>2, <1>3, <1>4, <1>5, <1>6 DEF Next

\* Every REN is built under a key that some Client was given: the Server
\* changes the key only if somebody had it. The clock may fail; the limit of the
\* counter nonce leaves the phase its room, as above.
THEOREM RenHasReceiverCorrect ==
    ASSUME "trng" \notin IoFaults, CtrNonceUpperLimit >= 2 * MaxCtrnonceDelayMsgs
    PROVE  Spec => RenHasReceiver
<1>1. Init => KeysKnown
  BY DEF Init, KeysKnown, ServerStartedSession, ServerPhaseIsActive
<1>2. Latest /\ ReceiverIsReal /\ KeysKnown /\ [Next]_vars => KeysKnown'
  BY KeysKnownStep
<1>3. Latest /\ ReceiverIsReal /\ KeysKnown /\ [Next]_vars =>
        [\A m \in ret'.out : m.pty = "REN" => m.stk \in known]_vars
  <2> SUFFICES ASSUME Latest, ReceiverIsReal, KeysKnown, KeysKnown', Next,
                      NEW m \in ret'.out, m.pty = "REN"
               PROVE  m.stk \in known
    BY <1>2
  <2>0. group.currentStk = issued /\ issued # NoStk
    BY DEF Latest, TypeOK, NoStk
  <2>1. CASE ReceiveSecuredFd
    <3>1. PICK received : /\ m = Ren(issued, received.currentCtrNonce)
                          /\ group'.previousStk = issued /\ known' = known
      BY <2>1, SecuredFdLeaves
    <3> QED BY <2>0, <3>1 DEF Ren, KeysKnown, ServerPhaseIsActive
  <2>2. CASE BuildSecuredFd
    BY <2>2, BuildActs DEF Sadfd, Latest
  <2>3. CASE ForceSessionRenewal
    <3>1. \/ ServerPhaseIsActive(group) /\ m = Ren(group.previousStk, group.previousCtrNonce)
          \/ /\ ServerDidAnyClientAlreadyRequest(group)
             /\ m = Ren(issued, group.currentCtrNonce)
      BY <2>3, ForceLeaves
    <3> QED BY <2>0, <3>1 DEF Ren, KeysKnown, ReceiverIsReal
  <2>4. CASE ReceiveRequest
    BY <2>4, RequestActs DEF Latest
  <2> QED BY <2>1, <2>2, <2>3, <2>4, OthersReturnNothing DEF Next
<1> QED BY <1>1, <1>2, <1>3, LatestCorrect, ReceiverCorrect, PTL DEF Spec, RenHasReceiver
=============================================================================
