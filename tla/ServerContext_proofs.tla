------------------------ MODULE ServerContext_proofs ------------------------
(***************************************************************************)
(* Proofs about ServerContext, for every header type, every size of the    *)
(* timestamp and of the counter nonce, whatever is called and received and *)
(* whichever functions of the user fail: a call is answered or refused,    *)
(* what it delivers and what it builds is genuine, and the two Groups have *)
(* nothing to do with each other. At the end, the checks of the            *)
(* configurations, with any number of Clients and of Groups.               *)
(***************************************************************************)
EXTENDS ServerContext, Common_proofs

\* The state of a Group: its fields, and keys.
IsGroup(g) ==
    /\ {"sessionStartInstant", "currentRxLastMessageInstant", "previousRxLastMessageInstant",
        "currentCtrNonce", "previousCtrNonce", "currentStk", "previousStk"} \subseteq DOMAIN g
    /\ g.currentStk \in Nat
    /\ g.previousStk \in Nat

----------------------------------------------------------------------------
(* What the handlers of a Group do to its keys, and what they send *)

\* The key is kept, lost or replaced by the fresh one; the previous key is
\* kept, dropped or the one that was current.
KeysMove(old, fresh, new) ==
    /\ IsGroup(new)
    /\ new.currentStk \in {old.currentStk, 0, fresh}
    /\ new.previousStk \in {old.previousStk, old.currentStk, 0}

\* A renewal is announced under the key it ends, data is sent under the key
\* there is after the call.
IsOfGroup(m, g) ==
    \/ m.pty = "REN" /\ m.stk = g.previousStk
    \/ m.pty = "SADFD" /\ m.stk = g.currentStk

IsOutcome(o) == {"err", "group", "out", "sdu"} \subseteq DOMAIN o

\* An outcome that is neither good and empty nor refused and not empty.
IsAnswer(o) ==
    /\ o.err = "OK" => o.out # {} \/ o.sdu # {}
    /\ o.err \notin {"OK", "FAILED"} => o.out = {} /\ o.sdu = {}

LEMMA ExitMove ==
    ASSUME NEW c, NEW i, NEW g, IsGroup(g), NEW t
    PROVE  LET e == Session(c, i)!ServerPhaseExitIfNeeded(g, t)
           IN  /\ IsGroup(e)
               /\ e.currentStk = g.currentStk
               /\ e.previousStk \in {g.previousStk, 0}
BY DEF Session!ServerPhaseExitIfNeeded, Session!NoStk, IsGroup

LEMMA EnterMove ==
    ASSUME NEW c, NEW i, NEW g, IsGroup(g), NEW t, NEW fresh \in Nat,
           NEW o \in Session(c, i)!ServerPhaseEnter(g, t, fresh)
    PROVE  /\ KeysMove(g, fresh, o.group)
           /\ o.group.previousStk = g.currentStk
           /\ o.err \in {"OK", "FAILED"} /\ o.out = {} /\ o.sdu = {} /\ IsOutcome(o)
<1> DEFINE backup == [g EXCEPT !.previousStk = g.currentStk,
                               !.previousRxLastMessageInstant = g.currentRxLastMessageInstant,
                               !.previousCtrNonce = g.currentCtrNonce]
           started == [backup EXCEPT !.sessionStartInstant = t,
                                     !.currentRxLastMessageInstant = t]
<1>1. \/ o = Session(c, i)!Outcome("FAILED", backup, {}, {})
      \/ \E draw \in Session(c, i)!NonZeroTrng(g.currentStk, fresh) :
            o = Session(c, i)!Outcome(
                    IF draw.ok THEN "OK" ELSE "FAILED",
                    [started EXCEPT !.currentStk = draw.stk,
                                    !.currentCtrNonce = IF draw.ok THEN 0 ELSE @],
                    {}, {})
  BY Zenon DEF Session!ServerPhaseEnter, Session!ServerBackedUp
<1>2. /\ KeysMove(g, fresh, backup) /\ backup.previousStk = g.currentStk
      /\ IsGroup(started) /\ started.previousStk = g.currentStk
  BY DEF KeysMove, IsGroup
<1> HIDE DEF backup, started
<1>3. ASSUME NEW draw \in Session(c, i)!NonZeroTrng(g.currentStk, fresh), NEW n,
             NEW err \in {"OK", "FAILED"},
             o = Session(c, i)!Outcome(
                    err, [started EXCEPT !.currentStk = draw.stk, !.currentCtrNonce = n], {}, {})
      PROVE  /\ KeysMove(g, fresh, o.group)
             /\ o.group.previousStk = g.currentStk
             /\ o.err \in {"OK", "FAILED"} /\ o.out = {} /\ o.sdu = {} /\ IsOutcome(o)
  <2>1. /\ o.group = [started EXCEPT !.currentStk = draw.stk, !.currentCtrNonce = n]
        /\ o.err = err /\ o.out = {} /\ o.sdu = {} /\ IsOutcome(o)
    BY <1>3 DEF Session!Outcome, IsOutcome
  <2>2. draw.stk \in {g.currentStk, 0, fresh}
    BY DEF Session!NonZeroTrng, Session!NoStk
  <2>3. draw.stk \in Nat
    BY <2>2 DEF IsGroup
  <2>4. /\ IsGroup(o.group)
        /\ o.group.currentStk = draw.stk /\ o.group.previousStk = g.currentStk
    BY <1>2, <2>1, <2>3 DEF IsGroup
  <2> QED BY <2>1, <2>2, <2>4 DEF KeysMove
<1>4. CASE o = Session(c, i)!Outcome("FAILED", backup, {}, {})
  BY <1>2, <1>4 DEF Session!Outcome, IsOutcome
<1>5. CASE \E draw \in Session(c, i)!NonZeroTrng(g.currentStk, fresh) :
            o = Session(c, i)!Outcome(
                    IF draw.ok THEN "OK" ELSE "FAILED",
                    [started EXCEPT !.currentStk = draw.stk,
                                    !.currentCtrNonce = IF draw.ok THEN 0 ELSE @],
                    {}, {})
  BY <1>3, <1>5
<1> QED BY <1>1, <1>4, <1>5

LEMMA RenewMove ==
    ASSUME NEW c, NEW i, NEW g, IsGroup(g), NEW t, NEW fresh \in Nat,
           NEW o \in Session(c, i)!ServerRenew(g, t, fresh)
    PROVE  /\ KeysMove(g, fresh, o.group)
           /\ o.err \in {"OK", "FAILED"} /\ IsAnswer(o) /\ o.sdu = {} /\ IsOutcome(o)
           /\ \A m \in o.out : IsOfGroup(m, o.group)
<1>1. PICK e \in Session(c, i)!ServerPhaseEnter(g, t, fresh) :
        o = IF e.err = "OK" THEN Session(c, i)!ServerBuildMsgRenewal(e.group) ELSE e
  BY DEF Session!ServerRenew
<1>2. /\ KeysMove(g, fresh, e.group)
      /\ e.err \in {"OK", "FAILED"} /\ e.out = {} /\ e.sdu = {} /\ IsOutcome(e)
  BY EnterMove
<1>3. CASE e.err # "OK"
  BY <1>1, <1>2, <1>3 DEF IsAnswer
<1>4. CASE e.err = "OK"
  <2> DEFINE sent == [e.group EXCEPT !.previousCtrNonce = Session(c, i)!Incremented(@)]
             ren == Session(c, i)!Ren(e.group.previousStk, e.group.previousCtrNonce)
  <2>1. o = Session(c, i)!Outcome("OK", sent, {ren}, {})
    BY <1>1, <1>4 DEF Session!ServerBuildMsgRenewal
  <2>2. KeysMove(g, fresh, sent) /\ sent.previousStk = e.group.previousStk
    BY <1>2 DEF KeysMove, IsGroup
  <2>3. ren.pty = "REN" /\ ren.stk = e.group.previousStk
    BY DEF Session!Ren
  <2> HIDE DEF sent, ren
  <2> QED BY <2>1, <2>2, <2>3 DEF Session!Outcome, IsOfGroup, IsAnswer, IsOutcome
<1> QED BY <1>3, <1>4

LEMMA EnterIfNeededMove ==
    ASSUME NEW c, NEW i, NEW g, IsGroup(g), NEW t, NEW fresh \in Nat,
           NEW o \in Session(c, i)!ServerPhaseEnterIfNeeded(g, t, fresh)
    PROVE  /\ KeysMove(g, fresh, o.group)
           /\ o.err \in {"OK", "FAILED"} /\ IsOutcome(o)
           /\ \A m \in o.out : IsOfGroup(m, o.group)
<1>1. CASE o \in Session(c, i)!ServerRenew(g, t, fresh)
  BY <1>1, RenewMove
<1>2. CASE o = Session(c, i)!Outcome("OK", g, {}, {})
  BY <1>2 DEF Session!Outcome, KeysMove, IsGroup, IsOutcome
<1> QED BY <1>1, <1>2 DEF Session!ServerPhaseEnterIfNeeded

\* A Request is answered if it is acceptable, and only then.
LEMMA RequestMove ==
    ASSUME NEW c, NEW i, NEW g, IsGroup(g), NEW m, NEW intact \in BOOLEAN, NEW rx,
           NEW o \in Session(c, i)!ServerProcessReceivedRequest(g, m, intact, rx)
    PROVE  /\ IsGroup(o.group) /\ o.group.currentStk = g.currentStk
           /\ o.group.previousStk = g.previousStk
           /\ IsAnswer(o) /\ o.sdu = {}
           /\ o.err \in {"OK", "FAILED"}
                <=> Session(c, i)!ServerValidateSidAndGid(m.sid) /\ intact /\ m.reqnonce # 0
           /\ \A x \in o.out : x.pty = "RES" /\ x.client = m.sid /\ x.reqnonce = m.reqnonce
<1> DEFINE received == Session(c, i)!ServerUpdateCurrentRxLastMessageInstant(g, rx)
           res == Session(c, i)!Res(m.sid, m.reqnonce, g.currentStk, g.currentCtrNonce)
           acceptable == Session(c, i)!ServerValidateSidAndGid(m.sid) /\ intact /\ m.reqnonce # 0
<1>1. /\ IsGroup(received) /\ received.currentStk = g.currentStk
      /\ received.previousStk = g.previousStk
  BY DEF Session!ServerUpdateCurrentRxLastMessageInstant, IsGroup
<1>2. res.pty = "RES" /\ res.client = m.sid /\ res.reqnonce = m.reqnonce
  BY DEF Session!Res
<1>3. \/ ~acceptable /\ o = Session(c, i)!Outcome("REFUSED", g, {}, {})
      \/ acceptable /\ o = Session(c, i)!Outcome("OK", received, {res}, {})
      \/ acceptable /\ o = Session(c, i)!Outcome("FAILED", received, {}, {})
  BY DEF Session!ServerProcessReceivedRequest
<1> HIDE DEF received, res
<1> QED BY <1>1, <1>2, <1>3 DEF Session!Outcome, IsAnswer

\* So is application data delivered, and with it a renewal may begin.
LEMMA SecuredFdMove ==
    ASSUME NEW c, NEW i, NEW g, IsGroup(g), NEW m, NEW intact \in BOOLEAN, NEW rx,
           NEW fresh \in Nat,
           NEW o \in Session(c, i)!ServerProcessReceivedSecuredFd(g, m, intact, rx, fresh)
    PROVE  LET e == Session(c, i)!ServerPhaseExitIfNeeded(g, rx)
               acceptable == /\ Session(c, i)!ServerValidateSidAndGid(m.sid) /\ intact
                             /\ Session(c, i)!ServerCheckRxCtrnonce(e, m.ctrnonce, rx)
                             /\ m.stk = Session(c, i)!ServerChooseStk(
                                    e, Session(c, i)!ServerIsPreviousSession(e, m.ctrnonce))
           IN  /\ KeysMove(g, fresh, o.group)
               /\ IsAnswer(o)
               /\ acceptable => o.err \in {"OK", "FAILED"}
               /\ ~acceptable => o.err = "REFUSED" /\ o.sdu = {}
               /\ \A x \in o.out : IsOfGroup(x, o.group)
<1> DEFINE e == Session(c, i)!ServerPhaseExitIfNeeded(g, rx)
           isPrevious == Session(c, i)!ServerIsPreviousSession(e, m.ctrnonce)
           acceptable == /\ intact
                         /\ Session(c, i)!ServerCheckRxCtrnonce(e, m.ctrnonce, rx)
                         /\ m.stk = Session(c, i)!ServerChooseStk(e, isPrevious)
           received == Session(c, i)!ServerUpdateCtrnonceAndRxTimestamp(
                            e, m.ctrnonce, rx, isPrevious)
           known == Session(c, i)!ServerValidateSidAndGid(m.sid)
<1>1. /\ IsGroup(e) /\ e.currentStk = g.currentStk /\ e.previousStk \in {g.previousStk, 0}
      /\ KeysMove(g, fresh, e) /\ KeysMove(g, fresh, g)
  BY ExitMove DEF KeysMove
<1> HIDE DEF e
<1>2. IsGroup(received) /\ received.currentStk = e.currentStk /\ received.previousStk = e.previousStk
  BY <1>1
  DEF Session!ServerUpdateCtrnonceAndRxTimestamp, Session!ServerUpdateCurrentRxLastMessageInstant,
      IsGroup
<1> HIDE DEF received
<1>3. \/ ~(known /\ acceptable)
         /\ \E h \in {g, e} : o = Session(c, i)!Outcome("REFUSED", h, {}, {})
      \/ known /\ acceptable
         /\ \E r \in Session(c, i)!ServerPhaseEnterIfNeeded(received, rx, fresh) :
                o = [r EXCEPT !.sdu = {m}]
  BY DEF Session!ServerProcessReceivedSecuredFd, e, received
<1>4. ASSUME NEW h \in {g, e}, o = Session(c, i)!Outcome("REFUSED", h, {}, {})
      PROVE  KeysMove(g, fresh, o.group) /\ o.err = "REFUSED" /\ o.out = {} /\ o.sdu = {}
  BY <1>1, <1>4 DEF Session!Outcome
<1>5. ASSUME NEW r \in Session(c, i)!ServerPhaseEnterIfNeeded(received, rx, fresh),
             o = [r EXCEPT !.sdu = {m}]
      PROVE  /\ KeysMove(g, fresh, o.group)
             /\ o.err \in {"OK", "FAILED"} /\ o.sdu # {}
             /\ \A x \in o.out : IsOfGroup(x, o.group)
  <2>1. /\ KeysMove(received, fresh, r.group)
        /\ r.err \in {"OK", "FAILED"} /\ IsOutcome(r)
        /\ \A x \in r.out : IsOfGroup(x, r.group)
    BY <1>2, EnterIfNeededMove
  <2>2. o.group = r.group /\ o.err = r.err /\ o.out = r.out /\ o.sdu = {m}
    BY <1>5, <2>1 DEF IsOutcome
  <2>3. KeysMove(g, fresh, r.group)
    BY <1>1, <1>2, <2>1 DEF KeysMove
  <2> QED BY <2>1, <2>2, <2>3
<1> QED BY <1>3, <1>4, <1>5 DEF IsAnswer, e

\* Data is sent if the Session has a receiver, and only then.
LEMMA BuildMove ==
    ASSUME NEW c, NEW i, NEW g, IsGroup(g), NEW fresh,
           NEW o \in Session(c, i)!ServerBuildSecuredFd(g)
    PROVE  /\ KeysMove(g, fresh, o.group)
           /\ IsAnswer(o) /\ o.sdu = {}
           /\ o.err \in {"OK", "FAILED"} <=> Session(c, i)!ServerDidAnyClientAlreadyRequest(g)
           /\ \A m \in o.out : IsOfGroup(m, o.group)
<1> DEFINE sent == [g EXCEPT !.currentCtrNonce = Session(c, i)!Incremented(@)]
           data == Session(c, i)!Sadfd(0, g.currentStk, g.currentCtrNonce)
           heard == Session(c, i)!ServerDidAnyClientAlreadyRequest(g)
<1>1. \/ heard /\ o = Session(c, i)!Outcome("OK", sent, {data}, {})
      \/ ~heard /\ o = Session(c, i)!Outcome("NO_RECEIVER", g, {}, {})
  BY DEF Session!ServerBuildSecuredFd
<1>2. /\ KeysMove(g, fresh, sent) /\ KeysMove(g, fresh, g)
      /\ sent.currentStk = g.currentStk
  BY DEF KeysMove, IsGroup
<1>3. data.pty = "SADFD" /\ data.stk = g.currentStk
  BY DEF Session!Sadfd
<1> HIDE DEF sent, data
<1> QED BY <1>1, <1>2, <1>3 DEF Session!Outcome, IsAnswer, IsOfGroup

\* A renewal is announced again while it lasts; one is begun if the Session has
\* a receiver, and only then.
LEMMA ForceMove ==
    ASSUME NEW c, NEW i, NEW g, IsGroup(g), NEW t, NEW fresh \in Nat,
           NEW o \in Session(c, i)!ServerForceSessionRenewal(g, t, fresh)
    PROVE  /\ KeysMove(g, fresh, o.group)
           /\ IsAnswer(o) /\ o.sdu = {}
           /\ o.err \in {"OK", "FAILED"}
                <=> \/ Session(c, i)!ServerPhaseIsActive(g)
                    \/ Session(c, i)!ServerDidAnyClientAlreadyRequest(g)
           /\ \A m \in o.out : IsOfGroup(m, o.group)
<1> DEFINE sent == [g EXCEPT !.previousCtrNonce = Session(c, i)!Incremented(@)]
           ren == Session(c, i)!Ren(g.previousStk, g.previousCtrNonce)
           active == Session(c, i)!ServerPhaseIsActive(g)
           heard == Session(c, i)!ServerDidAnyClientAlreadyRequest(g)
<1>1. \/ active /\ o = Session(c, i)!Outcome("OK", sent, {ren}, {})
      \/ heard /\ o \in Session(c, i)!ServerRenew(g, t, fresh)
      \/ ~active /\ ~heard /\ o = Session(c, i)!Outcome("NO_RECEIVER", g, {}, {})
  BY DEF Session!ServerForceSessionRenewal, Session!ServerBuildMsgRenewal
<1>2. /\ KeysMove(g, fresh, sent) /\ KeysMove(g, fresh, g)
      /\ sent.previousStk = g.previousStk
  BY DEF KeysMove, IsGroup
<1>3. ren.pty = "REN" /\ ren.stk = g.previousStk
  BY DEF Session!Ren
<1> HIDE DEF sent, ren
<1>4. CASE active /\ o = Session(c, i)!Outcome("OK", sent, {ren}, {})
  BY <1>2, <1>3, <1>4 DEF Session!Outcome, IsAnswer, IsOfGroup
<1>5. CASE heard /\ o \in Session(c, i)!ServerRenew(g, t, fresh)
  BY <1>5, RenewMove
<1>6. CASE ~active /\ ~heard /\ o = Session(c, i)!Outcome("NO_RECEIVER", g, {}, {})
  BY <1>2, <1>6 DEF Session!Outcome, IsAnswer, IsOfGroup
<1> QED BY <1>1, <1>4, <1>5, <1>6

----------------------------------------------------------------------------
(* What a call about one Group makes of the context *)

\* The configuration is never written.
IsContext(c) ==
    /\ {"null", "faults", "headerType", "amountOfGroups", "amountOfClients", "clients",
        "groups", "states"} \subseteq DOMAIN c
    /\ c.null = {}
    /\ c.headerType = Type
    /\ c.amountOfGroups = 2 /\ c.amountOfClients = 3
    /\ c.clients = [sid \in 1 .. 3 |-> [sid |-> sid, ltk |-> 100 + sid]]
    /\ c.groups = <<GroupConfig(0, 1 .. 3), GroupConfig(1, {2, 3})>>
    /\ DOMAIN c.states = 1 .. 2
    /\ \A i \in 1 .. 2 : IsGroup(c.states[i])

\* A call about the Group gid leaves the other one alone; it is answered or
\* refused.
CallMove(c, gid, fresh, r) ==
    /\ IsContext(r.ctx)
    /\ \A i \in 1 .. 2 : IF i = gid + 1
                         THEN KeysMove(c.states[i], fresh, r.ctx.states[i])
                         ELSE r.ctx.states[i] = c.states[i]
    /\ IsAnswer(r)

\* An outcome of the Group's handler that fits the error the checks return.
Agrees(g, fresh, err, o) ==
    /\ KeysMove(g, fresh, o.group)
    /\ IsAnswer(o)
    /\ o.err \in {"OK", "FAILED"} <=> err = "OK"

\* A reply made of the outcome: its state, its messages packed, its user data.
IsReplyOf(c, gid, ptlen, sdu, o, r) ==
    /\ r.ctx.states[gid + 1] = o.group
    /\ r.out = {ServerPdu(c, gid, m, ptlen) : m \in o.out}
    /\ r.sdu = IF o.sdu = {} THEN {} ELSE {sdu}

\* A handler's outcome becomes the reply, if the checks that give the call its
\* error agree with those that let it act.
LEMMA RepliesMove ==
    ASSUME NEW c, IsContext(c), NEW gid \in 0 .. 1, NEW fresh \in Nat,
           NEW err, NEW outcomes, NEW ptlen, NEW sdu,
           \A o \in outcomes : Agrees(c.states[gid + 1], fresh, err, o),
           NEW r \in Replies(c, gid, err, outcomes, ptlen, sdu)
    PROVE  /\ CallMove(c, gid, fresh, r)
           /\ \E o \in outcomes : IsReplyOf(c, gid, ptlen, sdu, o, r)
<1>1. PICK o \in outcomes :
        r = Reply(IF o.err = "FAILED" THEN "FAILED" ELSE err,
                  [c EXCEPT !.states[gid + 1] = o.group],
                  {ServerPdu(c, gid, m, ptlen) : m \in o.out},
                  IF o.sdu = {} THEN {} ELSE {sdu})
  BY DEF Replies
<1>2. /\ r.err = (IF o.err = "FAILED" THEN "FAILED" ELSE err)
      /\ r.ctx = [c EXCEPT !.states[gid + 1] = o.group]
      /\ r.out = {ServerPdu(c, gid, m, ptlen) : m \in o.out}
      /\ r.sdu = IF o.sdu = {} THEN {} ELSE {sdu}
  BY <1>1 DEF Reply
<1>3. Agrees(c.states[gid + 1], fresh, err, o)
  OBVIOUS
<1>4. /\ IsContext(r.ctx)
      /\ \A i \in 1 .. 2 : r.ctx.states[i] = IF i = gid + 1 THEN o.group ELSE c.states[i]
  <2>1. r.ctx.states = [c.states EXCEPT ![gid + 1] = o.group]
    BY <1>2 DEF IsContext
  <2>2. /\ DOMAIN r.ctx.states = 1 .. 2
        /\ \A i \in 1 .. 2 : r.ctx.states[i] = IF i = gid + 1 THEN o.group ELSE c.states[i]
    BY <2>1 DEF IsContext
  <2>3. \A i \in 1 .. 2 : IsGroup(r.ctx.states[i])
    BY <1>3, <2>2 DEF IsContext, KeysMove, Agrees
  <2> QED BY <1>2, <2>2, <2>3 DEF IsContext
<1>5. IsAnswer(r)
  BY <1>2, <1>3 DEF IsAnswer, Agrees
<1> QED BY <1>2, <1>3, <1>4, <1>5 DEF CallMove, Agrees, IsReplyOf

\* A call that is refused before any handler is called.
LEMMA RefusedMove ==
    ASSUME NEW c, IsContext(c), NEW gid, NEW fresh \in Nat, NEW err, err # "OK",
           NEW r \in Refused(err, c)
    PROVE  CallMove(c, gid, fresh, r) /\ r.ctx = c /\ r.out = {} /\ r.sdu = {}
BY DEF Refused, Reply, CallMove, IsContext, IsAnswer, KeysMove

\* A call that only makes a message, or delivers one.
LEMMA UnmovedMove ==
    ASSUME NEW c, IsContext(c), NEW gid, NEW fresh \in Nat, NEW out, NEW sdu,
           out # {} \/ sdu # {}
    PROVE  CallMove(c, gid, fresh, Reply("OK", c, out, sdu))
BY DEF Reply, CallMove, IsContext, IsAnswer, KeysMove

----------------------------------------------------------------------------
(* The checks of the calls and the conditions of the handlers agree *)

\* A context that no NULL pointer is in.
LEMMA PointersPass ==
    ASSUME NEW c, IsContext(c)
    PROVE  ServerCheckCtxPointers(c) = "OK"
BY DEF ServerCheckCtxPointers, IsContext, FirstError, Check

\* Where the GID and the SID pass the context's check, they are of a Group, and
\* pass the Group's.
LEMMA KnownIsValid ==
    ASSUME NEW c, IsContext(c), NEW gid \in Nat, NEW sid,
           ServerValidateSidAndGid(c, gid, sid) = "OK"
    PROVE  /\ gid \in 0 .. 1
           /\ sid \in c.groups[gid + 1].sids
           /\ c.groups[gid + 1].sids \subseteq 1 .. 3
           /\ Session(c, gid + 1)!ServerValidateSidAndGid(sid)
<1>1. ~(sid >= 3) /\ ~(gid >= 2) /\ ~(gid < 2 /\ sid \notin c.groups[gid + 1].sids)
  BY ThreeChecks DEF ServerValidateSidAndGid, Check, IsContext
<1>2. gid \in 0 .. 1
  BY <1>1
<1>3. c.groups[1].sids = 1 .. 3 /\ c.groups[2].sids = {2, 3}
  BY DEF IsContext, GroupConfig
<1> QED BY <1>1, <1>2, <1>3 DEF Session!ServerValidateSidAndGid, IsContext

LEMMA RequestAgrees ==
    ASSUME NEW c, IsContext(c), NEW pdu, NEW h, h.gid \in Nat, pdu.reqnonce \in 0 .. 1,
           NEW rx, NEW fresh \in Nat, NEW r \in ServerProcessReceivedRequest(c, pdu, h, rx)
    PROVE  /\ CallMove(c, h.gid, fresh, r)
           /\ r.sdu = {}
           /\ \A x \in r.out : \E m : /\ x = ServerPdu(c, h.gid, m, 0)
                                      /\ h.gid \in 0 .. 1
                                      /\ m.pty = "RES" /\ m.client \in 1 .. 3 /\ m.reqnonce = 1
<1> DEFINE known == ServerValidateSidAndGid(c, h.gid, h.sid)
           err == ServerRequestErr(c, pdu, h)
           S == h.gid + 1
           m == [sid |-> h.sid, reqnonce |-> pdu.reqnonce]
           intact == err \notin {"TOO_SHORT_PDU_TO_CONTAIN_REQ", "SECWARN_INVALID_TAG"}
           outcomes == Session(c, S)!ServerProcessReceivedRequest(c.states[S], m, intact, rx)
<1>1. CASE known # "OK"
  <2>1. r \in Refused(known, c)
    BY <1>1 DEF ServerProcessReceivedRequest
  <2> QED BY <1>1, <2>1, RefusedMove
<1>2. CASE known = "OK"
  <2>1. /\ h.gid \in 0 .. 1 /\ h.sid \in 1 .. 3
        /\ Session(c, S)!ServerValidateSidAndGid(h.sid)
    BY <1>2, KnownIsValid
  <2>2. IsGroup(c.states[S])
    BY <2>1 DEF IsContext
  <2>3. r \in Replies(c, h.gid, err, outcomes, 0, {})
    BY <1>2 DEF ServerProcessReceivedRequest
  <2>4. err = "OK" <=> intact /\ pdu.reqnonce # 0
    <3> DEFINE a == Check(pdu.len < HeaderLen(c.headerType) + MetadataLen(REQ),
                          "TOO_SHORT_PDU_TO_CONTAIN_REQ")
               b == Check(pdu.reqnonce = 0, "SECWARN_RECEIVED_ZERO_REQNONCE")
               d == Check(pdu.tag # ReqTag(c.clients[h.sid].ltk, h, pdu.reqnonce),
                          "SECWARN_INVALID_TAG")
    <3>1. err = FirstError(<<a, b, d>>)
      BY DEF ServerRequestErr
    <3>2. /\ a \in {"OK", "TOO_SHORT_PDU_TO_CONTAIN_REQ"}
          /\ b = IF pdu.reqnonce = 0 THEN "SECWARN_RECEIVED_ZERO_REQNONCE" ELSE "OK"
          /\ d \in {"OK", "SECWARN_INVALID_TAG"}
      BY DEF Check
    <3> HIDE DEF a, b, d, err
    <3> QED BY <3>1, <3>2, ThreeChecks
  <2> HIDE DEF err
  <2>5. ASSUME NEW o \in outcomes
        PROVE  /\ Agrees(c.states[S], fresh, err, o) /\ o.sdu = {}
               /\ o.out # {} => pdu.reqnonce = 1
               /\ \A x \in o.out : x.pty = "RES" /\ x.client = h.sid /\ x.reqnonce = pdu.reqnonce
    <3>1. intact \in BOOLEAN /\ m.sid = h.sid /\ m.reqnonce = pdu.reqnonce
      OBVIOUS
    <3> HIDE DEF m, intact, S
    <3>2. /\ IsGroup(o.group) /\ o.group.currentStk = c.states[S].currentStk
          /\ o.group.previousStk = c.states[S].previousStk
          /\ IsAnswer(o) /\ o.sdu = {}
          /\ o.err \in {"OK", "FAILED"}
                <=> Session(c, S)!ServerValidateSidAndGid(m.sid) /\ intact /\ m.reqnonce # 0
          /\ \A x \in o.out : x.pty = "RES" /\ x.client = m.sid /\ x.reqnonce = m.reqnonce
      BY <2>2, <3>1, RequestMove
    <3> QED BY <2>1, <2>4, <3>1, <3>2 DEF Agrees, IsAnswer, KeysMove
  <2> HIDE DEF outcomes
  <2>6. \A o \in outcomes : Agrees(c.states[h.gid + 1], fresh, err, o)
    BY <2>5
  <2>7. CallMove(c, h.gid, fresh, r) /\ \E o \in outcomes : IsReplyOf(c, h.gid, 0, {}, o, r)
    BY <2>1, <2>3, <2>6, RepliesMove
  <2>8. PICK o \in outcomes : IsReplyOf(c, h.gid, 0, {}, o, r)
    BY <2>7
  <2>9. \A x \in o.out : x.pty = "RES" /\ x.client \in 1 .. 3 /\ x.reqnonce = 1
    BY <2>1, <2>5
  <2> QED BY <2>1, <2>5, <2>7, <2>8, <2>9 DEF IsReplyOf
<1> QED BY <1>1, <1>2

\* A tag tells what it was made of.
LEMMA SadfdTagFields ==
    ASSUME NEW k, NEW h, NEW n, NEW ptlen
    PROVE  SadfdTag(k, h, n, ptlen).key = k
BY DEF SadfdTag, Tag

\* User data of a Group, with the message it was in.
IsOfMember(c, pdu, h, sdu) ==
    /\ h.gid \in 0 .. 1
    /\ sdu.gid = h.gid /\ sdu.sid = h.sid
    /\ h.sid \in c.groups[h.gid + 1].sids
    /\ SadfdIsWhole(Type, pdu)
    /\ pdu.tag = SadfdTag(pdu.tag.key, h, pdu.ctrnonce, pdu.ptlen)

\* Messages the Server builds for a Group, with so many bytes of user data.
IsBuilt(c, gid, ptlen, r, x) ==
    \E m : x = ServerPdu(c, gid, m, ptlen) /\ IsOfGroup(m, r.ctx.states[gid + 1])

LEMMA SecuredFdAgrees ==
    ASSUME NEW c, IsContext(c), NEW pdu, pdu.len \in Nat, pdu.ptlen \in Nat,
           NEW h, h.gid \in Nat, NEW rx, NEW fresh \in Nat,
           NEW r \in ServerProcessReceivedSecuredFd(c, pdu, h, rx, fresh)
    PROVE  /\ CallMove(c, h.gid, fresh, r)
           /\ \A sdu \in r.sdu : IsOfMember(c, pdu, h, sdu)
           /\ \A x \in r.out : h.gid \in 0 .. 1 /\ IsBuilt(c, h.gid, 0, r, x)
<1> DEFINE known == ServerValidateSidAndGid(c, h.gid, h.sid)
           i == h.gid + 1
           e == Session(c, i)!ServerPhaseExitIfNeeded(c.states[i], rx)
           stk == Session(c, i)!ServerChooseStk(
                    e, Session(c, i)!ServerIsPreviousSession(e, pdu.ctrnonce))
           err == ServerSadfdErr(c, pdu, h, e, rx)
           m == [sid |-> h.sid, stk |-> pdu.tag.key, ctrnonce |-> pdu.ctrnonce]
           whole == SadfdIsWhole(c.headerType, pdu)
           intact == /\ whole
                     /\ pdu.tag = SadfdTag(pdu.tag.key, h, pdu.ctrnonce, pdu.ptlen)
           fits == Session(c, i)!ServerCheckRxCtrnonce(e, pdu.ctrnonce, rx)
           outcomes == Session(c, i)!ServerProcessReceivedSecuredFd(
                            c.states[i], m, intact, rx, fresh)
<1>1. CASE known # "OK"
  <2>1. r \in Refused(known, c)
    BY <1>1 DEF ServerProcessReceivedSecuredFd
  <2> QED BY <1>1, <2>1, RefusedMove
<1>2. CASE known = "OK"
  <2>1. /\ h.gid \in 0 .. 1 /\ h.sid \in c.groups[i].sids
        /\ Session(c, i)!ServerValidateSidAndGid(h.sid)
    BY <1>2, KnownIsValid
  <2>2. IsGroup(c.states[i])
    BY <2>1 DEF IsContext
  <2>3. r \in Replies(c, h.gid, err, outcomes, 0, SduOf(h, pdu.ptlen, TRUE))
    BY <1>2 DEF ServerProcessReceivedSecuredFd
  <2>4. err = "OK" <=> intact /\ fits /\ pdu.tag.key = stk
    <3> DEFINE checks == <<
                 Check(pdu.len < HeaderLen(c.headerType) + MetadataLen(SADFD),
                       "TOO_SHORT_PDU_TO_CONTAIN_SADFD"),
                 Check(Session(c, i)!CtrnonceIsExpired(pdu.ctrnonce),
                       "SECWARN_RECEIVED_OVERFLOWN_NONCE"),
                 Check(~fits, "SECWARN_OLD_MESSAGE"),
                 Check(~whole, "TOO_LONG_CIPHERTEXT"),
                 Check(pdu.tag # SadfdTag(stk, h, pdu.ctrnonce, pdu.ptlen),
                       "SECWARN_INVALID_TAG")>>
    <3>1. err = FirstError(checks)
      BY DEF ServerSadfdErr
    <3>2. err = "OK" <=> /\ ~(pdu.len < HeaderLen(c.headerType) + MetadataLen(SADFD))
                         /\ ~Session(c, i)!CtrnonceIsExpired(pdu.ctrnonce)
                         /\ fits /\ whole
                         /\ pdu.tag = SadfdTag(stk, h, pdu.ctrnonce, pdu.ptlen)
      BY <3>1, FiveChecks DEF Check
    <3>3. fits => ~Session(c, i)!CtrnonceIsExpired(pdu.ctrnonce)
      BY DEF Session!ServerCheckRxCtrnonce
    <3>4. whole => ~(pdu.len < HeaderLen(c.headerType) + MetadataLen(SADFD))
      <4>1. c.headerType = Type /\ HeaderLen(Type) \in Nat /\ MetadataLen(SADFD) \in Nat
        BY TypeAssumption DEF IsContext, HeaderLen, MetadataLen, REN, RES, REQ, SADFD, UAD
      <4> QED BY <4>1 DEF SadfdIsWhole
    <3> QED BY <3>2, <3>3, <3>4, SadfdTagFields
  <2>5. ASSUME NEW o \in outcomes
        PROVE  /\ Agrees(c.states[i], fresh, err, o)
               /\ o.sdu # {} => intact
               /\ \A x \in o.out : IsOfGroup(x, o.group)
    <3>1. intact \in BOOLEAN /\ m.sid = h.sid /\ m.stk = pdu.tag.key /\ m.ctrnonce = pdu.ctrnonce
      OBVIOUS
    <3> DEFINE acceptable == /\ Session(c, i)!ServerValidateSidAndGid(m.sid) /\ intact
                             /\ Session(c, i)!ServerCheckRxCtrnonce(e, m.ctrnonce, rx)
                             /\ m.stk = Session(c, i)!ServerChooseStk(
                                    e, Session(c, i)!ServerIsPreviousSession(e, m.ctrnonce))
    <3>2. acceptable <=> err = "OK"
      <4> HIDE DEF m, e, err, intact
      <4> QED BY <2>1, <2>4, <3>1
    <3> HIDE DEF m, i, intact, err
    <3>3. /\ KeysMove(c.states[i], fresh, o.group)
          /\ IsAnswer(o)
          /\ acceptable => o.err \in {"OK", "FAILED"}
          /\ ~acceptable => o.err = "REFUSED" /\ o.sdu = {}
          /\ \A x \in o.out : IsOfGroup(x, o.group)
      BY <2>2, <3>1, SecuredFdMove
    <3>4. acceptable => intact
      OBVIOUS
    <3> HIDE DEF acceptable
    <3> QED BY <3>2, <3>3, <3>4 DEF Agrees
  <2>6. \A o \in outcomes : Agrees(c.states[h.gid + 1], fresh, err, o)
    BY <2>5
  <2> DEFINE sdu == SduOf(h, pdu.ptlen, TRUE)
  <2>7. sdu.gid = h.gid /\ sdu.sid = h.sid
    BY DEF SduOf
  <2>8. intact => IsOfMember(c, pdu, h, sdu)
    BY <2>1, <2>7 DEF IsOfMember, IsContext
  <2> HIDE DEF outcomes, err, sdu, intact
  <2>9. CallMove(c, h.gid, fresh, r) /\ \E o \in outcomes : IsReplyOf(c, h.gid, 0, sdu, o, r)
    BY <2>1, <2>3, <2>6, RepliesMove DEF sdu
  <2>10. PICK o \in outcomes : IsReplyOf(c, h.gid, 0, sdu, o, r)
    BY <2>9
  <2>11. \A x \in r.sdu : IsOfMember(c, pdu, h, x)
    BY <2>5, <2>8, <2>10 DEF IsReplyOf
  <2>12. \A x \in r.out : IsBuilt(c, h.gid, 0, r, x)
    BY <2>5, <2>10 DEF IsReplyOf, IsBuilt
  <2> QED BY <2>1, <2>9, <2>11, <2>12
<1> QED BY <1>1, <1>2

\* What a reception may return: of a call on the context, for the Group the
\* header names.
LEMMA ProcessReceivedMove ==
    ASSUME NEW c, IsContext(c), NEW call, NEW h, h = HeaderUnpack(Type, call.pdu.header),
           h.gid \in Nat, call.null = {},
           call.pdu.len \in Nat, call.pdu.ptlen \in Nat, call.pdu.reqnonce \in 0 .. 1,
           NEW rx, NEW fresh \in Nat,
           NEW r \in ServerProcessReceived(c, call, rx, fresh)
    PROVE  /\ CallMove(c, h.gid, fresh, r)
           /\ \A sdu \in r.sdu : sdu.wasSecured => IsOfMember(c, call.pdu, h, sdu)
           /\ \A x \in r.out :
                /\ h.gid \in 0 .. 1
                /\ \/ IsBuilt(c, h.gid, 0, r, x)
                   \/ \E m : /\ x = ServerPdu(c, h.gid, m, 0)
                             /\ m.pty = "RES" /\ m.client \in 1 .. 3 /\ m.reqnonce = 1
<1>1. ASSUME NEW err, err # "OK", r \in Refused(err, c)
      PROVE  CallMove(c, h.gid, fresh, r) /\ r.sdu = {} /\ r.out = {}
  BY <1>1, RefusedMove
<1>2. CASE r \in ServerProcessReceivedRequest(c, call.pdu, h, rx)
  BY <1>2, RequestAgrees
<1>3. CASE r \in ServerProcessReceivedSecuredFd(c, call.pdu, h, rx, fresh)
  BY <1>3, SecuredFdAgrees
<1>4. ASSUME NEW n, r = Reply("OK", c, {}, {SduOf(h, n, FALSE)})
      PROVE  CallMove(c, h.gid, fresh, r) /\ (\A sdu \in r.sdu : ~sdu.wasSecured) /\ r.out = {}
  <2>1. CallMove(c, h.gid, fresh, r)
    BY <1>4, UnmovedMove
  <2> QED BY <1>4, <2>1 DEF Reply, SduOf
<1>5. CASE r \in ServerProcessReceivedPayload(c, call.pdu, rx, fresh)
  <2>1. c.headerType = Type
    BY DEF IsContext
  <2>2. \/ \E err : err # "OK" /\ r \in Refused(err, c)
        \/ r \in ServerProcessReceivedRequest(c, call.pdu, h, rx)
        \/ r \in ServerProcessReceivedSecuredFd(c, call.pdu, h, rx, fresh)
        \/ \E n : r = Reply("OK", c, {}, {SduOf(h, n, FALSE)})
    BY <1>5, <2>1, Zenon DEF ServerProcessReceivedPayload
  <2> QED BY <1>1, <1>2, <1>3, <1>4, <2>2
<1>6. \/ \E err : err # "OK" /\ r \in Refused(err, c)
      \/ r \in ServerProcessReceivedPayload(c, call.pdu, rx, fresh)
  BY DEF ServerProcessReceived
<1> QED BY <1>1, <1>5, <1>6

\* A message that passes the check before packing fits its frame.
LEMMA MessageFits ==
    ASSUME NEW gid \in Nat, NEW pty \in {SADFD, UAD}, NEW data \in Data,
           MsgBeforePackingErr(Type, gid, pty, data) = "OK"
    PROVE  /\ gid <= HeaderTypeMaxGid(Type)
           /\ data.len \in Nat
           /\ HeaderLen(Type) + MetadataLen(pty) + data.len <= MaxCanFdDataLen
<1>1. /\ HeaderLen(Type) \in Nat /\ MetadataLen(pty) \in Nat /\ HeaderTypeMaxGid(Type) \in Nat
      /\ data.len \in Nat /\ MaxCanFdDataLen \in Nat
  BY TypeAssumption
  DEF HeaderLen, HeaderTypeMaxGid, MetadataLen, REN, RES, REQ, SADFD, UAD, Data, MaxCanFdDataLen
<1>2. /\ ~(gid > HeaderTypeMaxGid(Type))
      /\ ~(data.len > MaxCanFdDataLen - HeaderLen(Type) - MetadataLen(pty))
  BY ThreeChecks DEF MsgBeforePackingErr, Check
<1> QED BY <1>1, <1>2

\* What a call that builds a message of user data may return.
LEMMA BuildUnsecuredMove ==
    ASSUME NEW c, IsContext(c), NEW call, call.gid \in Nat, call.null = {}, call.data \in Data,
           NEW fresh \in Nat, NEW r \in ServerBuildUnsecured(c, call)
    PROVE  /\ CallMove(c, call.gid, fresh, r)
           /\ r.sdu = {}
           /\ \A x \in r.out : /\ call.gid <= HeaderTypeMaxGid(Type)
                               /\ call.data.len \in Nat
                               /\ HeaderLen(Type) + call.data.len <= MaxCanFdDataLen
                               /\ x = PduOf(Type, Header(call.gid, ServerSid, UAD), call.data.len)
<1> DEFINE n == call.data.len
           err == FirstError(<<
                    ServerCheckCtxPointers(c),
                    Check("unsecuredPdu" \in call.null, "NULL_PDU"),
                    IF c.null # {} THEN "OK"
                    ELSE MsgBeforePackingErr(c.headerType, call.gid, UAD, call.data)>>)
           pdu == PduOf(Type, Header(call.gid, ServerSid, UAD), n)
<1>1. CASE err # "OK"
  <2>1. r \in Refused(err, c)
    BY <1>1 DEF ServerBuildUnsecured
  <2> HIDE DEF err
  <2> QED BY <1>1, <2>1, RefusedMove
<1>2. CASE err = "OK"
  <2>1. r = Reply("OK", c, {pdu}, {})
    BY <1>2 DEF ServerBuildUnsecured, IsContext
  <2>2. CallMove(c, call.gid, fresh, r) /\ r.out = {pdu} /\ r.sdu = {}
    BY <2>1, UnmovedMove DEF Reply
  <2>3. MsgBeforePackingErr(Type, call.gid, UAD, call.data) = "OK"
    BY <1>2, ThreeChecks DEF IsContext
  <2>4. /\ call.gid <= HeaderTypeMaxGid(Type) /\ n \in Nat
        /\ HeaderLen(Type) + MetadataLen(UAD) + n <= MaxCanFdDataLen
    BY <2>3, MessageFits DEF UAD
  <2>5. MetadataLen(UAD) = 0 /\ HeaderLen(Type) \in Nat
    BY TypeAssumption DEF HeaderLen, MetadataLen, REN, RES, REQ, SADFD, UAD
  <2> HIDE DEF pdu, n
  <2> QED BY <2>2, <2>4, <2>5 DEF pdu, n
<1> QED BY <1>1, <1>2

LEMMA BuildSecuredFdMove ==
    ASSUME NEW c, IsContext(c), NEW call, call.gid \in Nat, call.null = {}, call.data \in Data,
           NEW fresh \in Nat, NEW r \in ServerBuildSecuredFd(c, call)
    PROVE  /\ CallMove(c, call.gid, fresh, r)
           /\ r.sdu = {}
           /\ \A x \in r.out :
                /\ call.gid \in 0 .. 1
                /\ call.data.len \in Nat
                /\ HeaderLen(Type) + MetadataLen(SADFD) + call.data.len <= MaxCanFdDataLen
                /\ IsBuilt(c, call.gid, call.data.len, r, x)
<1> DEFINE gid == call.gid
           i == gid + 1
           n == call.data.len
           checks == ServerBuildSecuredErr(c, call)
           err == ServerNoReceiver(c, gid)
           outcomes == Session(c, i)!ServerBuildSecuredFd(c.states[i])
<1>1. CASE checks # "OK"
  <2>1. r \in Refused(checks, c)
    BY <1>1 DEF ServerBuildSecuredFd
  <2> QED BY <1>1, <2>1, RefusedMove
<1>2. CASE checks = "OK"
  <2>1. r \in Replies(c, gid, err, outcomes, n, {})
    BY <1>2 DEF ServerBuildSecuredFd
  <2>2. /\ MsgBeforePackingErr(Type, gid, SADFD, call.data) = "OK"
        /\ gid \in 0 .. 1
    BY <1>2, FourChecks DEF ServerBuildSecuredErr, IsContext, Check
  <2>3. /\ n \in Nat
        /\ HeaderLen(Type) + MetadataLen(SADFD) + n <= MaxCanFdDataLen
    BY <2>2, MessageFits
  <2>4. IsGroup(c.states[i])
    BY <2>2 DEF IsContext
  <2>5. err = "OK" <=> Session(c, i)!ServerDidAnyClientAlreadyRequest(c.states[i])
    BY DEF ServerNoReceiver, Check
  <2>6. ASSUME NEW o \in outcomes
        PROVE  /\ Agrees(c.states[i], fresh, err, o)
               /\ o.sdu = {} /\ \A m \in o.out : IsOfGroup(m, o.group)
    <3> HIDE DEF i, err
    <3>1. /\ KeysMove(c.states[i], fresh, o.group)
          /\ IsAnswer(o) /\ o.sdu = {}
          /\ o.err \in {"OK", "FAILED"}
                <=> Session(c, i)!ServerDidAnyClientAlreadyRequest(c.states[i])
          /\ \A m \in o.out : IsOfGroup(m, o.group)
      BY <2>4, BuildMove
    <3> QED BY <2>5, <3>1 DEF Agrees
  <2>7. \A o \in outcomes : Agrees(c.states[gid + 1], fresh, err, o)
    BY <2>6
  <2> HIDE DEF outcomes, err, n
  <2>8. CallMove(c, gid, fresh, r) /\ \E o \in outcomes : IsReplyOf(c, gid, n, {}, o, r)
    BY <2>1, <2>2, <2>7, RepliesMove
  <2>9. PICK o \in outcomes : IsReplyOf(c, gid, n, {}, o, r)
    BY <2>8
  <2>10. r.sdu = {} /\ \A x \in r.out : IsBuilt(c, gid, n, r, x)
    BY <2>6, <2>9 DEF IsReplyOf, IsBuilt
  <2> QED BY <2>2, <2>3, <2>8, <2>10 DEF n
<1> QED BY <1>1, <1>2

LEMMA ForceSessionRenewalMove ==
    ASSUME NEW c, IsContext(c), NEW call, call.gid \in Nat, call.null = {}, NEW now,
           NEW fresh \in Nat, NEW r \in ServerForceSessionRenewal(c, call, now, fresh)
    PROVE  /\ CallMove(c, call.gid, fresh, r)
           /\ r.sdu = {}
           /\ \A x \in r.out : call.gid \in 0 .. 1 /\ IsBuilt(c, call.gid, 0, r, x)
<1> DEFINE gid == call.gid
           i == gid + 1
           checks == FirstError(<<Check("renewalPdu" \in call.null, "NULL_PDU"),
                                  ServerCheckCtxPointers(c),
                                  Check(gid >= c.amountOfGroups, "UNKNOWN_GROUP")>>)
           err == IF Session(c, i)!ServerPhaseIsActive(c.states[i]) THEN "OK"
                  ELSE ServerNoReceiver(c, gid)
           outcomes == Session(c, i)!ServerForceSessionRenewal(c.states[i], now, fresh)
<1>1. CASE checks # "OK"
  <2>1. r \in Refused(checks, c)
    BY <1>1 DEF ServerForceSessionRenewal
  <2> QED BY <1>1, <2>1, RefusedMove
<1>2. CASE checks = "OK"
  <2>1. r \in Replies(c, gid, err, outcomes, 0, {})
    BY <1>2 DEF ServerForceSessionRenewal
  <2>2. gid \in 0 .. 1
    BY <1>2, ThreeChecks DEF IsContext, Check
  <2>3. IsGroup(c.states[i])
    BY <2>2 DEF IsContext
  <2>4. err = "OK" <=> \/ Session(c, i)!ServerPhaseIsActive(c.states[i])
                       \/ Session(c, i)!ServerDidAnyClientAlreadyRequest(c.states[i])
    BY DEF ServerNoReceiver, Check
  <2>5. ASSUME NEW o \in outcomes
        PROVE  /\ Agrees(c.states[i], fresh, err, o)
               /\ o.sdu = {} /\ \A m \in o.out : IsOfGroup(m, o.group)
    <3> HIDE DEF i, err
    <3>1. /\ KeysMove(c.states[i], fresh, o.group)
          /\ IsAnswer(o) /\ o.sdu = {}
          /\ o.err \in {"OK", "FAILED"}
                <=> \/ Session(c, i)!ServerPhaseIsActive(c.states[i])
                    \/ Session(c, i)!ServerDidAnyClientAlreadyRequest(c.states[i])
          /\ \A m \in o.out : IsOfGroup(m, o.group)
      BY <2>3, ForceMove
    <3> QED BY <2>4, <3>1 DEF Agrees
  <2>6. \A o \in outcomes : Agrees(c.states[gid + 1], fresh, err, o)
    BY <2>5
  <2> HIDE DEF outcomes, err
  <2>7. CallMove(c, gid, fresh, r) /\ \E o \in outcomes : IsReplyOf(c, gid, 0, {}, o, r)
    BY <2>1, <2>2, <2>6, RepliesMove
  <2>8. PICK o \in outcomes : IsReplyOf(c, gid, 0, {}, o, r)
    BY <2>7
  <2>9. r.sdu = {} /\ \A x \in r.out : IsBuilt(c, gid, 0, r, x)
    BY <2>5, <2>8 DEF IsReplyOf, IsBuilt
  <2> QED BY <2>2, <2>7, <2>9
<1> QED BY <1>1, <1>2

----------------------------------------------------------------------------
(* The messages built verify *)

\* What VerifiesAt says, of any states of the Groups and any GID.
Verifies(states, gid, sid, pdu) ==
    LET h == HeaderUnpack(Type, pdu.header)
    IN  /\ ReceivedGenericMsgErr(Type, pdu, FALSE, sid) = "OK"
        /\ h.sid = ServerSid
        /\ h.gid = gid
        /\ pdu.len \in HeaderLen(Type) + MetadataLen(h.pty) .. MaxCanFdDataLen
        /\ h.pty \in {REN, RES, SADFD, UAD}
        /\ h.pty = RES /\ pdu.client = sid =>
                pdu.tag = ResTag(100 + sid, h, pdu.ctrnonce, 1, sid)
        /\ h.pty = REN => pdu.tag = RenTag(states[h.gid + 1].previousStk, h, pdu.ctrnonce)
        /\ h.pty = SADFD =>
                pdu.tag = SadfdTag(states[h.gid + 1].currentStk, h, pdu.ctrnonce, pdu.ptlen)

\* From the header once unpacked.
LEMMA VerifiesByHeader ==
    ASSUME NEW states, NEW gid, NEW sid, NEW pdu, NEW h, HeaderUnpack(Type, pdu.header) = h,
           ReceivedGenericMsgErr(Type, pdu, FALSE, sid) = "OK",
           h.gid = gid, h.sid = ServerSid, h.pty \in {REN, RES, SADFD, UAD},
           pdu.len \in HeaderLen(Type) + MetadataLen(h.pty) .. MaxCanFdDataLen,
           h.pty = RES /\ pdu.client = sid =>
                pdu.tag = ResTag(100 + sid, h, pdu.ctrnonce, 1, sid),
           h.pty = REN => pdu.tag = RenTag(states[gid + 1].previousStk, h, pdu.ctrnonce),
           h.pty = SADFD =>
                pdu.tag = SadfdTag(states[gid + 1].currentStk, h, pdu.ctrnonce, pdu.ptlen)
    PROVE  Verifies(states, gid, sid, pdu)
<1>1. HeaderUnpack(Type, pdu.header).gid = gid
  OBVIOUS
<1> QED BY <1>1, Zenon DEF Verifies

LEMMA VerifiesIsVerifiesAt ==
    ASSUME NEW sid, NEW pdu, Verifies(ctx.states, last.gid, sid, pdu)
    PROVE  VerifiesAt(sid, pdu)
BY DEF Verifies, VerifiesAt, REN, RES, SADFD, UAD

\* The Server's SID is 0, which even type 1 unpacks as it was packed; type 2
\* does not unpack GIDs so.
ServerTypes == {0, 1, 3, 4, 5, 6}

LEMMA ServerHeaderSurvives ==
    ASSUME Type \in ServerTypes, NEW gid \in 0 .. HeaderTypeMaxGid(Type), NEW pty \in Ptys
    PROVE  HeaderUnpack(Type, HeaderPack(Type, Header(gid, ServerSid, pty)))
              = Header(gid, ServerSid, pty)
<1>1. CASE Type = 1
  <2>1. pty \in 0 .. 7 /\ pty % 8 = pty /\ pty \div 8 = 0
    BY DEF Ptys, REN, RES, REQ, SADFD, UAD
  <2>2. HeaderPack(1, Header(gid, ServerSid, pty)) = <<gid, pty>>
    BY <2>1 DEF HeaderPack, Header, ServerSid
  <2> QED BY <1>1, <2>1, <2>2 DEF HeaderUnpack, ServerSid
<1>2. CASE Type # 1
  <2>1. Type \in SoundTypes /\ ServerSid \in 0 .. HeaderTypeMaxSid(Type)
    BY <1>2 DEF ServerTypes, SoundTypes, ServerSid, HeaderTypeMaxSid
  <2> QED BY <2>1, RoundTrip
<1> QED BY <1>1, <1>2

\* What all messages of the Server pass at a Client.
LEMMA ServerPduIsReadable ==
    ASSUME Type \in ServerTypes, NEW gid \in 0 .. HeaderTypeMaxGid(Type), NEW pty \in Ptys,
           NEW n \in Nat, HeaderLen(Type) + MetadataLen(pty) + n <= MaxCanFdDataLen,
           NEW sid \in 1 .. 3, NEW pdu,
           pdu.header = PduOf(Type, Header(gid, ServerSid, pty), n).header,
           pdu.len = PduOf(Type, Header(gid, ServerSid, pty), n).len
    PROVE  /\ HeaderUnpack(Type, pdu.header) = Header(gid, ServerSid, pty)
           /\ ReceivedGenericMsgErr(Type, pdu, FALSE, sid) = "OK"
           /\ pdu.len \in HeaderLen(Type) + MetadataLen(pty) .. MaxCanFdDataLen
<1> DEFINE h == Header(gid, ServerSid, pty)
<1>1. h.pty = pty /\ h.sid = 0
  BY DEF Header, ServerSid
<1>2. /\ pdu.header = HeaderPack(Type, h)
      /\ pdu.len = HeaderLen(Type) + MetadataLen(pty) + n
  BY <1>1 DEF PduOf, Pdu
<1>3. HeaderLen(Type) \in Nat /\ MetadataLen(pty) \in Nat /\ MaxCanFdDataLen \in Nat
  BY TypeAssumption
  DEF HeaderLen, MetadataLen, Ptys, REN, RES, REQ, SADFD, UAD, MaxCanFdDataLen
<1>4. HeaderUnpack(Type, pdu.header) = h
  BY <1>2, ServerHeaderSurvives
<1>5. ~(pdu.len < HeaderLen(Type)) /\ pdu.len \in Nat
  BY <1>2, <1>3
<1>6. ReceivedGenericMsgErr(Type, pdu, FALSE, sid) = "OK"
  BY <1>1, <1>4, <1>5, ThreeChecks DEF ReceivedGenericMsgErr, Check
<1>7. pdu.len \in HeaderLen(Type) + MetadataLen(pty) .. MaxCanFdDataLen
  BY <1>2, <1>3
<1> QED BY <1>4, <1>6, <1>7

\* Whatever the Server builds for a Group, with the keys of that Group.
LEMMA ServerPduVerifies ==
    ASSUME Type \in ServerTypes, HeaderTypeMaxGid(Type) >= 1, NEW c, IsContext(c),
           NEW gid \in 0 .. 1, NEW ptlen \in Nat,
           HeaderLen(Type) + MetadataLen(SADFD) + ptlen <= MaxCanFdDataLen,
           NEW states, NEW m,
           IsOfGroup(m, states[gid + 1]) \/ (m.pty = "RES" /\ m.client \in 1 .. 3 /\ m.reqnonce = 1),
           NEW sid \in 1 .. 3
    PROVE  Verifies(states, gid, sid, ServerPdu(c, gid, m, ptlen))
<1> DEFINE pdu == ServerPdu(c, gid, m, ptlen)
<1>1. gid \in 0 .. HeaderTypeMaxGid(Type)
  BY TypeAssumption DEF HeaderTypeMaxGid
<1>2. /\ HeaderLen(Type) \in 1 .. 3
      /\ MetadataLen(REN) = 19 /\ MetadataLen(RES) = 44 /\ MaxCanFdDataLen = 64
  BY TypeAssumption
  DEF HeaderLen, MetadataLen, REN, RES, REQ, SADFD, UAD, MaxCanFdDataLen
<1>3. c.headerType = Type /\ \A client \in 1 .. 3 : c.clients[client].ltk = 100 + client
  BY DEF IsContext
<1>4. CASE m.pty = "REN" /\ m.stk = states[gid + 1].previousStk
  <2> DEFINE h == Header(gid, ServerSid, REN)
  <2>1. h.gid = gid /\ h.sid = ServerSid /\ h.pty = REN
    BY DEF Header
  <2>2. pdu = [PduOf(Type, h, 0) EXCEPT !.ctrnonce = m.ctrnonce,
                                        !.tag = RenTag(m.stk, h, m.ctrnonce)]
    BY <1>3, <1>4 DEF ServerPdu, ServerRenPdu
  <2>3. /\ pdu.header = PduOf(Type, h, 0).header /\ pdu.len = PduOf(Type, h, 0).len
        /\ pdu.ctrnonce = m.ctrnonce /\ pdu.tag = RenTag(m.stk, h, m.ctrnonce)
    BY <2>2 DEF PduOf, Pdu
  <2> HIDE DEF pdu
  <2>4. /\ HeaderUnpack(Type, pdu.header) = h
        /\ ReceivedGenericMsgErr(Type, pdu, FALSE, sid) = "OK"
        /\ pdu.len \in HeaderLen(Type) + MetadataLen(REN) .. MaxCanFdDataLen
    <3>1. HeaderLen(Type) + MetadataLen(REN) + 0 <= MaxCanFdDataLen
      BY <1>2
    <3> QED BY <1>1, <2>3, <3>1, ServerPduIsReadable DEF Ptys
  <2> HIDE DEF h
  <2>5. Verifies(states, gid, sid, pdu)
    <3>1. RES # REN /\ SADFD # REN
      BY DEF REN, RES, SADFD
    <3>2. pdu.len \in HeaderLen(Type) + MetadataLen(h.pty) .. MaxCanFdDataLen
      BY <2>1, <2>4
    <3>3. pdu.tag = RenTag(states[gid + 1].previousStk, h, pdu.ctrnonce)
      BY <1>4, <2>3
    <3> QED BY <2>1, <2>4, <3>1, <3>2, <3>3, VerifiesByHeader
  <2> QED BY <2>5 DEF pdu
<1>5. CASE m.pty = "SADFD" /\ m.stk = states[gid + 1].currentStk
  <2> DEFINE h == Header(gid, ServerSid, SADFD)
  <2>1. h.gid = gid /\ h.sid = ServerSid /\ h.pty = SADFD
    BY DEF Header
  <2>2. pdu = [PduOf(Type, h, ptlen) EXCEPT !.ctrnonce = m.ctrnonce, !.ptlen = ptlen,
                                            !.tag = SadfdTag(m.stk, h, m.ctrnonce, ptlen)]
    BY <1>3, <1>5 DEF ServerPdu, ServerSadfdPdu
  <2>3. /\ pdu.header = PduOf(Type, h, ptlen).header /\ pdu.len = PduOf(Type, h, ptlen).len
        /\ pdu.ctrnonce = m.ctrnonce /\ pdu.ptlen = ptlen
        /\ pdu.tag = SadfdTag(m.stk, h, m.ctrnonce, ptlen)
    BY <2>2 DEF PduOf, Pdu
  <2> HIDE DEF pdu
  <2>4. /\ HeaderUnpack(Type, pdu.header) = h
        /\ ReceivedGenericMsgErr(Type, pdu, FALSE, sid) = "OK"
        /\ pdu.len \in HeaderLen(Type) + MetadataLen(SADFD) .. MaxCanFdDataLen
    BY <1>1, <2>3, ServerPduIsReadable DEF Ptys
  <2> HIDE DEF h
  <2>5. Verifies(states, gid, sid, pdu)
    <3>1. REN # SADFD /\ RES # SADFD
      BY DEF REN, RES, SADFD
    <3>2. pdu.len \in HeaderLen(Type) + MetadataLen(h.pty) .. MaxCanFdDataLen
      BY <2>1, <2>4
    <3>3. pdu.tag = SadfdTag(states[gid + 1].currentStk, h, pdu.ctrnonce, pdu.ptlen)
      BY <1>5, <2>3
    <3> QED BY <2>1, <2>4, <3>1, <3>2, <3>3, VerifiesByHeader
  <2> QED BY <2>5 DEF pdu
<1>6. CASE m.pty = "RES" /\ m.client \in 1 .. 3 /\ m.reqnonce = 1
  <2> DEFINE h == Header(gid, ServerSid, RES)
  <2>1. h.gid = gid /\ h.sid = ServerSid /\ h.pty = RES
    BY DEF Header
  <2>2. pdu = [PduOf(Type, h, 0) EXCEPT
                  !.client = m.client, !.ctrnonce = m.ctrnonce, !.stk = m.stk,
                  !.tag = ResTag(c.clients[m.client].ltk, h, m.ctrnonce, m.reqnonce, m.client)]
    BY <1>3, <1>6 DEF ServerPdu, ServerResPdu
  <2>3. /\ pdu.header = PduOf(Type, h, 0).header /\ pdu.len = PduOf(Type, h, 0).len
        /\ pdu.ctrnonce = m.ctrnonce /\ pdu.client = m.client
        /\ pdu.tag = ResTag(100 + m.client, h, m.ctrnonce, 1, m.client)
    BY <1>3, <1>6, <2>2 DEF PduOf, Pdu
  <2> HIDE DEF pdu
  <2>4. /\ HeaderUnpack(Type, pdu.header) = h
        /\ ReceivedGenericMsgErr(Type, pdu, FALSE, sid) = "OK"
        /\ pdu.len \in HeaderLen(Type) + MetadataLen(RES) .. MaxCanFdDataLen
    <3>1. HeaderLen(Type) + MetadataLen(RES) + 0 <= MaxCanFdDataLen
      BY <1>2
    <3> QED BY <1>1, <2>3, <3>1, ServerPduIsReadable DEF Ptys
  <2> HIDE DEF h
  <2>5. Verifies(states, gid, sid, pdu)
    <3>1. REN # RES /\ SADFD # RES
      BY DEF REN, RES, SADFD
    <3>2. pdu.len \in HeaderLen(Type) + MetadataLen(h.pty) .. MaxCanFdDataLen
      BY <2>1, <2>4
    <3>3. pdu.client = sid => pdu.tag = ResTag(100 + sid, h, pdu.ctrnonce, 1, sid)
      BY <1>6, <2>3
    <3> QED BY <2>1, <2>4, <3>1, <3>2, <3>3, VerifiesByHeader
  <2> QED BY <2>5 DEF pdu
<1> QED BY <1>4, <1>5, <1>6 DEF IsOfGroup

\* User data is not protected.
LEMMA UnsecuredPduVerifies ==
    ASSUME Type \in ServerTypes, NEW gid \in Nat, gid <= HeaderTypeMaxGid(Type), NEW n \in Nat,
           HeaderLen(Type) + n <= MaxCanFdDataLen, NEW states, NEW sid \in 1 .. 3
    PROVE  Verifies(states, gid, sid, PduOf(Type, Header(gid, ServerSid, UAD), n))
<1> DEFINE h == Header(gid, ServerSid, UAD)
           pdu == PduOf(Type, h, n)
<1>1. h.gid = gid /\ h.sid = ServerSid /\ h.pty = UAD
  BY DEF Header
<1>2. MetadataLen(UAD) = 0 /\ HeaderLen(Type) \in Nat /\ HeaderTypeMaxGid(Type) \in Nat
  BY TypeAssumption DEF HeaderLen, HeaderTypeMaxGid, MetadataLen, REN, RES, REQ, SADFD, UAD
<1>3. /\ HeaderUnpack(Type, pdu.header) = h
      /\ ReceivedGenericMsgErr(Type, pdu, FALSE, sid) = "OK"
      /\ pdu.len \in HeaderLen(Type) + MetadataLen(UAD) .. MaxCanFdDataLen
  <2>1. HeaderLen(Type) + MetadataLen(UAD) + n <= MaxCanFdDataLen
    BY <1>2
  <2>2. gid \in 0 .. HeaderTypeMaxGid(Type)
    BY <1>2
  <2> QED BY <2>1, <2>2, ServerPduIsReadable DEF Ptys
<1> HIDE DEF h, pdu
<1>4. Verifies(states, gid, sid, pdu)
  <2>1. REN # UAD /\ RES # UAD /\ SADFD # UAD
    BY DEF REN, RES, SADFD, UAD
  <2>2. pdu.len \in HeaderLen(Type) + MetadataLen(h.pty) .. MaxCanFdDataLen
    BY <1>1, <1>3
  <2> QED BY <1>1, <1>3, <2>1, <2>2, VerifiesByHeader
<1> QED BY <1>4 DEF pdu, h

----------------------------------------------------------------------------
(* Keys *)

KeysOf(g) == {g.currentStk, g.previousStk}

\* Keys are among the first n drawn, and those of the two Groups apart.
KeysApart(c, n) ==
    /\ \A i \in 1 .. 2 : \A k \in KeysOf(c.states[i]) : k <= n
    /\ \A k \in KeysOf(c.states[1]) \cap KeysOf(c.states[2]) : k = 0

\* How many keys were drawn when c is the context, n before.
DrawnAfter(c, n) ==
    LET keys == {n} \cup {c.states[i].currentStk : i \in 1 .. 2}
    IN  CHOOSE k \in keys : \A l \in keys : l <= k

LEMMA LargestKey ==
    ASSUME NEW c, IsContext(c), NEW n \in Nat
    PROVE  /\ DrawnAfter(c, n) \in {n, c.states[1].currentStk, c.states[2].currentStk}
           /\ DrawnAfter(c, n) \in Nat
           /\ n <= DrawnAfter(c, n)
           /\ \A i \in 1 .. 2 : c.states[i].currentStk <= DrawnAfter(c, n)
<1> DEFINE a == c.states[1].currentStk
           b == c.states[2].currentStk
           keys == {n} \cup {c.states[i].currentStk : i \in 1 .. 2}
<1>1. a \in Nat /\ b \in Nat
  BY DEF IsContext, IsGroup
<1>2. keys = {n, a, b}
  OBVIOUS
<1>3. DrawnAfter(c, n) = CHOOSE k \in keys : \A l \in keys : l <= k
  BY DEF DrawnAfter
<1> HIDE DEF keys, a, b
<1>4. \E k \in keys : \A l \in keys : l <= k
  <2>1. CASE n >= a /\ n >= b
    BY <1>1, <1>2, <2>1
  <2>2. CASE a >= n /\ a >= b
    BY <1>1, <1>2, <2>2
  <2>3. CASE b >= n /\ b >= a
    BY <1>1, <1>2, <2>3
  <2> QED BY <1>1, <2>1, <2>2, <2>3
<1>5. DrawnAfter(c, n) \in keys /\ \A l \in keys : l <= DrawnAfter(c, n)
  BY <1>3, <1>4
<1> QED BY <1>1, <1>2, <1>5 DEF a, b

\* A fresh key is of one Group only.
LEMMA MoveKeepsKeysApart ==
    ASSUME NEW c, IsContext(c), NEW n \in Nat, KeysApart(c, n), NEW gid \in Nat,
           NEW r, CallMove(c, gid, n + 1, r)
    PROVE  KeysApart(r.ctx, DrawnAfter(r.ctx, n))
<1> DEFINE m == DrawnAfter(r.ctx, n)
           old == c.states
           new == r.ctx.states
<1>1. m \in Nat /\ n <= m /\ \A i \in 1 .. 2 : new[i].currentStk <= m
  BY LargestKey DEF CallMove
<1>2. \A i \in 1 .. 2 : IsGroup(old[i]) /\ IsGroup(new[i])
  BY DEF IsContext, CallMove
<1>3. \A i \in 1 .. 2 : /\ old[i].currentStk \in Nat /\ old[i].previousStk \in Nat
                        /\ new[i].currentStk \in Nat /\ new[i].previousStk \in Nat
  BY <1>2 DEF IsGroup
<1>4. \A i \in 1 .. 2 : IF i = gid + 1
                        THEN /\ new[i].currentStk \in {old[i].currentStk, 0, n + 1}
                             /\ new[i].previousStk \in {old[i].previousStk, old[i].currentStk, 0}
                        ELSE new[i] = old[i]
  BY DEF CallMove, KeysMove
<1>5. \A i \in 1 .. 2 : old[i].currentStk <= n /\ old[i].previousStk <= n
  BY DEF KeysApart, KeysOf
<1> HIDE DEF m, old, new
<1>6. \A i \in 1 .. 2 : new[i].previousStk <= m
  BY <1>1, <1>3, <1>4, <1>5
<1>7. \A k \in KeysOf(old[1]) \cap KeysOf(old[2]) : k = 0
  BY DEF KeysApart, old
<1>8. \A k \in KeysOf(new[1]) \cap KeysOf(new[2]) : k = 0
  <2>1. CASE gid = 0
    BY <1>3, <1>4, <1>5, <1>7, <2>1 DEF KeysOf
  <2>2. CASE gid = 1
    BY <1>3, <1>4, <1>5, <1>7, <2>2 DEF KeysOf
  <2>3. CASE gid \notin 0 .. 1
    BY <1>4, <1>7, <2>3
  <2> QED BY <2>1, <2>2, <2>3
<1> QED BY <1>1, <1>6, <1>8 DEF KeysApart, KeysOf, m, new

----------------------------------------------------------------------------
(* Initialisation *)

\* The fields that hzl_ServerInit gives a Group's state in the reply, whether
\* it succeeds, fails at a Group, or leaves that one half renewed.
LEMMA StartedGroup ==
    ASSUME NEW c, NEW i, NEW now, NEW stk \in Nat
    PROVE  LET g == Session(c, i)!ServerStartedSession(now, stk)
           IN  /\ IsGroup(g)
               /\ g.currentStk = stk /\ g.previousStk = 0
               /\ g.sessionStartInstant = g.currentRxLastMessageInstant
BY DEF Session!ServerStartedSession, Session!NoStk, IsGroup

\* A Group keeps its keys or gets its own fresh one.
InitMove(c, freshOf, r) ==
    /\ IsContext(r.ctx)
    /\ \A i \in 1 .. 2 : KeysMove(c.states[i], freshOf[i], r.ctx.states[i])
    /\ r.out = {} /\ r.sdu = {}
    /\ r.err = "OK" => \A i \in 1 .. 2 :
            /\ r.ctx.states[i].currentStk = freshOf[i]
            /\ r.ctx.states[i].previousStk = 0
            /\ r.ctx.states[i].sessionStartInstant = r.ctx.states[i].currentRxLastMessageInstant

\* A reply of hzl_ServerInit that gave each Group a state.
LEMMA InitReplyMove ==
    ASSUME NEW c, IsContext(c), NEW freshOf, NEW states, DOMAIN states = 1 .. 2,
           \A i \in 1 .. 2 : KeysMove(c.states[i], freshOf[i], states[i]),
           NEW err \in {"OK", "FAILED"},
           err = "OK" => \A i \in 1 .. 2 :
                /\ states[i].currentStk = freshOf[i] /\ states[i].previousStk = 0
                /\ states[i].sessionStartInstant = states[i].currentRxLastMessageInstant,
           NEW r, r = Reply(err, [c EXCEPT !.states = states], {}, {})
    PROVE  InitMove(c, freshOf, r)
<1>1. /\ r.err = err /\ r.out = {} /\ r.sdu = {}
      /\ r.ctx = [c EXCEPT !.states = states]
  BY DEF Reply
<1>2. r.ctx.states = states
  BY <1>1 DEF IsContext
<1>3. \A i \in 1 .. 2 : IsGroup(states[i])
  BY DEF KeysMove
<1>4. IsContext(r.ctx)
  BY <1>1, <1>3 DEF IsContext
<1> QED BY <1>1, <1>2, <1>4 DEF InitMove

LEMMA StartAllMove ==
    ASSUME NEW c, IsContext(c), NEW freshOf, freshOf[1] \in Nat, freshOf[2] \in Nat, NEW now,
           NEW r \in ServerInitStartAllSessions(c, now, freshOf)
    PROVE  InitMove(c, freshOf, r)
<1> DEFINE started(i) == Session(c, i)!ServerStartedSession(now, freshOf[i])
           begun(k) == [i \in DOMAIN c.states |-> IF i < k THEN started(i) ELSE c.states[i]]
           half(k, stk) == [begun(k) EXCEPT ![k] =
                                [started(k) EXCEPT !.currentStk = stk,
                                                   !.previousStk = c.states[k].previousStk]]
<1>1. c.amountOfGroups = 2 /\ DOMAIN c.states = 1 .. 2 /\ \A i \in 1 .. 2 : IsGroup(c.states[i])
  BY DEF IsContext
<1>2. \A i \in 1 .. 2 :
        /\ IsGroup(started(i))
        /\ started(i).currentStk = freshOf[i] /\ started(i).previousStk = 0
        /\ started(i).sessionStartInstant = started(i).currentRxLastMessageInstant
  <2>1. ASSUME NEW i, freshOf[i] \in Nat
        PROVE  /\ IsGroup(started(i))
               /\ started(i).currentStk = freshOf[i] /\ started(i).previousStk = 0
               /\ started(i).sessionStartInstant = started(i).currentRxLastMessageInstant
    BY <2>1, StartedGroup
  <2> QED BY <2>1
<1>3. \/ r = Reply("OK", [c EXCEPT !.states = begun(3)], {}, {})
      \/ \E k \in 1 .. 2 : r = Reply("FAILED", [c EXCEPT !.states = begun(k)], {}, {})
      \/ \E k \in 1 .. 2 : \E draw \in Session(c, k)!NonZeroTrng(c.states[k].currentStk, freshOf[k]) :
            r = Reply("FAILED", [c EXCEPT !.states = half(k, draw.stk)], {}, {})
  <2> DEFINE all == {Reply("OK", [c EXCEPT !.states = begun(c.amountOfGroups + 1)], {}, {})}
             stopped == {Reply("FAILED", [c EXCEPT !.states = begun(k)], {}, {}) :
                            k \in IF "currentTime" \in c.faults THEN 1 .. c.amountOfGroups ELSE {}}
             halfWay(k) == {Reply("FAILED", [c EXCEPT !.states = half(k, draw.stk)], {}, {}) :
                            draw \in {d \in Session(c, k)!NonZeroTrng(c.states[k].currentStk, freshOf[k]) :
                                            ~d.ok}}
  <2>1. r \in all \cup stopped \cup UNION {halfWay(k) : k \in 1 .. c.amountOfGroups}
    BY DEF ServerInitStartAllSessions
  <2> HIDE DEF begun, half
  <2>2. r \in all \/ r \in stopped \/ \E k \in 1 .. c.amountOfGroups : r \in halfWay(k)
    <3> HIDE DEF all, stopped, halfWay
    <3> QED BY <2>1
  <2>3. CASE r \in all
    BY <1>1, <2>3
  <2>4. CASE r \in stopped
    <3>1. PICK k \in IF "currentTime" \in c.faults THEN 1 .. c.amountOfGroups ELSE {} :
            r = Reply("FAILED", [c EXCEPT !.states = begun(k)], {}, {})
      BY <2>4
    <3>2. k \in 1 .. 2
      BY <1>1
    <3> QED BY <3>1, <3>2
  <2>5. ASSUME NEW k \in 1 .. c.amountOfGroups, r \in halfWay(k)
        PROVE  \E draw \in Session(c, k)!NonZeroTrng(c.states[k].currentStk, freshOf[k]) :
                    r = Reply("FAILED", [c EXCEPT !.states = half(k, draw.stk)], {}, {})
    BY <2>5, Zenon
  <2> HIDE DEF all, stopped, halfWay
  <2> QED BY <1>1, <2>2, <2>3, <2>4, <2>5
<1> HIDE DEF started
<1>4. \A k \in 1 .. 3 :
        /\ DOMAIN begun(k) = 1 .. 2
        /\ \A i \in 1 .. 2 : begun(k)[i] = IF i < k THEN started(i) ELSE c.states[i]
        /\ \A i \in 1 .. 2 : KeysMove(c.states[i], freshOf[i], begun(k)[i])
  BY <1>1, <1>2 DEF KeysMove
<1> HIDE DEF begun
<1>5. CASE r = Reply("OK", [c EXCEPT !.states = begun(3)], {}, {})
  <2>1. \A i \in 1 .. 2 : begun(3)[i] = started(i)
    BY <1>4
  <2> QED BY <1>2, <1>4, <1>5, <2>1, InitReplyMove
<1>6. ASSUME NEW k \in 1 .. 2, r = Reply("FAILED", [c EXCEPT !.states = begun(k)], {}, {})
      PROVE  InitMove(c, freshOf, r)
  BY <1>4, <1>6, InitReplyMove
<1>7. ASSUME NEW k \in 1 .. 2,
             NEW draw \in Session(c, k)!NonZeroTrng(c.states[k].currentStk, freshOf[k]),
             r = Reply("FAILED", [c EXCEPT !.states = half(k, draw.stk)], {}, {})
      PROVE  InitMove(c, freshOf, r)
  <2> DEFINE g == [started(k) EXCEPT !.currentStk = draw.stk,
                                     !.previousStk = c.states[k].previousStk]
  <2>1. draw.stk \in {c.states[k].currentStk, 0, freshOf[k]}
    BY DEF Session!NonZeroTrng, Session!NoStk
  <2>2. draw.stk \in Nat
    BY <1>1, <2>1 DEF IsGroup
  <2>3. IsGroup(g) /\ g.currentStk = draw.stk /\ g.previousStk = c.states[k].previousStk
    BY <1>1, <1>2, <2>2 DEF IsGroup
  <2>4. KeysMove(c.states[k], freshOf[k], g)
    BY <2>1, <2>3 DEF KeysMove
  <2> HIDE DEF g
  <2>5. /\ DOMAIN half(k, draw.stk) = 1 .. 2
        /\ \A i \in 1 .. 2 : KeysMove(c.states[i], freshOf[i], half(k, draw.stk)[i])
    BY <1>4, <2>4 DEF g
  <2> HIDE DEF half
  <2> QED BY <1>7, <2>5, InitReplyMove
<1> QED BY <1>3, <1>5, <1>6, <1>7

\* Two Groups on a header type that has one GID only are refused.
LEMMA InitMoveAndType ==
    ASSUME NEW c, IsContext(c), NEW freshOf, freshOf[1] \in Nat, freshOf[2] \in Nat, NEW now,
           NEW r \in ServerInit(c, now, freshOf)
    PROVE  InitMove(c, freshOf, r) /\ (r.err = "OK" => HeaderTypeMaxGid(Type) >= 1)
<1>1. CASE ServerCheckCtx(c) # "OK"
  <2>1. r \in Refused(ServerCheckCtx(c), c)
    BY <1>1 DEF ServerInit
  <2>2. r.ctx = c /\ r.err # "OK" /\ r.out = {} /\ r.sdu = {}
    BY <1>1, <2>1 DEF Refused, Reply
  <2>3. \A i \in 1 .. 2 : KeysMove(c.states[i], freshOf[i], c.states[i])
    BY DEF IsContext, KeysMove
  <2> QED BY <2>2, <2>3 DEF InitMove
<1>2. CASE ServerCheckCtx(c) = "OK"
  <2>1. r \in ServerInitStartAllSessions(c, now, freshOf)
    BY <1>2 DEF ServerInit
  <2>2. ServerInitCheckServerConfig(c) = "OK"
    BY <1>2 DEF ServerCheckCtx
  <2>3. ~(2 > HeaderTypeMaxGid(Type) + 1)
    <3>1. c.amountOfGroups = 2 /\ c.headerType = Type
      BY DEF IsContext
    <3>2. Check(2 > HeaderTypeMaxGid(Type) + 1, "TOO_MANY_GROUPS_FOR_CONFIGURED_HEADER_TYPE") = "OK"
      BY <2>2, <3>1, FiveChecks DEF ServerInitCheckServerConfig
    <3> QED BY <3>2 DEF Check
  <2>4. HeaderTypeMaxGid(Type) \in Nat
    BY TypeAssumption DEF HeaderTypeMaxGid
  <2> QED BY <2>1, <2>3, <2>4, StartAllMove
<1> QED BY <1>1, <1>2

\* Fresh keys are of one Group each. Where all Groups were started, each has
\* one of the two keys drawn last.
LEMMA InitKeepsKeysApart ==
    ASSUME NEW c, IsContext(c), NEW n \in Nat, KeysApart(c, n),
           NEW freshOf, freshOf[1] = n + 1, freshOf[2] = n + 2, NEW r, InitMove(c, freshOf, r)
    PROVE  /\ KeysApart(r.ctx, DrawnAfter(r.ctx, n))
           /\ r.err = "OK" =>
                \A i \in 1 .. 2 : r.ctx.states[i].currentStk > DrawnAfter(r.ctx, n) - 2
<1> DEFINE m == DrawnAfter(r.ctx, n)
           old == c.states
           new == r.ctx.states
<1>1. /\ m \in Nat /\ n <= m /\ \A i \in 1 .. 2 : new[i].currentStk <= m
      /\ m \in {n, new[1].currentStk, new[2].currentStk}
  BY LargestKey DEF InitMove
<1>2. \A i \in 1 .. 2 : IsGroup(old[i]) /\ IsGroup(new[i])
  BY DEF IsContext, InitMove
<1>3. \A i \in 1 .. 2 : /\ old[i].currentStk \in Nat /\ old[i].previousStk \in Nat
                        /\ new[i].currentStk \in Nat /\ new[i].previousStk \in Nat
  BY <1>2 DEF IsGroup
<1>4. \A i \in 1 .. 2 : /\ new[i].currentStk \in {old[i].currentStk, 0, n + i}
                        /\ new[i].previousStk \in {old[i].previousStk, old[i].currentStk, 0}
  BY DEF InitMove, KeysMove
<1>5. \A i \in 1 .. 2 : old[i].currentStk <= n /\ old[i].previousStk <= n
  BY DEF KeysApart, KeysOf
<1>6. r.err = "OK" => new[1].currentStk = n + 1 /\ new[2].currentStk = n + 2
  BY DEF InitMove
<1>7. \A k \in KeysOf(old[1]) \cap KeysOf(old[2]) : k = 0
  BY DEF KeysApart
<1> HIDE DEF m, old, new
<1>8. \A i \in 1 .. 2 : new[i].previousStk <= m
  BY <1>1, <1>3, <1>4, <1>5
<1>9. \A k \in KeysOf(new[1]) \cap KeysOf(new[2]) : k = 0
  BY <1>3, <1>4, <1>5, <1>7 DEF KeysOf
<1>10. r.err = "OK" => \A i \in 1 .. 2 : new[i].currentStk > m - 2
  BY <1>1, <1>6
<1> QED BY <1>1, <1>8, <1>9, <1>10 DEF KeysApart, KeysOf, m, new

\* hzl_ServerDeInit zeroes the states.
LEMMA DeInitKeepsKeysApart ==
    ASSUME NEW c, IsContext(c), NEW n \in Nat, NEW r \in ServerDeInit(c)
    PROVE  /\ IsContext(r.ctx) /\ r.out = {} /\ r.sdu = {}
           /\ KeysApart(r.ctx, DrawnAfter(r.ctx, n))
<1>1. /\ IsGroup(ServerUnsetState)
      /\ ServerUnsetState.currentStk = 0 /\ ServerUnsetState.previousStk = 0
  BY DEF ServerUnsetState, IsGroup
<1>2. FirstError(<<Check("ctx" \in c.null, "NULL_CTX"),
                   Check("serverConfig" \in c.null, "NULL_CONFIG_SERVER"),
                   Check("groupStates" \in c.null, "NULL_STATES_GROUPS")>>) = "OK"
  BY ThreeChecks DEF IsContext, Check
<1> DEFINE states == [i \in DOMAIN c.states |->
                        IF i <= c.amountOfGroups THEN ServerUnsetState ELSE c.states[i]]
<1>3. r = Reply("OK", [c EXCEPT !.states = states], {}, {})
  BY <1>2 DEF ServerDeInit
<1>4. DOMAIN states = 1 .. 2 /\ states[1] = ServerUnsetState /\ states[2] = ServerUnsetState
  BY DEF IsContext
<1> HIDE DEF states
<1>5. /\ r.ctx = [c EXCEPT !.states = states] /\ r.out = {} /\ r.sdu = {}
      /\ r.ctx.states = states
  BY <1>3 DEF Reply, IsContext
<1>6. IsContext(r.ctx)
  BY <1>1, <1>4, <1>5 DEF IsContext
<1>7. DrawnAfter(r.ctx, n) \in Nat
  BY <1>6, LargestKey
<1> QED BY <1>1, <1>4, <1>5, <1>6, <1>7 DEF KeysApart, KeysOf

----------------------------------------------------------------------------
(* The messages received *)

LEMMA ReceivedGid ==
    ASSUME NEW gid \in Nat, NEW sid \in Nat, NEW pty \in 0 .. 7
    PROVE  HeaderUnpack(Type, HeaderPack(Type, Header(gid, sid, pty))).gid \in Nat
<1> DEFINE h == Header(gid, sid, pty)
           b == HeaderPack(Type, h)
<1>1. h.gid = gid /\ h.sid = sid /\ h.pty = pty
  BY DEF Header
<1>2. ASSUME NEW x \in Nat
      PROVE  x % 8 \in Nat /\ x % 4 \in Nat /\ x % 32 \in Nat /\ x % 256 \in Nat
             /\ x \div 8 \in Nat /\ x \div 32 \in Nat
  OBVIOUS
<1> HIDE DEF h
<1>3. CASE Type \in {0, 1}
  <2>1. HeaderUnpack(Type, b).gid = gid
    BY <1>1, <1>3 DEF HeaderPack, HeaderUnpack, Header
  <2> QED BY <2>1 DEF h
<1>4. CASE Type = 2
  <2> DEFINE x == (((gid % 32) * 32) % 256) + (pty % 8)
  <2>1. HeaderUnpack(Type, b).gid = x \div 8
    BY <1>1, <1>4 DEF HeaderPack, HeaderUnpack, Header
  <2>2. x \in Nat
    OBVIOUS
  <2> HIDE DEF x
  <2> QED BY <1>2, <2>1, <2>2 DEF h
<1>5. CASE Type = 3
  <2> DEFINE x == (gid % 8) * 32 + (sid % 4) * 8 + (pty % 8)
  <2>1. HeaderUnpack(Type, b).gid = x \div 32
    BY <1>1, <1>5 DEF HeaderPack, HeaderUnpack, Header
  <2>2. x \in Nat
    OBVIOUS
  <2> HIDE DEF x
  <2> QED BY <1>2, <2>1, <2>2 DEF h
<1>6. CASE Type = 4
  <2> DEFINE x == (sid % 8) * 32 + (gid % 4) * 8 + (pty % 8)
  <2>1. HeaderUnpack(Type, b).gid = (x \div 8) % 4
    BY <1>1, <1>6 DEF HeaderPack, HeaderUnpack, Header
  <2>2. x \in Nat
    OBVIOUS
  <2> HIDE DEF x
  <2> QED BY <1>2, <2>1, <2>2 DEF h
<1>7. CASE Type \in {5, 6}
  <2>1. HeaderUnpack(Type, b).gid = 0
    BY <1>7 DEF HeaderUnpack, Header
  <2> QED BY <2>1 DEF h
<1> QED BY <1>3, <1>4, <1>5, <1>6, <1>7, TypeAssumption

\* A tag computed for the other Group is never that of the header as it is
\* unpacked, not even where the format does not return what was packed.
LEMMA OtherGidIsSeen ==
    ASSUME HeaderTypeMaxGid(Type) >= 1, NEW gid \in 0 .. 1, NEW sid \in 1 .. 2
    PROVE  HeaderUnpack(Type, HeaderPack(Type, Header(gid, sid, SADFD)))
              # [Header(gid, sid, SADFD) EXCEPT !.gid = 1 - Header(gid, sid, SADFD).gid]
<1> DEFINE h == Header(gid, sid, SADFD)
           other == [h EXCEPT !.gid = 1 - h.gid]
           u == HeaderUnpack(Type, HeaderPack(Type, h))
<1>1. /\ h.gid = gid /\ h.sid = sid /\ h.pty = 4
      /\ other.gid = 1 - gid /\ other.sid = sid
  BY DEF Header, SADFD
<1>2. Type \in {0, 1, 2, 3, 4}
  BY TypeAssumption DEF HeaderTypeMaxGid
<1>3. CASE Type \in {0, 3, 4}
  <2>1. /\ Type \in SoundTypes /\ gid \in 0 .. HeaderTypeMaxGid(Type)
        /\ sid \in 0 .. HeaderTypeMaxSid(Type)
    BY <1>3 DEF SoundTypes, HeaderTypeMaxGid, HeaderTypeMaxSid
  <2>2. u = h
    BY <2>1, RoundTrip DEF Ptys
  <2>3. gid # 1 - gid
    OBVIOUS
  <2> HIDE DEF u
  <2> QED BY <1>1, <2>2, <2>3 DEF u
<1>4. CASE Type = 1
  <2>1. u.sid = ((((sid % 32) * 32) % 256) + 4) \div 8
    <3> DEFINE x == (((sid % 32) * 32) % 256) + 4
    <3>1. 4 % 8 = 4
      OBVIOUS
    <3> HIDE DEF h
    <3>2. HeaderPack(1, h) = <<gid, x>>
      BY <1>1, <3>1 DEF HeaderPack
    <3> HIDE DEF x
    <3>3. HeaderUnpack(1, <<gid, x>>).sid = x \div 8
      BY DEF HeaderUnpack, Header
    <3>4. u = HeaderUnpack(1, <<gid, x>>)
      BY <1>4, <3>2
    <3> HIDE DEF u
    <3>5. u.sid = x \div 8
      BY <3>3, <3>4
    <3> QED BY <3>5 DEF x
  <2>2. ((((sid % 32) * 32) % 256) + 4) \div 8 = 4 * sid
    OBVIOUS
  <2> HIDE DEF u, other, h
  <2>3. u # other
    BY <1>1, <2>1, <2>2
  <2> QED BY <2>3 DEF u, other, h
<1>5. CASE Type = 2
  <2>1. u.gid = ((((gid % 32) * 32) % 256) + 4) \div 8
    <3> DEFINE x == (((gid % 32) * 32) % 256) + 4
    <3>1. 4 % 8 = 4
      OBVIOUS
    <3> HIDE DEF h
    <3>2. HeaderPack(2, h) = <<sid, x>>
      BY <1>1, <3>1 DEF HeaderPack
    <3> HIDE DEF x
    <3>3. HeaderUnpack(2, <<sid, x>>).gid = x \div 8
      BY DEF HeaderUnpack, Header
    <3>4. u = HeaderUnpack(2, <<sid, x>>)
      BY <1>5, <3>2
    <3> HIDE DEF u
    <3>5. u.gid = x \div 8
      BY <3>3, <3>4
    <3> QED BY <3>5 DEF x
  <2>2. ((((gid % 32) * 32) % 256) + 4) \div 8 = 4 * gid
    OBVIOUS
  <2> HIDE DEF u, other, h
  <2>3. u # other
    BY <1>1, <2>1, <2>2
  <2> QED BY <2>3 DEF u, other, h
<1> QED BY <1>2, <1>3, <1>4, <1>5

\* A tag tells which message it is of, and with which header.
LEMMA TagsTell ==
    ASSUME NEW k, NEW h, NEW n, NEW ptlen
    PROVE  /\ SadfdTag(k, h, n, ptlen).label = "SADFD" /\ SadfdTag(k, h, n, ptlen).h = h
           /\ ReqTag(k, h, n).label = "REQ"
           /\ NoTag.label = "none"
BY DEF SadfdTag, ReqTag, NoTag, Tag

----------------------------------------------------------------------------
(* The inductive invariant *)

\* The context keeps its configuration, the Groups their keys apart, and two
\* Groups are only ever initialised where headers have two GIDs.
CtxInv ==
    /\ IsContext(ctx)
    /\ drawn \in Nat
    /\ KeysApart(ctx, drawn)
    /\ IsInitialised => HeaderTypeMaxGid(Type) >= 1

\* Type 2 does not return the GIDs that were packed.
SentVerifies ==
    Type # 2 => \A pdu \in last.out : \A sid \in 1 .. 3 :
                    Verifies(ctx.states, last.gid, sid, pdu)

IInv == CtxInv /\ AnsweredOrRefused /\ DataIsOfAMember /\ AllStarted /\ SentVerifies

\* User data is of a member of the Group, if anyone authenticated it for it.
IsGenuine(c, gid, genuine, sdu) ==
    sdu.wasSecured => /\ genuine
                      /\ sdu.gid = gid /\ gid \in 0 .. 1
                      /\ sdu.sid \in c.groups[gid + 1].sids

\* A reply, of the context c after n keys were drawn, to a call about a Group.
IsGood(c, n, gid, genuine, r) ==
    /\ CallMove(c, gid, n + 1, r)
    /\ \A sdu \in r.sdu : IsGenuine(c, gid, genuine, sdu)
    /\ Type # 2 => \A pdu \in r.out : \A sid \in 1 .. 3 :
                        Verifies(r.ctx.states, gid, sid, pdu)

\* Groups are separate, in a step.
OthersAlone ==
    last'.call \notin {"Init", "DeInit"} =>
        \A i \in 1 .. 2 : i # last'.gid + 1 => ctx'.states[i] = ctx.states[i]

NoSharedKey(c) ==
    \A stk \in 1 .. MaxStk :
        \E i \in 1 .. 2 : stk \notin {c.states[i].currentStk, c.states[i].previousStk}

LEMMA ApartIsNotShared ==
    ASSUME NEW c, NEW n, KeysApart(c, n)
    PROVE  NoSharedKey(c)
<1> SUFFICES ASSUME NEW stk \in 1 .. MaxStk
             PROVE  \E i \in 1 .. 2 : stk \notin KeysOf(c.states[i])
  BY DEF NoSharedKey, KeysOf
<1>1. stk \notin KeysOf(c.states[1]) \cap KeysOf(c.states[2])
  BY BoundsAssumption DEF KeysApart
<1> QED BY <1>1

\* Any call but hzl_ServerInit and hzl_ServerDeInit.
LEMMA CalledStep ==
    ASSUME CtxInv, IsInitialised, NEW name,
           name \in {"ProcessReceived", "BuildSecuredFd", "BuildUnsecured", "ForceSessionRenewal"},
           NEW gid \in Nat, NEW genuine, NEW replies, Called(name, gid, genuine, replies),
           \A r \in replies : IsGood(ctx, drawn, gid, genuine, r)
    PROVE  IInv' /\ OthersAlone
<1>1. PICK r \in replies :
        /\ ctx' = r.ctx
        /\ last' = [call |-> name, gid |-> gid, genuine |-> genuine,
                    err |-> r.err, out |-> r.out, sdu |-> r.sdu]
        /\ drawn' = DrawnAfter(r.ctx, drawn)
  BY DEF Called, DrawnAfter
<1>2. /\ last'.call = name /\ last'.gid = gid /\ last'.genuine = genuine
      /\ last'.err = r.err /\ last'.out = r.out /\ last'.sdu = r.sdu
  BY <1>1
<1>3. /\ CallMove(ctx, gid, drawn + 1, r)
      /\ \A sdu \in r.sdu : IsGenuine(ctx, gid, genuine, sdu)
      /\ Type # 2 => \A pdu \in r.out : \A sid \in 1 .. 3 :
                        Verifies(r.ctx.states, gid, sid, pdu)
  BY DEF IsGood
<1>4. IsContext(ctx) /\ drawn \in Nat /\ KeysApart(ctx, drawn) /\ HeaderTypeMaxGid(Type) >= 1
  BY DEF CtxInv
<1>5. IsContext(r.ctx)
  BY <1>3 DEF CallMove
<1>6. KeysApart(r.ctx, DrawnAfter(r.ctx, drawn)) /\ DrawnAfter(r.ctx, drawn) \in Nat
  BY <1>3, <1>4, <1>5, MoveKeepsKeysApart, LargestKey
<1>7. CtxInv'
  BY <1>1, <1>4, <1>5, <1>6 DEF CtxInv
<1>8. AnsweredOrRefused'
  <2>1. IsAnswer(r)
    BY <1>3 DEF CallMove
  <2> QED BY <1>2, <2>1 DEF AnsweredOrRefused, IsAnswer
<1>9. DataIsOfAMember'
  <2>1. ctx'.groups = ctx.groups
    BY <1>1, <1>4, <1>5 DEF IsContext
  <2> QED BY <1>2, <1>3, <2>1 DEF DataIsOfAMember, IsGenuine
<1>10. AllStarted'
  BY <1>2 DEF AllStarted
<1>11. SentVerifies'
  BY <1>1, <1>2, <1>3 DEF SentVerifies
<1>12. OthersAlone
  BY <1>1, <1>2, <1>3 DEF OthersAlone, CallMove
<1> QED BY <1>7, <1>8, <1>9, <1>10, <1>11, <1>12 DEF IInv

\* hzl_ServerInit and hzl_ServerDeInit touch all Groups.
LEMMA InitStep ==
    ASSUME CtxInv, CallInit
    PROVE  IInv' /\ OthersAlone
<1> DEFINE freshOf == [i \in 1 .. 2 |-> drawn + i]
<1>1. PICK now \in Times : Called("Init", 0, TRUE, ServerInit(ctx, now, freshOf))
  BY DEF CallInit
<1>2. PICK r \in ServerInit(ctx, now, freshOf) :
        /\ ctx' = r.ctx
        /\ last' = [call |-> "Init", gid |-> 0, genuine |-> TRUE,
                    err |-> r.err, out |-> r.out, sdu |-> r.sdu]
        /\ drawn' = DrawnAfter(r.ctx, drawn)
  BY <1>1 DEF Called, DrawnAfter
<1>3. /\ last'.call = "Init"
      /\ last'.err = r.err /\ last'.out = r.out /\ last'.sdu = r.sdu
  BY <1>2
<1>4. IsContext(ctx) /\ drawn \in Nat /\ KeysApart(ctx, drawn)
  BY DEF CtxInv
<1>5. freshOf[1] = drawn + 1 /\ freshOf[2] = drawn + 2
      /\ freshOf[1] \in Nat /\ freshOf[2] \in Nat
  BY <1>4
<1> HIDE DEF freshOf
<1>6. InitMove(ctx, freshOf, r) /\ (r.err = "OK" => HeaderTypeMaxGid(Type) >= 1)
  BY <1>4, <1>5, InitMoveAndType
<1>7. IsContext(r.ctx) /\ r.out = {} /\ r.sdu = {}
  BY <1>6 DEF InitMove
<1>8. /\ DrawnAfter(r.ctx, drawn) \in Nat
      /\ KeysApart(r.ctx, DrawnAfter(r.ctx, drawn))
      /\ r.err = "OK" =>
            \A i \in 1 .. 2 : r.ctx.states[i].currentStk > DrawnAfter(r.ctx, drawn) - 2
  BY <1>4, <1>5, <1>6, <1>7, LargestKey, InitKeepsKeysApart
<1>9. CtxInv'
  BY <1>2, <1>3, <1>6, <1>7, <1>8 DEF CtxInv, IsInitialised
<1>10. AllStarted'
  <2> SUFFICES ASSUME r.err = "OK", NEW i \in 1 .. 2
               PROVE  /\ r.ctx.states[i].currentStk # 0
                      /\ r.ctx.states[i].currentStk > drawn' - 2
                      /\ r.ctx.states[i].previousStk = 0
                      /\ r.ctx.states[i].sessionStartInstant
                            = r.ctx.states[i].currentRxLastMessageInstant
    BY <1>2, <1>3 DEF AllStarted
  <2>1. /\ r.ctx.states[i].currentStk = freshOf[i]
        /\ r.ctx.states[i].previousStk = 0
        /\ r.ctx.states[i].sessionStartInstant = r.ctx.states[i].currentRxLastMessageInstant
    BY <1>6 DEF InitMove
  <2>2. freshOf[i] # 0
    BY <1>4, <1>5
  <2> QED BY <1>2, <1>8, <2>1, <2>2
<1>11. AnsweredOrRefused' /\ DataIsOfAMember' /\ SentVerifies'
  BY <1>3, <1>7 DEF AnsweredOrRefused, DataIsOfAMember, SentVerifies
<1>12. OthersAlone
  BY <1>3 DEF OthersAlone
<1> QED BY <1>9, <1>10, <1>11, <1>12 DEF IInv

LEMMA DeInitStep ==
    ASSUME CtxInv, DeInit
    PROVE  IInv' /\ OthersAlone
<1>1. PICK r \in ServerDeInit(ctx) :
        /\ ctx' = r.ctx
        /\ last' = [call |-> "DeInit", gid |-> 0, genuine |-> TRUE,
                    err |-> r.err, out |-> r.out, sdu |-> r.sdu]
        /\ drawn' = DrawnAfter(r.ctx, drawn)
  BY DEF DeInit, Called, DrawnAfter
<1>2. last'.call = "DeInit" /\ last'.out = r.out /\ last'.sdu = r.sdu
  BY <1>1
<1>3. IsContext(ctx) /\ drawn \in Nat /\ HeaderTypeMaxGid(Type) >= 1
  BY DEF CtxInv, DeInit
<1>4. /\ IsContext(r.ctx) /\ r.out = {} /\ r.sdu = {}
      /\ KeysApart(r.ctx, DrawnAfter(r.ctx, drawn))
  BY <1>3, DeInitKeepsKeysApart
<1>5. CtxInv'
  BY <1>1, <1>3, <1>4, LargestKey DEF CtxInv
<1>6. AnsweredOrRefused' /\ DataIsOfAMember' /\ SentVerifies' /\ AllStarted' /\ OthersAlone
  BY <1>2, <1>4 DEF AnsweredOrRefused, DataIsOfAMember, SentVerifies, AllStarted, OthersAlone
<1> QED BY <1>5, <1>6 DEF IInv

\* A reception, whatever the message: its secured data must be genuine.
LEMMA ReceivedStep ==
    ASSUME CtxInv, NEW pdu, NEW genuine, Received(pdu, genuine),
           HeaderUnpack(Type, pdu.header).gid \in Nat,
           pdu.len \in Nat, pdu.ptlen \in Nat, pdu.reqnonce \in 0 .. 1,
           \A sdu : IsOfMember(ctx, pdu, HeaderUnpack(Type, pdu.header), sdu) => genuine
    PROVE  IInv' /\ OthersAlone
<1> DEFINE h == HeaderUnpack(Type, pdu.header)
           call == [null |-> {}, pdu |-> pdu]
           gid == h.gid
<1>1. PICK rx \in Times :
        Called("ProcessReceived", gid, genuine, ServerProcessReceived(ctx, call, rx, drawn + 1))
  BY DEF Received
<1>2. /\ IsContext(ctx) /\ drawn + 1 \in Nat /\ IsInitialised /\ HeaderTypeMaxGid(Type) >= 1
  BY DEF CtxInv, Received
<1>3. call.null = {} /\ call.pdu = pdu
  OBVIOUS
<1> HIDE DEF call, h
<1>4. ASSUME NEW r \in ServerProcessReceived(ctx, call, rx, drawn + 1)
      PROVE  IsGood(ctx, drawn, gid, genuine, r)
  <2>1. /\ CallMove(ctx, gid, drawn + 1, r)
        /\ \A sdu \in r.sdu : sdu.wasSecured => IsOfMember(ctx, pdu, h, sdu)
        /\ \A x \in r.out :
             /\ gid \in 0 .. 1
             /\ \/ IsBuilt(ctx, gid, 0, r, x)
                \/ \E m : /\ x = ServerPdu(ctx, gid, m, 0)
                          /\ m.pty = "RES" /\ m.client \in 1 .. 3 /\ m.reqnonce = 1
    BY <1>2, <1>3, ProcessReceivedMove DEF h
  <2>2. \A sdu \in r.sdu : IsGenuine(ctx, gid, genuine, sdu)
    BY <2>1 DEF IsOfMember, IsGenuine, h
  <2>3. ASSUME Type # 2, NEW x \in r.out, NEW sid \in 1 .. 3
        PROVE  Verifies(r.ctx.states, gid, sid, x)
    <3>1. Type \in ServerTypes /\ HeaderLen(Type) + MetadataLen(SADFD) + 0 <= MaxCanFdDataLen
      BY <2>3, TypeAssumption
      DEF ServerTypes, HeaderLen, MetadataLen, REN, RES, REQ, SADFD, UAD, MaxCanFdDataLen
    <3>2. PICK m : /\ x = ServerPdu(ctx, gid, m, 0)
                   /\ \/ IsOfGroup(m, r.ctx.states[gid + 1])
                      \/ m.pty = "RES" /\ m.client \in 1 .. 3 /\ m.reqnonce = 1
      BY <2>1 DEF IsBuilt
    <3> QED BY <1>2, <2>1, <3>1, <3>2, ServerPduVerifies
  <2> QED BY <2>1, <2>2, <2>3 DEF IsGood
<1> QED BY <1>1, <1>2, <1>4, CalledStep DEF h

LEMMA ReceiveRequestStep ==
    ASSUME CtxInv, ReceiveRequest
    PROVE  IInv' /\ OthersAlone
<1>1. PICK gid \in 0 .. 2, sid \in 1 .. 3, reqnonce \in 0 .. 1 :
        \E defect \in DefectsOf(gid, sid) :
        LET h == Header(gid, sid, REQ)
            tag == ReqTag(100 + sid, AuthenticatedHeader(h, defect), reqnonce)
        IN  Received([WithDefect(PduOf(Type, h, 0), defect) EXCEPT
                        !.reqnonce = reqnonce, !.tag = tag], defect = "none")
  BY DEF ReceiveRequest
<1> DEFINE h == Header(gid, sid, REQ)
<1>2. PICK defect \in DefectsOf(gid, sid) :
        Received([WithDefect(PduOf(Type, h, 0), defect) EXCEPT
                    !.reqnonce = reqnonce,
                    !.tag = ReqTag(100 + sid, AuthenticatedHeader(h, defect), reqnonce)],
                 defect = "none")
  BY <1>1
<1> DEFINE other == AuthenticatedHeader(h, defect)
           tag == ReqTag(100 + sid, other, reqnonce)
           pdu == [WithDefect(PduOf(Type, h, 0), defect) EXCEPT !.reqnonce = reqnonce, !.tag = tag]
<1>3. /\ pdu.header = HeaderPack(Type, h) /\ pdu.len \in Nat /\ pdu.ptlen = 0
      /\ pdu.reqnonce = reqnonce /\ pdu.tag = tag
  <2>1. HeaderLen(Type) \in 1 .. 3 /\ MetadataLen(REQ) = 24 /\ h.pty = REQ
    BY TypeAssumption DEF HeaderLen, MetadataLen, Header, REN, RES, REQ, SADFD, UAD
  <2> HIDE DEF h, tag
  <2> QED BY <2>1 DEF WithDefect, PduOf, Pdu
<1>4. Received(pdu, defect = "none")
  BY <1>2
<1> HIDE DEF pdu
<1>5. HeaderUnpack(Type, pdu.header).gid \in Nat
  <2>1. gid \in Nat /\ sid \in Nat /\ REQ \in 0 .. 7
    BY DEF REQ
  <2>2. HeaderUnpack(Type, HeaderPack(Type, h)).gid \in Nat
    BY <2>1, ReceivedGid
  <2> HIDE DEF h
  <2> QED BY <1>3, <2>2
<1>6. ASSUME NEW sdu, IsOfMember(ctx, pdu, HeaderUnpack(Type, pdu.header), sdu)
      PROVE  FALSE
  <2>1. pdu.tag.label = "SADFD"
    BY <1>6, TagsTell DEF IsOfMember
  <2>2. pdu.tag.label = "REQ"
    BY <1>3, TagsTell
  <2> QED BY <2>1, <2>2
<1> QED BY <1>3, <1>4, <1>5, <1>6, ReceivedStep

LEMMA ReceiveSecuredFdStep ==
    ASSUME CtxInv, ReceiveSecuredFd
    PROVE  IInv' /\ OthersAlone
<1>1. PICK gid \in 0 .. 2, sid \in 1 .. 3, stk \in 1 .. drawn, ctrnonce \in Ctrnonces :
        \E defect \in DefectsOf(gid, sid) :
        LET h == Header(gid, sid, SADFD)
            tag == SadfdTag(stk, AuthenticatedHeader(h, defect), ctrnonce, 1)
        IN  Received([WithDefect(PduOf(Type, h, 1), defect) EXCEPT
                        !.ptlen = 1, !.ctrnonce = ctrnonce, !.tag = tag], defect = "none")
  BY DEF ReceiveSecuredFd
<1> DEFINE h == Header(gid, sid, SADFD)
<1>2. PICK defect \in DefectsOf(gid, sid) :
        Received([WithDefect(PduOf(Type, h, 1), defect) EXCEPT
                    !.ptlen = 1, !.ctrnonce = ctrnonce,
                    !.tag = SadfdTag(stk, AuthenticatedHeader(h, defect), ctrnonce, 1)],
                 defect = "none")
  BY <1>1
<1> DEFINE other == AuthenticatedHeader(h, defect)
           tag == SadfdTag(stk, other, ctrnonce, 1)
           pdu == [WithDefect(PduOf(Type, h, 1), defect) EXCEPT
                    !.ptlen = 1, !.ctrnonce = ctrnonce, !.tag = tag]
           u == HeaderUnpack(Type, pdu.header)
<1>3. Received(pdu, defect = "none")
  BY <1>2
<1>4. HeaderLen(Type) \in 1 .. 3 /\ MetadataLen(SADFD) = 12 /\ h.pty = SADFD
  BY TypeAssumption DEF HeaderLen, MetadataLen, Header, REN, RES, REQ, SADFD, UAD
<1>5. /\ pdu.header = HeaderPack(Type, h) /\ pdu.ptlen = 1
      /\ pdu.reqnonce = 0 /\ pdu.tag = tag
      /\ pdu.len = HeaderLen(Type) + 13
                    - (CASE defect = "cut" -> 1 [] defect = "short" -> 2 [] OTHER -> 0)
  <2> HIDE DEF h, tag
  <2> QED BY <1>4 DEF WithDefect, PduOf, Pdu
<1> HIDE DEF pdu
<1>6. pdu.len \in Nat
  BY <1>4, <1>5
<1>7. u.gid \in Nat
  <2>1. gid \in Nat /\ sid \in Nat /\ SADFD \in 0 .. 7
    BY DEF SADFD
  <2>2. HeaderUnpack(Type, HeaderPack(Type, h)).gid \in Nat
    BY <2>1, ReceivedGid
  <2> HIDE DEF h
  <2> QED BY <1>5, <2>2
<1>8. ASSUME NEW sdu, IsOfMember(ctx, pdu, u, sdu)
      PROVE  defect = "none"
  <2>1. defect \notin {"cut", "short"}
    <3>1. HeaderLen(Type) + 12 + 1 <= pdu.len
      BY <1>4, <1>5, <1>8 DEF IsOfMember, SadfdIsWhole
    <3> QED BY <1>4, <1>5, <3>1
  <2>2. defect # "otherGid"
    <3> SUFFICES ASSUME defect = "otherGid" PROVE FALSE
      OBVIOUS
    <3>1. gid \in 0 .. 1 /\ sid \in 1 .. 2
      BY DEF DefectsOf
    <3>2. other = [h EXCEPT !.gid = 1 - h.gid]
      BY DEF AuthenticatedHeader
    <3>3. HeaderTypeMaxGid(Type) >= 1
      BY <1>3 DEF Received, CtxInv
    <3>4. pdu.tag.h = u
      BY <1>8, TagsTell DEF IsOfMember
    <3>5. pdu.tag.h = other
      BY <1>5, TagsTell
    <3>6. HeaderUnpack(Type, HeaderPack(Type, h)) # [h EXCEPT !.gid = 1 - h.gid]
      BY <3>1, <3>3, OtherGidIsSeen
    <3> HIDE DEF h, other
    <3> QED BY <1>5, <3>2, <3>4, <3>5, <3>6
  <2> QED BY <2>1, <2>2 DEF DefectsOf
<1>9. pdu.ptlen \in Nat /\ pdu.reqnonce \in 0 .. 1
  BY <1>5
<1>10. \A sdu : IsOfMember(ctx, pdu, u, sdu) => (defect = "none")
  BY <1>8
<1> QED BY <1>3, <1>6, <1>7, <1>9, <1>10, ReceivedStep

LEMMA ReceiveOtherStep ==
    ASSUME CtxInv, ReceiveOther
    PROVE  IInv' /\ OthersAlone
<1>1. PICK sid \in 0 .. 1, pty \in 0 .. 7, len \in {0, HeaderLen(Type), HeaderLen(Type) + 12} :
        Received(Pdu(HeaderPack(Type, Header(0, sid, pty)), len), FALSE)
  BY DEF ReceiveOther
<1> DEFINE pdu == Pdu(HeaderPack(Type, Header(0, sid, pty)), len)
<1>2. /\ pdu.header = HeaderPack(Type, Header(0, sid, pty)) /\ pdu.len = len
      /\ pdu.ptlen = 0 /\ pdu.reqnonce = 0 /\ pdu.tag = NoTag
  BY DEF Pdu
<1>3. len \in Nat
  BY TypeAssumption DEF HeaderLen
<1> HIDE DEF pdu
<1>4. HeaderUnpack(Type, pdu.header).gid \in Nat
  <2>1. 0 \in Nat /\ sid \in Nat
    OBVIOUS
  <2>2. HeaderUnpack(Type, HeaderPack(Type, Header(0, sid, pty))).gid \in Nat
    BY <2>1, ReceivedGid, Zenon
  <2> QED BY <1>2, <2>2
<1>5. ASSUME NEW sdu, IsOfMember(ctx, pdu, HeaderUnpack(Type, pdu.header), sdu)
      PROVE  FALSE
  <2>1. pdu.tag.label = "SADFD"
    BY <1>5, TagsTell DEF IsOfMember
  <2>2. pdu.tag.label = "none"
    BY <1>2, TagsTell
  <2> QED BY <2>1, <2>2
<1>6. Received(pdu, FALSE)
  BY <1>1 DEF pdu
<1>7. pdu.len \in Nat /\ pdu.ptlen \in Nat /\ pdu.reqnonce \in 0 .. 1
  BY <1>2, <1>3
<1>8. \A sdu : IsOfMember(ctx, pdu, HeaderUnpack(Type, pdu.header), sdu) => FALSE
  BY <1>5
<1> QED BY <1>4, <1>6, <1>7, <1>8, ReceivedStep

LEMMA BuildSecuredFdStep ==
    ASSUME CtxInv, BuildSecuredFd
    PROVE  IInv' /\ OthersAlone
<1>1. PICK gid \in 0 .. 2, data \in Data :
        Called("BuildSecuredFd", gid, TRUE,
               ServerBuildSecuredFd(ctx, [null |-> {}, gid |-> gid, data |-> data]))
  BY DEF BuildSecuredFd
<1> DEFINE call == [null |-> {}, gid |-> gid, data |-> data]
<1>2. call.null = {} /\ call.gid = gid /\ call.data = data
  OBVIOUS
<1> HIDE DEF call
<1>3. /\ IsContext(ctx) /\ drawn + 1 \in Nat /\ IsInitialised /\ HeaderTypeMaxGid(Type) >= 1
  BY DEF CtxInv, BuildSecuredFd
<1>4. ASSUME NEW r \in ServerBuildSecuredFd(ctx, call)
      PROVE  IsGood(ctx, drawn, gid, TRUE, r)
  <2>1. /\ CallMove(ctx, gid, drawn + 1, r)
        /\ r.sdu = {}
        /\ \A x \in r.out :
             /\ gid \in 0 .. 1
             /\ data.len \in Nat
             /\ HeaderLen(Type) + MetadataLen(SADFD) + data.len <= MaxCanFdDataLen
             /\ IsBuilt(ctx, gid, data.len, r, x)
    <3>1. call.gid \in Nat /\ call.null = {} /\ call.data \in Data
      BY <1>2
    <3>2. /\ CallMove(ctx, call.gid, drawn + 1, r)
          /\ r.sdu = {}
          /\ \A x \in r.out :
               /\ call.gid \in 0 .. 1
               /\ call.data.len \in Nat
               /\ HeaderLen(Type) + MetadataLen(SADFD) + call.data.len <= MaxCanFdDataLen
               /\ IsBuilt(ctx, call.gid, call.data.len, r, x)
      BY <1>3, <3>1, BuildSecuredFdMove
    <3> QED BY <1>2, <3>2
  <2>2. ASSUME Type # 2, NEW x \in r.out, NEW sid \in 1 .. 3
        PROVE  Verifies(r.ctx.states, gid, sid, x)
    <3>1. Type \in ServerTypes
      BY <2>2, TypeAssumption DEF ServerTypes
    <3>2. PICK m : /\ x = ServerPdu(ctx, gid, m, data.len)
                   /\ IsOfGroup(m, r.ctx.states[gid + 1])
      BY <2>1 DEF IsBuilt
    <3> QED BY <1>3, <2>1, <3>1, <3>2, ServerPduVerifies
  <2> QED BY <2>1, <2>2 DEF IsGood
<1>5. Called("BuildSecuredFd", gid, TRUE, ServerBuildSecuredFd(ctx, call))
  BY <1>1 DEF call
<1>6. \A r \in ServerBuildSecuredFd(ctx, call) : IsGood(ctx, drawn, gid, TRUE, r)
  BY <1>4
<1>7. gid \in Nat
  OBVIOUS
<1> QED BY <1>3, <1>5, <1>6, <1>7, CalledStep, Zenon

LEMMA BuildUnsecuredStep ==
    ASSUME CtxInv, BuildUnsecured
    PROVE  IInv' /\ OthersAlone
<1>1. PICK gid \in 0 .. 2, data \in Data :
        Called("BuildUnsecured", gid, TRUE,
               ServerBuildUnsecured(ctx, [null |-> {}, gid |-> gid, data |-> data]))
  BY DEF BuildUnsecured
<1> DEFINE call == [null |-> {}, gid |-> gid, data |-> data]
<1>2. call.null = {} /\ call.gid = gid /\ call.data = data
  OBVIOUS
<1> HIDE DEF call
<1>3. /\ IsContext(ctx) /\ drawn + 1 \in Nat /\ IsInitialised /\ HeaderTypeMaxGid(Type) >= 1
  BY DEF CtxInv, BuildUnsecured
<1>4. ASSUME NEW r \in ServerBuildUnsecured(ctx, call)
      PROVE  IsGood(ctx, drawn, gid, TRUE, r)
  <2>1. /\ CallMove(ctx, gid, drawn + 1, r)
        /\ r.sdu = {}
        /\ \A x \in r.out : /\ gid <= HeaderTypeMaxGid(Type)
                            /\ data.len \in Nat
                            /\ HeaderLen(Type) + data.len <= MaxCanFdDataLen
                            /\ x = PduOf(Type, Header(gid, ServerSid, UAD), data.len)
    <3>1. call.gid \in Nat /\ call.null = {} /\ call.data \in Data
      BY <1>2
    <3>2. /\ CallMove(ctx, call.gid, drawn + 1, r)
          /\ r.sdu = {}
          /\ \A x \in r.out :
               /\ call.gid <= HeaderTypeMaxGid(Type)
               /\ call.data.len \in Nat
               /\ HeaderLen(Type) + call.data.len <= MaxCanFdDataLen
               /\ x = PduOf(Type, Header(call.gid, ServerSid, UAD), call.data.len)
      BY <1>3, <3>1, BuildUnsecuredMove
    <3> QED BY <1>2, <3>2
  <2>2. ASSUME Type # 2, NEW x \in r.out, NEW sid \in 1 .. 3
        PROVE  Verifies(r.ctx.states, gid, sid, x)
    <3>1. Type \in ServerTypes
      BY <2>2, TypeAssumption DEF ServerTypes
    <3> QED BY <2>1, <3>1, UnsecuredPduVerifies
  <2> QED BY <2>1, <2>2 DEF IsGood
<1>5. Called("BuildUnsecured", gid, TRUE, ServerBuildUnsecured(ctx, call))
  BY <1>1 DEF call
<1>6. \A r \in ServerBuildUnsecured(ctx, call) : IsGood(ctx, drawn, gid, TRUE, r)
  BY <1>4
<1>7. gid \in Nat
  OBVIOUS
<1> QED BY <1>3, <1>5, <1>6, <1>7, CalledStep, Zenon

LEMMA ForceSessionRenewalStep ==
    ASSUME CtxInv, ForceSessionRenewal
    PROVE  IInv' /\ OthersAlone
<1>1. PICK gid \in 0 .. 2, now \in Times :
        Called("ForceSessionRenewal", gid, TRUE,
               ServerForceSessionRenewal(ctx, [null |-> {}, gid |-> gid], now, drawn + 1))
  BY DEF ForceSessionRenewal
<1> DEFINE call == [null |-> {}, gid |-> gid]
<1>2. call.null = {} /\ call.gid = gid
  OBVIOUS
<1> HIDE DEF call
<1>3. /\ IsContext(ctx) /\ drawn + 1 \in Nat /\ IsInitialised /\ HeaderTypeMaxGid(Type) >= 1
  BY DEF CtxInv, ForceSessionRenewal
<1>4. ASSUME NEW r \in ServerForceSessionRenewal(ctx, call, now, drawn + 1)
      PROVE  IsGood(ctx, drawn, gid, TRUE, r)
  <2>1. /\ CallMove(ctx, gid, drawn + 1, r)
        /\ r.sdu = {}
        /\ \A x \in r.out : gid \in 0 .. 1 /\ IsBuilt(ctx, gid, 0, r, x)
    <3>1. call.gid \in Nat /\ call.null = {}
      BY <1>2
    <3>2. /\ CallMove(ctx, call.gid, drawn + 1, r)
          /\ r.sdu = {}
          /\ \A x \in r.out : call.gid \in 0 .. 1 /\ IsBuilt(ctx, call.gid, 0, r, x)
      BY <1>3, <3>1, ForceSessionRenewalMove
    <3> QED BY <1>2, <3>2
  <2>2. ASSUME Type # 2, NEW x \in r.out, NEW sid \in 1 .. 3
        PROVE  Verifies(r.ctx.states, gid, sid, x)
    <3>1. Type \in ServerTypes /\ HeaderLen(Type) + MetadataLen(SADFD) + 0 <= MaxCanFdDataLen
      BY <2>2, TypeAssumption
      DEF ServerTypes, HeaderLen, MetadataLen, REN, RES, REQ, SADFD, UAD, MaxCanFdDataLen
    <3>2. PICK m : /\ x = ServerPdu(ctx, gid, m, 0)
                   /\ IsOfGroup(m, r.ctx.states[gid + 1])
      BY <2>1 DEF IsBuilt
    <3> QED BY <1>3, <2>1, <3>1, <3>2, ServerPduVerifies
  <2> QED BY <2>1, <2>2 DEF IsGood
<1>5. Called("ForceSessionRenewal", gid, TRUE,
             ServerForceSessionRenewal(ctx, call, now, drawn + 1))
  BY <1>1 DEF call
<1>6. \A r \in ServerForceSessionRenewal(ctx, call, now, drawn + 1) : IsGood(ctx, drawn, gid, TRUE, r)
  BY <1>4
<1>7. gid \in Nat
  OBVIOUS
<1> QED BY <1>3, <1>5, <1>6, <1>7, CalledStep, Zenon

LEMMA InitIInv == Init => IInv
<1> SUFFICES ASSUME Init PROVE IInv
  OBVIOUS
<1>1. last.call = "NONE" /\ last.out = {} /\ last.sdu = {}
  BY DEF Init
<1>2. /\ IsGroup(ServerUnsetState)
      /\ ServerUnsetState.currentStk = 0 /\ ServerUnsetState.previousStk = 0
  BY DEF ServerUnsetState, IsGroup
<1>3. /\ ctx.states = [i \in 1 .. 2 |-> ServerUnsetState]
      /\ drawn = 0
  BY DEF Init
<1>4. IsContext(ctx)
  BY <1>2 DEF Init, IsContext
<1>5. KeysApart(ctx, drawn)
  BY <1>2, <1>3 DEF KeysApart, KeysOf
<1> QED BY <1>1, <1>3, <1>4, <1>5
        DEF IInv, CtxInv, IsInitialised, AnsweredOrRefused, DataIsOfAMember, AllStarted, SentVerifies

LEMMA NextStep ==
    ASSUME CtxInv, Next
    PROVE  IInv' /\ OthersAlone
BY InitStep, DeInitStep, ReceiveRequestStep, ReceiveSecuredFdStep, ReceiveOtherStep,
   BuildSecuredFdStep, BuildUnsecuredStep, ForceSessionRenewalStep DEF Next

LEMMA UnchangedIInv == IInv /\ UNCHANGED vars => IInv'
BY DEF IInv, CtxInv, IsInitialised, AnsweredOrRefused, DataIsOfAMember, AllStarted, SentVerifies, vars

LEMMA SpecIInv == Spec => []IInv
<1>1. IInv /\ [Next]_vars => IInv'
  BY NextStep, UnchangedIInv DEF IInv
<1> QED BY <1>1, InitIInv, PTL DEF Spec

----------------------------------------------------------------------------
(* Theorems *)

\* A call of the Server's interface is answered or refused, never a bit of
\* both (AnsweredOrRefused): the checks that give the call its error and those
\* that let the handler act agree, for every message and every configuration
\* of the bus.
THEOREM AnsweredOrRefusedCorrect == Spec => []AnsweredOrRefused
BY SpecIInv, PTL DEF IInv

\* What hzl_ServerProcessReceived delivers as secured is of a member of the
\* Group, authenticated for it (DataIsOfAMember).
THEOREM DataIsOfAMemberCorrect == Spec => []DataIsOfAMember
BY SpecIInv, PTL DEF IInv

\* When hzl_ServerInit succeeds all Groups have a Session, with a key of their
\* own (AllStarted), whatever failed before.
THEOREM AllStartedCorrect == Spec => []AllStarted
BY SpecIInv, PTL DEF IInv

\* What the Server builds verifies at every Client (WhatIsSentVerifies), on all
\* buses but those of header type 2, which loses the GID.
THEOREM WhatIsSentVerifiesCorrect ==
    ASSUME Type # 2
    PROVE  Spec => []WhatIsSentVerifies
<1>1. IInv => WhatIsSentVerifies
  BY VerifiesIsVerifiesAt DEF IInv, SentVerifies, WhatIsSentVerifies
<1> QED BY <1>1, SpecIInv, PTL

\* Groups share nothing (GroupsAreSeparate): a call about one leaves the state
\* of the other alone, and no key is in the states of both.
THEOREM GroupsAreSeparateCorrect == Spec => GroupsAreSeparate
<1>1. IInv /\ [Next]_vars =>
        [/\ last'.call \notin {"Init", "DeInit"} =>
              \A i \in 1 .. 2 : i # last'.gid + 1 => ctx'.states[i] = ctx.states[i]
         /\ \A stk \in 1 .. MaxStk :
              \E i \in 1 .. 2 :
                  stk \notin {ctx'.states[i].currentStk, ctx'.states[i].previousStk}]_vars
  <2> SUFFICES ASSUME IInv, Next
               PROVE  /\ last'.call \notin {"Init", "DeInit"} =>
                            \A i \in 1 .. 2 : i # last'.gid + 1 => ctx'.states[i] = ctx.states[i]
                      /\ \A stk \in 1 .. MaxStk :
                            \E i \in 1 .. 2 :
                                stk \notin {ctx'.states[i].currentStk, ctx'.states[i].previousStk}
    OBVIOUS
  <2>1. OthersAlone /\ IInv'
    BY NextStep DEF IInv
  <2>2. NoSharedKey(ctx')
    BY <2>1, ApartIsNotShared DEF IInv, CtxInv
  <2> QED BY <2>1, <2>2 DEF OthersAlone, NoSharedKey
<1> QED BY <1>1, SpecIInv, PTL DEF Spec, GroupsAreSeparate
=============================================================================
