------------------------ MODULE ClientContext_proofs ------------------------
(***************************************************************************)
(* Proofs about ClientContext, for every header type, every size of the    *)
(* timestamp and of the counter nonce, whatever is called and received and *)
(* whichever functions of the user fail: a call is answered or refused,    *)
(* keys and data are of the Group they came for, what is built is genuine, *)
(* and the two Groups have nothing to do with each other. At the end, the  *)
(* checks of the configuration, with any number of Groups.                 *)
(***************************************************************************)
EXTENDS ClientContext, Common_proofs

\* The state of a Group: its fields.
IsGroup(g) ==
    {"requestNonce", "lastHandshakeEventInstant", "currentRxLastMessageInstant",
     "previousRxLastMessageInstant", "currentCtrNonce", "previousCtrNonce", "currentStk",
     "previousStk"} \subseteq DOMAIN g

\* Two states of the Group gid as KeysAreOfTheGroup has them, neither by
\* hzl_ClientInit nor by hzl_ClientDeInit.
Follows(old, new, gid) ==
    /\ IsGroup(new) /\ new.requestNonce \in Nat
    /\ \/ HasSession(new, gid)
       \/ /\ HasNoSession(new) /\ HasNoSession(old)
          /\ old.requestNonce # 0 => new.requestNonce # 0

----------------------------------------------------------------------------
(* What the handlers of a Group do to its keys, and what they send *)

\* A nonce drawn for a Request.
IsFresh(nonce) == nonce \in Nat \ {0}

\* Keys are kept, copied or dropped; a Request is at most asked again.
KeysMove(old, new) ==
    /\ IsGroup(new)
    /\ new.currentStk = old.currentStk
    /\ new.previousStk \in {old.currentStk, old.previousStk, 0}
    /\ new.requestNonce = old.requestNonce \/ new.requestNonce \in Nat \ {0}

\* A Request is for the nonce expected after the call, data is sent under the
\* key there is.
IsOfGroup(m, g) ==
    \/ m.pty = "REQ" /\ m.reqnonce = g.requestNonce
    \/ m.pty = "SADFD" /\ m.stk = g.currentStk

\* An outcome that is refused or fails comes with nothing.
IsAnswer(o) == o.err # "OK" => o.out = {} /\ o.sdu = {}

LEMMA ExitMove ==
    ASSUME NEW c, NEW i, NEW g, IsGroup(g), NEW t
    PROVE  KeysMove(g, Session(c, i)!ClientPhaseExitIfNeeded(g, t))
BY DEF Session!ClientPhaseExitIfNeeded, Session!NoStk, KeysMove, IsGroup

LEMMA UpdateMove ==
    ASSUME NEW c, NEW i, NEW g, IsGroup(g), NEW ctrnonce, NEW rx, NEW isPrevious \in BOOLEAN
    PROVE  KeysMove(g, Session(c, i)!ClientUpdateCtrnonceAndRxTimestamp(g, ctrnonce, rx, isPrevious))
BY DEF Session!ClientUpdateCtrnonceAndRxTimestamp, KeysMove, IsGroup

LEMMA BuildMsgReqMove ==
    ASSUME NEW c, NEW i, NEW g, IsGroup(g), NEW t, NEW fresh, IsFresh(fresh),
           NEW o \in Session(c, i)!ClientBuildMsgReq(g, t, fresh)
    PROVE  /\ KeysMove(g, o.group)
           /\ IsAnswer(o) /\ o.sdu = {}
           /\ o.err \in {"OK", "FAILED"} /\ (o.err = "OK" => o.out # {})
           /\ \A m \in o.out : IsOfGroup(m, o.group)
<1>1. \/ \E nonce \in {fresh} : o = Session(c, i)!Outcome("OK",
                            [g EXCEPT !.requestNonce = nonce, !.lastHandshakeEventInstant = t],
                            {Session(c, i)!Req(c.sid, nonce)}, {})
      \/ o = Session(c, i)!Outcome("FAILED", g, {}, {})
  BY DEF Session!ClientBuildMsgReq
<1>2. ASSUME NEW nonce \in {fresh},
             o = Session(c, i)!Outcome("OK",
                            [g EXCEPT !.requestNonce = nonce, !.lastHandshakeEventInstant = t],
                            {Session(c, i)!Req(c.sid, nonce)}, {})
      PROVE  /\ KeysMove(g, o.group)
             /\ o.err = "OK" /\ o.out # {} /\ o.sdu = {}
             /\ \A m \in o.out : IsOfGroup(m, o.group)
  <2> DEFINE asking == [g EXCEPT !.requestNonce = nonce, !.lastHandshakeEventInstant = t]
             req == Session(c, i)!Req(c.sid, nonce)
  <2>1. KeysMove(g, asking) /\ asking.requestNonce = nonce
    BY DEF KeysMove, IsGroup, IsFresh
  <2>2. req.pty = "REQ" /\ req.reqnonce = nonce
    BY DEF Session!Req
  <2>3. o.group = asking /\ o.err = "OK" /\ o.out = {req} /\ o.sdu = {}
    BY <1>2 DEF Session!Outcome
  <2> HIDE DEF asking, req
  <2> QED BY <2>1, <2>2, <2>3 DEF IsOfGroup
<1>3. CASE o = Session(c, i)!Outcome("FAILED", g, {}, {})
  BY <1>3 DEF Session!Outcome, KeysMove, IsAnswer
<1> QED BY <1>1, <1>2, <1>3 DEF IsAnswer

LEMMA BuildRequestMove ==
    ASSUME NEW c, NEW i, NEW g, IsGroup(g), NEW t, NEW fresh, IsFresh(fresh),
           NEW o \in Session(c, i)!ClientBuildRequest(g, t, fresh)
    PROVE  /\ KeysMove(g, o.group)
           /\ IsAnswer(o) /\ o.sdu = {}
           /\ o.err = "OK" => o.out # {}
           /\ o.err # "FAILED" =>
                (o.err = "OK" <=> ~Session(c, i)!ClientIsAHandshakeOngoing(g, t))
           /\ \A m \in o.out : IsOfGroup(m, o.group)
<1> DEFINE ongoing == Session(c, i)!ClientIsAHandshakeOngoing(g, t)
<1>1. \/ o = Session(c, i)!Outcome("FAILED", g, {}, {})
      \/ ongoing /\ o = Session(c, i)!Outcome("ONGOING", g, {}, {})
      \/ ~ongoing /\ o \in Session(c, i)!ClientBuildMsgReq(g, t, fresh)
  BY DEF Session!ClientBuildRequest
<1>2. ASSUME NEW err \in {"FAILED", "ONGOING"}, o = Session(c, i)!Outcome(err, g, {}, {})
      PROVE  KeysMove(g, o.group) /\ o.err = err /\ o.out = {} /\ o.sdu = {}
  BY <1>2 DEF Session!Outcome, KeysMove
<1>3. CASE ~ongoing /\ o \in Session(c, i)!ClientBuildMsgReq(g, t, fresh)
  BY <1>3, BuildMsgReqMove
<1> QED BY <1>1, <1>2, <1>3 DEF IsAnswer

\* A Response that is valid gives the Group its key and ends the handshake.
LEMMA ResponseMove ==
    ASSUME NEW c, NEW i, NEW g, IsGroup(g), NEW m, NEW intact \in BOOLEAN, NEW rx,
           NEW o \in Session(c, i)!ClientProcessReceivedResponse(g, m, intact, rx)
    PROVE  LET valid == Session(c, i)!ClientIsResponseValid(g, m, intact, rx)
                        /\ m.reqnonce = g.requestNonce
           IN  /\ IsGroup(o.group)
               /\ o.out = {} /\ o.sdu = {}
               /\ valid => /\ o.err = "OK"
                           /\ o.group.currentStk = m.stk /\ o.group.previousStk = g.previousStk
                           /\ o.group.requestNonce = 0
               /\ ~valid => o.err = "REFUSED" /\ o.group = g
<1> DEFINE got == [Session(c, i)!ClientSessionReceived(g, m, rx) EXCEPT
                    !.requestNonce = Session(c, i)!NotExpectingAResponse]
           valid == Session(c, i)!ClientIsResponseValid(g, m, intact, rx)
                    /\ m.reqnonce = g.requestNonce
<1>1. /\ IsGroup(got) /\ got.currentStk = m.stk /\ got.previousStk = g.previousStk
      /\ got.requestNonce = 0
  BY DEF Session!ClientSessionReceived, Session!NotExpectingAResponse, IsGroup
<1>2. o = IF valid THEN Session(c, i)!Outcome("OK", got, {}, {})
          ELSE Session(c, i)!Outcome("REFUSED", g, {}, {})
  BY DEF Session!ClientProcessReceivedResponse
<1> HIDE DEF got, valid
<1>3. CASE valid
  <2>1. o.group = got /\ o.err = "OK" /\ o.out = {} /\ o.sdu = {}
    BY <1>2, <1>3 DEF Session!Outcome
  <2> QED BY <1>1, <1>3, <2>1 DEF valid
<1>4. CASE ~valid
  <2>1. o.group = g /\ o.err = "REFUSED" /\ o.out = {} /\ o.sdu = {}
    BY <1>2, <1>4 DEF Session!Outcome
  <2> QED BY <1>4, <2>1 DEF valid
<1> QED BY <1>3, <1>4

\* A renewal is acceptable.
RenewalIsTaken(c, i, g, m, intact, rx) ==
    /\ Session(c, i)!ClientIsSessionEstablishedAndValid(g)
    /\ Session(c, i)!ClientIsRenewalAcceptable(g)
    /\ intact /\ Session(c, i)!ClientCheckRxCtrnonce(g, m.ctrnonce, rx)
    /\ m.stk = g.currentStk

\* It is then answered with a Request.
LEMMA RenewalMove ==
    ASSUME NEW c, NEW i, NEW g, IsGroup(g), NEW m, NEW intact \in BOOLEAN, NEW rx,
           NEW fresh, IsFresh(fresh),
           NEW o \in Session(c, i)!ClientProcessReceivedRenewal(g, m, intact, rx, fresh)
    PROVE  /\ KeysMove(g, o.group)
           /\ IsAnswer(o) /\ o.sdu = {}
           /\ o.err = "OK" => o.out # {}
           /\ o.err \in {"OK", "FAILED"} <=> RenewalIsTaken(c, i, g, m, intact, rx)
           /\ \A x \in o.out : IsOfGroup(x, o.group)
<1> DEFINE established == Session(c, i)!ClientIsSessionEstablishedAndValid(g)
           acceptable == Session(c, i)!ClientIsRenewalAcceptable(g)
           genuine == /\ intact /\ Session(c, i)!ClientCheckRxCtrnonce(g, m.ctrnonce, rx)
                      /\ m.stk = g.currentStk
           left == Session(c, i)!ClientPhaseExitIfNeeded(g, rx)
           updated == Session(c, i)!ClientUpdateCtrnonceAndRxTimestamp(g, m.ctrnonce, rx, FALSE)
           entered == Session(c, i)!ClientPhaseEnter(updated)
<1>1. \/ ~established /\ o = Session(c, i)!Outcome("NO_SESSION", g, {}, {})
      \/ established /\ ~acceptable /\ o = Session(c, i)!Outcome("REFUSED", left, {}, {})
      \/ established /\ acceptable /\ ~genuine /\ o = Session(c, i)!Outcome("REFUSED", g, {}, {})
      \/ /\ established /\ acceptable /\ genuine
         /\ o \in Session(c, i)!ClientBuildMsgReq(entered, rx, fresh)
  BY Zenon DEF Session!ClientProcessReceivedRenewal
<1>2. KeysMove(g, left) /\ KeysMove(g, g)
  BY ExitMove DEF KeysMove
<1>3. KeysMove(g, updated)
  <2>1. FALSE \in BOOLEAN
    OBVIOUS
  <2> QED BY <2>1, UpdateMove, Zenon
<1> HIDE DEF established, acceptable, genuine, left, updated
<1>4. KeysMove(g, entered) /\ IsGroup(entered)
  BY <1>3 DEF Session!ClientPhaseEnter, KeysMove, IsGroup
<1> HIDE DEF entered
<1>5. RenewalIsTaken(c, i, g, m, intact, rx) <=> established /\ acceptable /\ genuine
  BY DEF RenewalIsTaken, established, acceptable, genuine
<1>6. ASSUME NEW err \in {"NO_SESSION", "REFUSED"}, NEW h \in {g, left},
             o = Session(c, i)!Outcome(err, h, {}, {})
      PROVE  KeysMove(g, o.group) /\ o.err = err /\ o.out = {} /\ o.sdu = {}
  BY <1>2, <1>6 DEF Session!Outcome
<1>7. CASE o \in Session(c, i)!ClientBuildMsgReq(entered, rx, fresh)
  <2>1. /\ KeysMove(entered, o.group)
        /\ IsAnswer(o) /\ o.sdu = {}
        /\ o.err \in {"OK", "FAILED"} /\ (o.err = "OK" => o.out # {})
        /\ \A x \in o.out : IsOfGroup(x, o.group)
    BY <1>4, <1>7, BuildMsgReqMove
  <2>2. KeysMove(g, o.group)
    BY <1>4, <2>1 DEF KeysMove
  <2> QED BY <1>1, <1>6, <1>5, <2>1, <2>2
<1> QED BY <1>1, <1>6, <1>7, <1>5 DEF IsAnswer

\* Application data is delivered if it is acceptable, and only then.
LEMMA SecuredFdMove ==
    ASSUME NEW c, NEW i, NEW g, IsGroup(g), NEW m, NEW intact \in BOOLEAN, NEW rx,
           NEW o \in Session(c, i)!ClientProcessReceivedSecuredFd(g, m, intact, rx)
    PROVE  LET e == Session(c, i)!ClientPhaseExitIfNeeded(g, rx)
               acceptable ==
                    /\ Session(c, i)!ClientIsSessionEstablishedAndValid(e)
                    /\ intact
                    /\ Session(c, i)!ClientCheckRxCtrnonce(e, m.ctrnonce, rx)
                    /\ m.stk = Session(c, i)!ClientChooseStk(
                                    e, Session(c, i)!ClientIsPreviousSession(e, m.ctrnonce))
           IN  /\ KeysMove(g, o.group)
               /\ o.out = {}
               /\ acceptable => o.err = "OK" /\ o.sdu # {}
               /\ ~acceptable => o.err \in {"NO_SESSION", "REFUSED"} /\ o.sdu = {}
<1> DEFINE e == Session(c, i)!ClientPhaseExitIfNeeded(g, rx)
           isPrevious == Session(c, i)!ClientIsPreviousSession(e, m.ctrnonce)
           established == Session(c, i)!ClientIsSessionEstablishedAndValid(e)
           genuine == /\ intact /\ Session(c, i)!ClientCheckRxCtrnonce(e, m.ctrnonce, rx)
                      /\ m.stk = Session(c, i)!ClientChooseStk(e, isPrevious)
           updated == Session(c, i)!ClientUpdateCtrnonceAndRxTimestamp(
                            e, m.ctrnonce, rx, isPrevious)
<1>1. \/ ~established /\ o = Session(c, i)!Outcome("NO_SESSION", e, {}, {})
      \/ established /\ genuine /\ o = Session(c, i)!Outcome("OK", updated, {}, {m})
      \/ established /\ ~genuine /\ o = Session(c, i)!Outcome("REFUSED", e, {}, {})
  BY DEF Session!ClientProcessReceivedSecuredFd
<1>2. KeysMove(g, e) /\ IsGroup(e)
  BY ExitMove DEF KeysMove
<1>3. isPrevious \in BOOLEAN
  BY DEF Session!ClientIsPreviousSession, Session!ClientPhaseIsActive
<1> HIDE DEF e, isPrevious
<1>4. KeysMove(e, updated)
  BY <1>2, <1>3, UpdateMove
<1> HIDE DEF updated
<1>5. KeysMove(g, updated)
  BY <1>2, <1>4 DEF KeysMove
<1>6. CASE established /\ genuine /\ o = Session(c, i)!Outcome("OK", updated, {}, {m})
  <2>1. o.group = updated /\ o.err = "OK" /\ o.out = {} /\ o.sdu # {}
    BY <1>6 DEF Session!Outcome
  <2> QED BY <1>5, <1>6, <2>1 DEF e, isPrevious
<1>7. ASSUME NEW err \in {"NO_SESSION", "REFUSED"}, o = Session(c, i)!Outcome(err, e, {}, {})
      PROVE  KeysMove(g, o.group) /\ o.err = err /\ o.out = {} /\ o.sdu = {}
  BY <1>2, <1>7 DEF Session!Outcome
<1> QED BY <1>1, <1>6, <1>7 DEF e, isPrevious

LEMMA BuildSecuredFdMove ==
    ASSUME NEW c, NEW i, NEW g, IsGroup(g), NEW o \in Session(c, i)!ClientBuildSecuredFd(g)
    PROVE  /\ KeysMove(g, o.group)
           /\ IsAnswer(o) /\ o.sdu = {}
           /\ o.err = "OK" => o.out # {}
           /\ o.err # "FAILED"
           /\ o.err = "OK" <=> Session(c, i)!ClientIsSessionEstablishedAndValid(g)
           /\ \A m \in o.out : IsOfGroup(m, o.group)
<1> DEFINE sent == [g EXCEPT !.currentCtrNonce = Session(c, i)!Incremented(@)]
           data == Session(c, i)!Sadfd(c.sid, g.currentStk, g.currentCtrNonce)
           established == Session(c, i)!ClientIsSessionEstablishedAndValid(g)
<1>1. \/ established /\ o = Session(c, i)!Outcome("OK", sent, {data}, {})
      \/ ~established /\ o = Session(c, i)!Outcome("NO_SESSION", g, {}, {})
  BY DEF Session!ClientBuildSecuredFd
<1>2. /\ KeysMove(g, sent) /\ KeysMove(g, g)
      /\ sent.currentStk = g.currentStk
  BY DEF KeysMove, IsGroup
<1>3. data.pty = "SADFD" /\ data.stk = g.currentStk
  BY DEF Session!Sadfd
<1> HIDE DEF sent, data, established
<1>4. CASE established /\ o = Session(c, i)!Outcome("OK", sent, {data}, {})
  <2>1. o.group = sent /\ o.err = "OK" /\ o.out = {data} /\ o.sdu = {}
    BY <1>4 DEF Session!Outcome
  <2> QED BY <1>2, <1>3, <1>4, <2>1 DEF IsAnswer, IsOfGroup, established
<1>5. CASE ~established /\ o = Session(c, i)!Outcome("NO_SESSION", g, {}, {})
  <2>1. o.group = g /\ o.err = "NO_SESSION" /\ o.out = {} /\ o.sdu = {}
    BY <1>5 DEF Session!Outcome
  <2> QED BY <1>2, <1>5, <2>1 DEF IsAnswer, established
<1> QED BY <1>1, <1>4, <1>5

----------------------------------------------------------------------------
(* What a call about one Group makes of the context *)

\* The configuration is never written; a Group has the Server's key for it or
\* none.
IsContext(c) ==
    /\ {"null", "faults", "headerType", "sid", "ltk", "timeoutReqToResMillis", "amountOfGroups",
        "groups", "states"} \subseteq DOMAIN c
    /\ c.null = {}
    /\ c.headerType = Type
    /\ c.sid = OwnSid /\ c.ltk = OwnLtk
    /\ c.amountOfGroups = 2
    /\ c.groups = <<GroupConfig(0), GroupConfig(2)>>
    /\ DOMAIN c.states = 1 .. 2
    /\ \A i \in 1 .. 2 : Follows(c.states[i], c.states[i], c.groups[i].gid)

\* A call about the Group gid leaves the other ones alone; it is answered or
\* refused.
CallMove(c, gid, r) ==
    /\ IsContext(r.ctx)
    /\ \A i \in 1 .. 2 : c.groups[i].gid # gid => r.ctx.states[i] = c.states[i]
    /\ \A i \in 1 .. 2 : Follows(c.states[i], r.ctx.states[i], c.groups[i].gid)
    /\ IsAnswer(r)

\* An outcome of the Group's handler that fits the error the checks return.
Agrees(c, i, err, o) ==
    /\ Follows(c.states[i], o.group, c.groups[i].gid)
    /\ IsAnswer(o)
    /\ o.err # "FAILED" => (o.err = "OK" <=> err = "OK")

\* A reply made of the outcome: its state, its messages packed, its user data.
IsReplyOf(c, i, ptlen, sdu, o, r) ==
    /\ r.ctx.states[i] = o.group
    /\ r.out = {ClientPdu(c, i, m, ptlen) : m \in o.out}
    /\ r.sdu = IF o.sdu = {} THEN {} ELSE {sdu}
    /\ r.err = "OK" => o.err = "OK"

\* The two Groups of the context, and how they are found.
LEMMA TwoGroups ==
    ASSUME NEW c, IsContext(c)
    PROVE  c.groups[1].gid = 0 /\ c.groups[2].gid = 2
BY DEF IsContext, GroupConfig

LEMMA FoundGroup ==
    ASSUME NEW c, IsContext(c), NEW d, IsContext(d), NEW gid, NEW i \in ClientFindGroup(c, gid)
    PROVE  /\ i \in 1 .. 2
           /\ c.groups[i].gid = gid /\ d.groups = c.groups
           /\ ClientFindGroup(d, gid) = {i}
<1>1. /\ i \in 1 .. 2 /\ c.groups[i].gid = gid
      /\ d.groups = c.groups /\ d.amountOfGroups = 2
  BY DEF ClientFindGroup, IsContext
<1>2. c.groups[1].gid = 0 /\ c.groups[2].gid = 2
  BY TwoGroups
<1>3. \A j \in 1 .. i - 1 : c.groups[j].gid # gid
  BY <1>1, <1>2
<1>4. \A j \in ClientFindGroup(d, gid) : j = i
  BY <1>1, <1>2 DEF ClientFindGroup
<1>5. i \in ClientFindGroup(d, gid)
  BY <1>1, <1>3 DEF ClientFindGroup
<1> QED BY <1>1, <1>4, <1>5

\* Where keys are only moved, they remain the Group's.
LEMMA MovedKeysAreOfTheGroup ==
    ASSUME NEW c, IsContext(c), NEW i \in 1 .. 2, NEW g, KeysMove(c.states[i], g)
    PROVE  Follows(c.states[i], g, c.groups[i].gid)
<1> DEFINE s == c.states[i]
           gid == c.groups[i].gid
<1>1. KeysMove(s, g) /\ Follows(s, s, gid)
  BY DEF IsContext
<1> HIDE DEF s, gid
<1>2. Follows(s, g, gid)
  BY <1>1 DEF Follows, KeysMove, HasSession, HasNoSession
<1> QED BY <1>2 DEF s, gid

\* A state that follows another follows itself.
LEMMA FollowsItself ==
    ASSUME NEW old, NEW new, NEW gid, Follows(old, new, gid)
    PROVE  Follows(new, new, gid)
BY DEF Follows

\* A handler's outcome becomes the reply, if the checks that give the call its
\* error agree with those that let it act.
LEMMA RepliesMove ==
    ASSUME NEW c, IsContext(c), NEW i \in 1 .. 2,
           NEW err, NEW outcomes, NEW ptlen, NEW sdu,
           \A o \in outcomes : Agrees(c, i, err, o),
           NEW r \in Replies(c, i, err, outcomes, ptlen, sdu)
    PROVE  /\ CallMove(c, c.groups[i].gid, r)
           /\ \E o \in outcomes : IsReplyOf(c, i, ptlen, sdu, o, r)
<1>1. PICK o \in outcomes :
        r = Reply(IF o.err = "FAILED" THEN "FAILED" ELSE err,
                  [c EXCEPT !.states[i] = o.group],
                  {ClientPdu(c, i, m, ptlen) : m \in o.out},
                  IF o.sdu = {} THEN {} ELSE {sdu})
  BY DEF Replies
<1>2. /\ r.err = (IF o.err = "FAILED" THEN "FAILED" ELSE err)
      /\ r.ctx = [c EXCEPT !.states[i] = o.group]
      /\ r.out = {ClientPdu(c, i, m, ptlen) : m \in o.out}
      /\ r.sdu = IF o.sdu = {} THEN {} ELSE {sdu}
  BY <1>1 DEF Reply
<1>3. Agrees(c, i, err, o)
  OBVIOUS
<1>4. /\ IsContext(r.ctx)
      /\ \A j \in 1 .. 2 : r.ctx.states[j] = IF j = i THEN o.group ELSE c.states[j]
  <2>1. r.ctx.states = [c.states EXCEPT ![i] = o.group]
    BY <1>2 DEF IsContext
  <2>2. /\ DOMAIN r.ctx.states = 1 .. 2
        /\ \A j \in 1 .. 2 : r.ctx.states[j] = IF j = i THEN o.group ELSE c.states[j]
    BY <2>1 DEF IsContext
  <2>3. \A j \in 1 .. 2 : Follows(r.ctx.states[j], r.ctx.states[j], c.groups[j].gid)
    BY <1>3, <2>2, FollowsItself DEF IsContext, Agrees
  <2> QED BY <1>2, <2>2, <2>3 DEF IsContext
<1>5. IsAnswer(r)
  BY <1>2, <1>3 DEF IsAnswer, Agrees
<1>6. r.err = "OK" => o.err = "OK"
  BY <1>2, <1>3 DEF Agrees
<1>7. \A j \in 1 .. 2 : Follows(c.states[j], r.ctx.states[j], c.groups[j].gid)
  BY <1>3, <1>4 DEF IsContext, Agrees
<1> QED BY <1>2, <1>4, <1>5, <1>6, <1>7 DEF CallMove, IsReplyOf

\* A call that is refused before any handler is called.
LEMMA RefusedMove ==
    ASSUME NEW c, IsContext(c), NEW gid, NEW err, err # "OK", NEW r \in Refused(err, c)
    PROVE  /\ CallMove(c, gid, r)
           /\ r.err # "OK" /\ r.out = {} /\ r.sdu = {}
<1>1. r.ctx = c /\ r.err = err /\ r.out = {} /\ r.sdu = {}
  BY DEF Refused, Reply
<1>2. \A i \in 1 .. 2 : Follows(c.states[i], c.states[i], c.groups[i].gid)
  BY DEF IsContext
<1> QED BY <1>1, <1>2 DEF CallMove, IsAnswer

\* A call that only makes a message, or delivers one.
LEMMA UnmovedMove ==
    ASSUME NEW c, IsContext(c), NEW gid, NEW out, NEW sdu
    PROVE  CallMove(c, gid, Reply("OK", c, out, sdu))
<1> DEFINE r == Reply("OK", c, out, sdu)
<1>1. r.ctx = c /\ r.err = "OK"
  BY DEF Reply
<1>2. \A i \in 1 .. 2 : Follows(c.states[i], c.states[i], c.groups[i].gid)
  BY DEF IsContext
<1> HIDE DEF r
<1>3. CallMove(c, gid, r)
  BY <1>1, <1>2 DEF CallMove, IsAnswer
<1> QED BY <1>3 DEF r

----------------------------------------------------------------------------
(* The checks of the calls and the conditions of the handlers agree *)

\* A context that no NULL pointer is in.
LEMMA PointersPass ==
    ASSUME NEW c, IsContext(c)
    PROVE  ClientCheckCtxPointers(c) = "OK"
BY DEF ClientCheckCtxPointers, IsContext, FirstError, Check

\* After a Response was accepted: a key, and no Response is expected.
HasKey(c, gid) ==
    \E i \in ClientFindGroup(c, gid) :
        c.states[i].currentStk # 0 /\ c.states[i].requestNonce = 0

\* Whatever Request it answers, a Response with a valid tag carries a key of
\* the Group its header names.
KeyIsOfTheGroup(pdu, h) ==
    \A nonce : pdu.tag = ResTag(OwnLtk, h, pdu.ctrnonce, nonce, pdu.client)
                    => pdu.stk \in StksOf(h.gid)

LEMMA ResponseAgrees ==
    ASSUME NEW c, IsContext(c), NEW pdu, NEW h, KeyIsOfTheGroup(pdu, h), NEW rx,
           NEW r \in ClientProcessReceivedResponse(c, pdu, h, rx)
    PROVE  /\ CallMove(c, h.gid, r)
           /\ r.out = {} /\ r.sdu = {}
           /\ r.err = "OK" => HasKey(r.ctx, h.gid)
<1> DEFINE known == ClientResponseForOtherErr(c, pdu, h)
           nonce(i) == c.states[i].requestNonce
           answers(i) == pdu.tag = ResTag(c.ltk, h, pdu.ctrnonce, nonce(i), pdu.client)
           m(i) == [client |-> pdu.client, stk |-> pdu.stk, ctrnonce |-> pdu.ctrnonce,
                    reqnonce |-> nonce(i)]
           err(i) == ClientResponseErr(c, i, pdu, h, rx)
           outcomes(i) == Session(c, i)!ClientProcessReceivedResponse(
                                c.states[i], m(i), answers(i), rx)
<1>1. CASE known # "OK"
  <2>1. r \in Refused(known, c)
    BY <1>1 DEF ClientProcessReceivedResponse
  <2> QED BY <1>1, <2>1, RefusedMove
<1>2. CASE known = "OK"
  <2>1. pdu.client = c.sid
    BY <1>2, FourChecks DEF ClientResponseForOtherErr, Check
  <2>2. PICK i \in ClientFindGroup(c, h.gid) : r \in Replies(c, i, err(i), outcomes(i), 0, {})
    BY <1>2 DEF ClientProcessReceivedResponse
  <2>3. i \in 1 .. 2 /\ c.groups[i].gid = h.gid
    BY FoundGroup
  <2>4. IsGroup(c.states[i]) /\ Follows(c.states[i], c.states[i], h.gid)
    BY <2>3 DEF IsContext, Follows
  <2>5. err(i) = "OK" <=> /\ nonce(i) # 0
                          /\ Session(c, i)!ClientIsResponseAcceptable(c.states[i], rx)
                          /\ ~Session(c, i)!CtrnonceIsExpired(pdu.ctrnonce)
                          /\ answers(i) /\ pdu.stk # 0
    <3>1. Session(c, i)!ClientIsResponseAcceptable(c.states[i], rx) \in BOOLEAN
      BY DEF Session!ClientIsResponseAcceptable
    <3>2. Session(c, i)!CtrnonceIsExpired(pdu.ctrnonce) \in BOOLEAN
      BY DEF Session!CtrnonceIsExpired
    <3> QED BY <3>1, <3>2, FiveChecks DEF ClientResponseErr, Check
  <2> DEFINE valid == /\ Session(c, i)!ClientIsResponseValid(c.states[i], m(i), answers(i), rx)
                      /\ m(i).reqnonce = c.states[i].requestNonce
  <2>6. valid <=> err(i) = "OK"
    <3>1. Session(c, i)!ClientIsResponseAcceptable(c.states[i], rx) => nonce(i) # 0
      BY DEF Session!ClientIsResponseAcceptable, Session!NotExpectingAResponse
    <3>2. /\ m(i).client = pdu.client /\ m(i).stk = pdu.stk /\ m(i).ctrnonce = pdu.ctrnonce
          /\ m(i).reqnonce = nonce(i)
      OBVIOUS
    <3> HIDE DEF err, m
    <3> QED BY <2>1, <2>5, <3>1, <3>2 DEF Session!ClientIsResponseValid, Session!NoStk
  <2>7. answers(i) => pdu.stk \in StksOf(h.gid)
    BY DEF KeyIsOfTheGroup, IsContext
  <2>8. answers(i) \in BOOLEAN /\ m(i).stk = pdu.stk
    OBVIOUS
  <2> HIDE DEF err, m, answers
  <2>9. ASSUME NEW o \in outcomes(i)
        PROVE  /\ Agrees(c, i, err(i), o)
               /\ o.out = {} /\ o.sdu = {}
               /\ o.err = "OK" => o.group.currentStk # 0 /\ o.group.requestNonce = 0
    <3>1. /\ IsGroup(o.group)
          /\ o.out = {} /\ o.sdu = {}
          /\ valid => /\ o.err = "OK"
                      /\ o.group.currentStk = m(i).stk
                      /\ o.group.previousStk = c.states[i].previousStk
                      /\ o.group.requestNonce = 0
          /\ ~valid => o.err = "REFUSED" /\ o.group = c.states[i]
      <4> DEFINE g == c.states[i]
                 n == m(i)
                 a == answers(i)
      <4>1. IsGroup(g) /\ a \in BOOLEAN /\ o \in Session(c, i)!ClientProcessReceivedResponse(g, n, a, rx)
        BY <2>4, <2>8
      <4> HIDE DEF g, n, a
      <4>2. LET v == Session(c, i)!ClientIsResponseValid(g, n, a, rx)
                     /\ n.reqnonce = g.requestNonce
            IN  /\ IsGroup(o.group)
                /\ o.out = {} /\ o.sdu = {}
                /\ v => /\ o.err = "OK"
                        /\ o.group.currentStk = n.stk /\ o.group.previousStk = g.previousStk
                        /\ o.group.requestNonce = 0
                /\ ~v => o.err = "REFUSED" /\ o.group = g
        BY <4>1, ResponseMove
      <4> QED BY <4>2 DEF g, n, a
    <3> HIDE DEF valid
    <3>2. valid => answers(i) /\ pdu.stk = StkOf(h.gid) /\ pdu.stk # 0
      BY <2>5, <2>6, <2>7 DEF StksOf
    <3>3. Follows(c.states[i], o.group, h.gid)
      <4> DEFINE s == c.states[i]
      <4>1. CASE valid
        <5>1. /\ o.group.currentStk = StkOf(h.gid) /\ o.group.previousStk = s.previousStk
              /\ o.group.requestNonce = 0 /\ IsGroup(o.group)
          BY <2>8, <3>1, <3>2, <4>1
        <5>2. s.previousStk \in {0, StkOf(h.gid)}
          BY <2>4 DEF Follows, HasSession, HasNoSession
        <5> HIDE DEF s
        <5> QED BY <5>1, <5>2 DEF Follows, HasSession
      <4>2. CASE ~valid
        BY <2>4, <3>1, <4>2
      <4> QED BY <4>1, <4>2
    <3> QED BY <2>3, <2>6, <2>8, <3>1, <3>2, <3>3 DEF Agrees, IsAnswer
  <2> HIDE DEF outcomes, valid
  <2>10. \A o \in outcomes(i) : Agrees(c, i, err(i), o)
    BY <2>9
  <2>11. /\ CallMove(c, c.groups[i].gid, r)
         /\ \E o \in outcomes(i) : IsReplyOf(c, i, 0, {}, o, r)
    BY <2>2, <2>3, <2>10, RepliesMove
  <2>12. PICK o \in outcomes(i) : IsReplyOf(c, i, 0, {}, o, r)
    BY <2>11
  <2>13. r.out = {} /\ r.sdu = {}
    BY <2>9, <2>12 DEF IsReplyOf
  <2>14. IsContext(r.ctx)
    BY <2>11 DEF CallMove
  <2>15. ClientFindGroup(r.ctx, h.gid) = {i}
    BY <2>14, FoundGroup
  <2>16. r.err = "OK" => HasKey(r.ctx, h.gid)
    BY <2>9, <2>12, <2>15 DEF IsReplyOf, HasKey
  <2> QED BY <2>3, <2>11, <2>13, <2>16
<1> QED BY <1>1, <1>2

\* The counter nonce's checks say what the handlers ask.
LEMMA CtrnonceErrAgrees ==
    ASSUME NEW c, NEW i, NEW group, NEW ctrnonce, NEW rx
    PROVE  ClientCtrnonceErr(c, i, group, ctrnonce, rx) = "OK"
              <=> Session(c, i)!ClientCheckRxCtrnonce(group, ctrnonce, rx)
<1> DEFINE expired == Session(c, i)!CtrnonceIsExpired(ctrnonce)
           checked == Session(c, i)!ClientCheckRxCtrnonce(group, ctrnonce, rx)
           errs == <<Check(expired, "SECWARN_RECEIVED_OVERFLOWN_NONCE"),
                     Check(~checked, "SECWARN_OLD_MESSAGE")>>
<1>1. ClientCtrnonceErr(c, i, group, ctrnonce, rx) = FirstError(errs)
  BY DEF ClientCtrnonceErr
<1>2. checked => ~expired
  BY DEF Session!ClientCheckRxCtrnonce
<1>3. expired \in BOOLEAN /\ checked \in BOOLEAN
  BY DEF Session!ClientCheckRxCtrnonce, Session!CtrnonceIsExpired
<1> HIDE DEF expired, checked
<1>4. /\ DOMAIN errs = 1 .. 2
      /\ errs[1] = "OK" <=> ~expired
      /\ errs[2] = "OK" <=> checked
  BY <1>3 DEF Check
<1> HIDE DEF errs
<1>5. FirstError(errs) = "OK" <=> \A k \in 1 .. 2 : errs[k] = "OK"
  BY <1>4, FirstErrorPasses
<1> QED BY <1>1, <1>2, <1>4, <1>5 DEF checked

\* A tag tells which message it is of, with which key and which header.
LEMMA TagsTell ==
    ASSUME NEW k, NEW h, NEW n, NEW x, NEW client
    PROVE  /\ SadfdTag(k, h, n, x).label = "SADFD" /\ SadfdTag(k, h, n, x).h = h
           /\ SadfdTag(k, h, n, x).key = k
           /\ RenTag(k, h, n).label = "REN" /\ RenTag(k, h, n).key = k
           /\ ResTag(k, h, n, x, client).label = "RES" /\ ResTag(k, h, n, x, client).h = h
           /\ NoTag.label = "none"
BY DEF SadfdTag, RenTag, ResTag, NoTag, Tag

\* Messages the Client builds for a Group, with so many bytes of user data.
IsBuilt(c, gid, ptlen, r, x) ==
    \E i \in ClientFindGroup(c, gid) : \E m :
        x = ClientPdu(c, i, m, ptlen) /\ IsOfGroup(m, r.ctx.states[i])

LEMMA RenewalAgrees ==
    ASSUME NEW c, IsContext(c), NEW pdu, pdu.len \in Int, NEW h, NEW rx,
           NEW fresh, IsFresh(fresh),
           NEW r \in ClientProcessReceivedRenewal(c, pdu, h, rx, fresh)
    PROVE  /\ CallMove(c, h.gid, r)
           /\ r.sdu = {}
           /\ r.err = "OK" => r.out # {}
           /\ \A x \in r.out : IsBuilt(c, h.gid, 0, r, x)
<1> DEFINE known == FirstError(<<Check(h.sid # ServerSid, "SECWARN_SERVER_ONLY_MESSAGE"),
                                 Check(ClientFindGroup(c, h.gid) = {}, "MSG_IGNORED")>>)
           m == [stk |-> pdu.tag.key, ctrnonce |-> pdu.ctrnonce]
           intact == /\ pdu.len >= HeaderLen(c.headerType) + MetadataLen(REN)
                     /\ pdu.tag = RenTag(pdu.tag.key, h, pdu.ctrnonce)
           err(i) == ClientRenewalErr(c, i, pdu, h, rx)
           outcomes(i) == Session(c, i)!ClientProcessReceivedRenewal(
                                c.states[i], m, intact, rx, fresh)
<1>1. CASE known # "OK"
  <2>1. r \in Refused(known, c)
    BY <1>1 DEF ClientProcessReceivedRenewal
  <2> HIDE DEF known
  <2> QED BY <1>1, <2>1, RefusedMove
<1>2. CASE known = "OK"
  <2>1. PICK i \in ClientFindGroup(c, h.gid) : r \in Replies(c, i, err(i), outcomes(i), 0, {})
    BY <1>2 DEF ClientProcessReceivedRenewal
  <2>2. i \in 1 .. 2 /\ c.groups[i].gid = h.gid
    BY FoundGroup
  <2> DEFINE g == c.states[i]
             established == Session(c, i)!ClientIsSessionEstablishedAndValid(g)
             acceptable == Session(c, i)!ClientIsRenewalAcceptable(g)
             checked == Session(c, i)!ClientCheckRxCtrnonce(g, pdu.ctrnonce, rx)
             long == pdu.len >= HeaderLen(c.headerType) + MetadataLen(REN)
             tagged == pdu.tag = RenTag(g.currentStk, h, pdu.ctrnonce)
  <2>3. IsGroup(g)
    BY <2>2 DEF IsContext, Follows
  <2>4. err(i) = "OK" <=> established /\ acceptable /\ long /\ checked /\ tagged
    <3> DEFINE short == pdu.len < HeaderLen(c.headerType) + MetadataLen(REN)
               a == Check(~established, "SESSION_NOT_ESTABLISHED")
               b == Check(~acceptable, "MSG_IGNORED")
               d == Check(short, "TOO_SHORT_PDU_TO_CONTAIN_REN")
               e == ClientCtrnonceErr(c, i, g, pdu.ctrnonce, rx)
               f == Check(~tagged, "SECWARN_INVALID_TAG")
    <3>1. err(i) = FirstError(<<a, b, d, e, f>>)
      BY DEF ClientRenewalErr
    <3>2. short <=> ~long
      <4>1. c.headerType = Type /\ HeaderLen(Type) \in Nat /\ MetadataLen(REN) \in Nat
        BY TypeAssumption DEF IsContext, HeaderLen, MetadataLen, REN, RES, REQ, SADFD, UAD
      <4> QED BY <4>1
    <3>3. e = "OK" <=> checked
      BY CtrnonceErrAgrees
    <3>4. established \in BOOLEAN /\ acceptable \in BOOLEAN /\ long \in BOOLEAN /\ tagged \in BOOLEAN
      BY DEF Session!ClientIsSessionEstablishedAndValid, Session!ClientIsRenewalAcceptable
    <3> HIDE DEF err, established, acceptable, checked, long, tagged, short, e
    <3>5. (a = "OK" <=> established) /\ (b = "OK" <=> acceptable) /\ (f = "OK" <=> tagged)
      BY <3>4 DEF Check
    <3>6. d = "OK" <=> long
      BY <3>2 DEF Check
    <3> HIDE DEF a, b, d, f
    <3> QED BY <3>1, <3>3, <3>5, <3>6, FiveChecks
  <2>5. intact /\ pdu.tag.key = g.currentStk <=> long /\ tagged
    BY TagsTell
  <2>6. intact \in BOOLEAN /\ m.stk = pdu.tag.key /\ m.ctrnonce = pdu.ctrnonce
    OBVIOUS
  <2>7. ASSUME NEW o \in outcomes(i)
        PROVE  /\ Agrees(c, i, err(i), o)
               /\ o.sdu = {}
               /\ o.err = "OK" => o.out # {}
               /\ \A x \in o.out : IsOfGroup(x, o.group)
    <3> DEFINE all == RenewalIsTaken(c, i, g, m, intact, rx)
    <3>1. all <=> err(i) = "OK"
      <4>1. all <=> established /\ acceptable /\ checked /\ intact /\ pdu.tag.key = g.currentStk
        <5> HIDE DEF m, intact, g
        <5> QED BY <2>6 DEF RenewalIsTaken
      <4> HIDE DEF m, intact, err, established, acceptable, checked, g, long, tagged, all
      <4> QED BY <2>4, <2>5, <4>1
    <3>2. o \in Session(c, i)!ClientProcessReceivedRenewal(g, m, intact, rx, fresh)
      OBVIOUS
    <3> HIDE DEF m, intact, g, err
    <3>3. /\ KeysMove(g, o.group)
          /\ IsAnswer(o) /\ o.sdu = {}
          /\ o.err = "OK" => o.out # {}
          /\ o.err \in {"OK", "FAILED"} <=> all
          /\ \A x \in o.out : IsOfGroup(x, o.group)
      BY <2>3, <2>6, <3>2, RenewalMove
    <3> HIDE DEF all
    <3>4. Follows(c.states[i], o.group, c.groups[i].gid)
      BY <2>2, <3>3, MovedKeysAreOfTheGroup DEF g
    <3> QED BY <3>1, <3>3, <3>4 DEF Agrees
  <2> HIDE DEF outcomes, err
  <2>8. \A o \in outcomes(i) : Agrees(c, i, err(i), o)
    BY <2>7
  <2>9. /\ CallMove(c, c.groups[i].gid, r)
        /\ \E o \in outcomes(i) : IsReplyOf(c, i, 0, {}, o, r)
    BY <2>1, <2>2, <2>8, RepliesMove
  <2>10. PICK o \in outcomes(i) : IsReplyOf(c, i, 0, {}, o, r)
    BY <2>9
  <2>11. r.sdu = {} /\ (r.err = "OK" => r.out # {})
    BY <2>7, <2>10 DEF IsReplyOf
  <2>12. \A x \in r.out : IsBuilt(c, h.gid, 0, r, x)
    BY <2>7, <2>10 DEF IsReplyOf, IsBuilt
  <2> QED BY <2>2, <2>9, <2>11, <2>12
<1> QED BY <1>1, <1>2

\* Secured data that arrived whole, authenticated with the header as read.
IsWhole(pdu, h) ==
    /\ SadfdIsWhole(Type, pdu)
    /\ pdu.tag = SadfdTag(pdu.tag.key, h, pdu.ctrnonce, pdu.ptlen)

LEMMA SecuredFdAgrees ==
    ASSUME NEW c, IsContext(c), NEW pdu, pdu.len \in Int, pdu.ptlen \in Nat, NEW h, NEW rx,
           NEW r \in ClientProcessReceivedSecuredFd(c, pdu, h, rx)
    PROVE  /\ CallMove(c, h.gid, r)
           /\ r.out = {}
           /\ r.err = "OK" => r.sdu # {}
           /\ \A sdu \in r.sdu : sdu.gid = h.gid /\ IsWhole(pdu, h)
<1> DEFINE m == [sid |-> h.sid, stk |-> pdu.tag.key, ctrnonce |-> pdu.ctrnonce]
           whole == SadfdIsWhole(c.headerType, pdu)
           intact == /\ whole
                     /\ pdu.tag = SadfdTag(pdu.tag.key, h, pdu.ctrnonce, pdu.ptlen)
           left(i) == Session(c, i)!ClientPhaseExitIfNeeded(c.states[i], rx)
           err(i) == ClientSadfdErr(c, i, pdu, h, left(i), rx)
           outcomes(i) == Session(c, i)!ClientProcessReceivedSecuredFd(
                                c.states[i], m, intact, rx)
           sdu == SduOf(h, pdu.ptlen, TRUE)
<1>1. CASE ClientFindGroup(c, h.gid) = {}
  <2>1. r \in Refused("MSG_IGNORED", c)
    BY <1>1 DEF ClientProcessReceivedSecuredFd
  <2> QED BY <2>1, RefusedMove
<1>2. CASE ClientFindGroup(c, h.gid) # {}
  <2>1. PICK i \in ClientFindGroup(c, h.gid) : r \in Replies(c, i, err(i), outcomes(i), 0, sdu)
    BY <1>2 DEF ClientProcessReceivedSecuredFd
  <2>2. i \in 1 .. 2 /\ c.groups[i].gid = h.gid
    BY FoundGroup
  <2> DEFINE e == left(i)
             stk == Session(c, i)!ClientChooseStk(
                        e, Session(c, i)!ClientIsPreviousSession(e, pdu.ctrnonce))
             established == Session(c, i)!ClientIsSessionEstablishedAndValid(e)
             checked == Session(c, i)!ClientCheckRxCtrnonce(e, pdu.ctrnonce, rx)
             tagged == pdu.tag = SadfdTag(stk, h, pdu.ctrnonce, pdu.ptlen)
  <2>3. IsGroup(c.states[i])
    BY <2>2 DEF IsContext, Follows
  <2>4. err(i) = "OK" <=> established /\ checked /\ whole /\ tagged
    <3> DEFINE short == pdu.len < HeaderLen(c.headerType) + MetadataLen(SADFD)
               a == Check(~established, "SESSION_NOT_ESTABLISHED")
               b == Check(short, "TOO_SHORT_PDU_TO_CONTAIN_SADFD")
               d == ClientCtrnonceErr(c, i, e, pdu.ctrnonce, rx)
               x == Check(~whole, "TOO_LONG_CIPHERTEXT")
               y == Check(~tagged, "SECWARN_INVALID_TAG")
    <3>1. err(i) = FirstError(<<a, b, d, x, y>>)
      BY DEF ClientSadfdErr
    <3>2. whole => ~short
      <4>1. c.headerType = Type /\ HeaderLen(Type) \in Nat /\ MetadataLen(SADFD) \in Nat
        BY TypeAssumption DEF IsContext, HeaderLen, MetadataLen, REN, RES, REQ, SADFD, UAD
      <4> QED BY <4>1 DEF SadfdIsWhole
    <3>3. d = "OK" <=> checked
      BY CtrnonceErrAgrees
    <3>4. established \in BOOLEAN /\ whole \in BOOLEAN /\ tagged \in BOOLEAN /\ short \in BOOLEAN
      BY DEF Session!ClientIsSessionEstablishedAndValid, SadfdIsWhole
    <3> HIDE DEF err, established, checked, whole, tagged, short, d
    <3>5. /\ a = "OK" <=> established
          /\ b = "OK" <=> ~short
          /\ x = "OK" <=> whole
          /\ y = "OK" <=> tagged
      BY <3>4 DEF Check
    <3> HIDE DEF a, b, x, y
    <3> QED BY <3>1, <3>2, <3>3, <3>5, FiveChecks
  <2>5. intact /\ pdu.tag.key = stk <=> whole /\ tagged
    BY TagsTell
  <2>6. intact \in BOOLEAN /\ m.stk = pdu.tag.key /\ m.ctrnonce = pdu.ctrnonce
    BY DEF SadfdIsWhole
  <2>7. ASSUME NEW o \in outcomes(i)
        PROVE  /\ Agrees(c, i, err(i), o)
               /\ o.out = {}
               /\ o.err = "OK" => o.sdu # {}
               /\ o.sdu # {} => intact
    <3> DEFINE all == /\ Session(c, i)!ClientIsSessionEstablishedAndValid(e)
                      /\ intact
                      /\ Session(c, i)!ClientCheckRxCtrnonce(e, m.ctrnonce, rx)
                      /\ m.stk = Session(c, i)!ClientChooseStk(
                                    e, Session(c, i)!ClientIsPreviousSession(e, m.ctrnonce))
    <3>1. all <=> err(i) = "OK"
      <4> HIDE DEF m, intact, err, left, whole, tagged
      <4> QED BY <2>4, <2>5, <2>6
    <3>2. o \in Session(c, i)!ClientProcessReceivedSecuredFd(c.states[i], m, intact, rx)
      OBVIOUS
    <3> HIDE DEF m, intact, err
    <3>3. /\ KeysMove(c.states[i], o.group)
          /\ o.out = {}
          /\ all => o.err = "OK" /\ o.sdu # {}
          /\ ~all => o.err \in {"NO_SESSION", "REFUSED"} /\ o.sdu = {}
      BY <2>3, <2>6, <3>2, SecuredFdMove
    <3>4. all => intact
      OBVIOUS
    <3> HIDE DEF all
    <3>5. Follows(c.states[i], o.group, c.groups[i].gid)
      BY <2>2, <3>3, MovedKeysAreOfTheGroup
    <3> QED BY <3>1, <3>3, <3>4, <3>5 DEF Agrees, IsAnswer
  <2>8. sdu.gid = h.gid
    BY DEF SduOf
  <2>9. intact => IsWhole(pdu, h)
    BY DEF IsWhole, IsContext
  <2> HIDE DEF outcomes, err, sdu, intact
  <2>10. \A o \in outcomes(i) : Agrees(c, i, err(i), o)
    BY <2>7
  <2>11. /\ CallMove(c, c.groups[i].gid, r)
         /\ \E o \in outcomes(i) : IsReplyOf(c, i, 0, sdu, o, r)
    BY <2>1, <2>2, <2>10, RepliesMove
  <2>12. PICK o \in outcomes(i) : IsReplyOf(c, i, 0, sdu, o, r)
    BY <2>11
  <2>13. r.out = {} /\ (r.err = "OK" => r.sdu # {})
    BY <2>7, <2>12 DEF IsReplyOf
  <2>14. \A x \in r.sdu : x.gid = h.gid /\ IsWhole(pdu, h)
    BY <2>7, <2>8, <2>9, <2>12 DEF IsReplyOf
  <2> QED BY <2>2, <2>11, <2>13, <2>14
<1> QED BY <1>1, <1>2

\* What a reception may return: of a call on the context, for the Group the
\* header names.
LEMMA ProcessReceivedMove ==
    ASSUME NEW c, IsContext(c), NEW call, NEW h, h = HeaderUnpack(Type, call.pdu.header),
           call.null = {}, call.pdu.len \in Int, call.pdu.ptlen \in Nat,
           KeyIsOfTheGroup(call.pdu, h), NEW rx, NEW fresh, IsFresh(fresh),
           NEW r \in ClientProcessReceived(c, call, rx, fresh)
    PROVE  /\ CallMove(c, h.gid, r)
           /\ r.err = "OK" /\ r.out = {} /\ r.sdu = {} => HasKey(r.ctx, h.gid)
           /\ \A sdu \in r.sdu : sdu.wasSecured => sdu.gid = h.gid /\ IsWhole(call.pdu, h)
           /\ \A x \in r.out : IsBuilt(c, h.gid, 0, r, x)
<1>1. ASSUME NEW err, err # "OK", r \in Refused(err, c)
      PROVE  CallMove(c, h.gid, r) /\ r.err # "OK" /\ r.sdu = {} /\ r.out = {}
  BY <1>1, RefusedMove
<1>2. CASE r \in ClientProcessReceivedResponse(c, call.pdu, h, rx)
  BY <1>2, ResponseAgrees
<1>3. CASE r \in ClientProcessReceivedRenewal(c, call.pdu, h, rx, fresh)
  BY <1>3, RenewalAgrees
<1>4. CASE r \in ClientProcessReceivedSecuredFd(c, call.pdu, h, rx)
  BY <1>4, SecuredFdAgrees
<1>5. ASSUME NEW n, r = Reply("OK", c, {}, {SduOf(h, n, FALSE)})
      PROVE  /\ CallMove(c, h.gid, r)
             /\ r.sdu # {} /\ r.out = {}
             /\ \A sdu \in r.sdu : ~sdu.wasSecured
  <2>1. CallMove(c, h.gid, r)
    BY <1>5, UnmovedMove
  <2> DEFINE sdu == SduOf(h, n, FALSE)
  <2>2. ~sdu.wasSecured
    BY DEF SduOf
  <2> HIDE DEF sdu
  <2>3. r.sdu = {sdu} /\ r.out = {}
    BY <1>5 DEF Reply, sdu
  <2> QED BY <2>1, <2>2, <2>3
<1>6. CASE r \in ClientProcessReceivedPayload(c, call.pdu, rx, fresh)
  <2>1. c.headerType = Type
    BY DEF IsContext
  <2>2. \/ \E err : err # "OK" /\ r \in Refused(err, c)
        \/ r \in ClientProcessReceivedResponse(c, call.pdu, h, rx)
        \/ r \in ClientProcessReceivedRenewal(c, call.pdu, h, rx, fresh)
        \/ r \in ClientProcessReceivedSecuredFd(c, call.pdu, h, rx)
        \/ \E n : r = Reply("OK", c, {}, {SduOf(h, n, FALSE)})
    BY <1>6, <2>1, Zenon DEF ClientProcessReceivedPayload
  <2> QED BY <1>1, <1>2, <1>3, <1>4, <1>5, <2>2
<1>7. \/ \E err : err # "OK" /\ r \in Refused(err, c)
      \/ r \in ClientProcessReceivedPayload(c, call.pdu, rx, fresh)
  BY DEF ClientProcessReceived
<1> QED BY <1>1, <1>6, <1>7

\* A message that passes the check before packing fits its frame.
LEMMA MessageFits ==
    ASSUME NEW gid \in Gids, NEW pty \in {SADFD, UAD}, NEW data \in Data,
           MsgBeforePackingErr(Type, gid, pty, data) = "OK"
    PROVE  /\ gid \in 0 .. HeaderTypeMaxGid(Type)
           /\ data.len \in Nat
           /\ HeaderLen(Type) + MetadataLen(pty) + data.len <= MaxCanFdDataLen
<1>1. /\ HeaderLen(Type) \in Nat /\ MetadataLen(pty) \in Nat /\ HeaderTypeMaxGid(Type) \in Nat
      /\ data.len \in Nat /\ MaxCanFdDataLen \in Nat
  BY TypeAssumption
  DEF HeaderLen, HeaderTypeMaxGid, MetadataLen, REN, RES, REQ, SADFD, UAD, Data, MaxCanFdDataLen
<1>2. /\ ~(gid > HeaderTypeMaxGid(Type))
      /\ ~(data.len > MaxCanFdDataLen - HeaderLen(Type) - MetadataLen(pty))
  BY ThreeChecks DEF MsgBeforePackingErr, Check
<1>3. gid \in Nat
  BY DEF Gids
<1> QED BY <1>1, <1>2, <1>3

\* What a call that builds a message of user data may return.
LEMMA BuildUnsecuredMove ==
    ASSUME NEW c, IsContext(c), NEW call, call.gid \in Gids, call.null = {}, call.data \in Data,
           NEW r \in ClientBuildUnsecured(c, call)
    PROVE  /\ CallMove(c, call.gid, r)
           /\ r.sdu = {}
           /\ r.err = "OK" => r.out # {}
           /\ \A x \in r.out :
                /\ call.gid \in 0 .. HeaderTypeMaxGid(Type)
                /\ call.data.len \in Nat
                /\ HeaderLen(Type) + MetadataLen(UAD) + call.data.len <= MaxCanFdDataLen
                /\ x = PduOf(Type, Header(call.gid, OwnSid, UAD), call.data.len)
<1> DEFINE n == call.data.len
           err == FirstError(<<
                    ClientCheckCtxPointers(c),
                    Check("unsecuredPdu" \in call.null, "NULL_PDU"),
                    IF c.null # {} THEN "OK"
                    ELSE MsgBeforePackingErr(c.headerType, call.gid, UAD, call.data)>>)
           pdu == PduOf(Type, Header(call.gid, OwnSid, UAD), n)
<1>1. CASE err # "OK"
  <2>1. r \in Refused(err, c)
    BY <1>1 DEF ClientBuildUnsecured
  <2> HIDE DEF err
  <2> QED BY <1>1, <2>1, RefusedMove
<1>2. CASE err = "OK"
  <2>1. r = Reply("OK", c, {pdu}, {})
    BY <1>2 DEF ClientBuildUnsecured, IsContext
  <2>2. CallMove(c, call.gid, r) /\ r.out = {pdu} /\ r.sdu = {}
    BY <2>1, UnmovedMove DEF Reply
  <2>3. MsgBeforePackingErr(Type, call.gid, UAD, call.data) = "OK"
    BY <1>2, ThreeChecks DEF IsContext
  <2>4. /\ call.gid \in 0 .. HeaderTypeMaxGid(Type) /\ n \in Nat
        /\ HeaderLen(Type) + MetadataLen(UAD) + n <= MaxCanFdDataLen
    BY <2>3, MessageFits
  <2> HIDE DEF pdu, n
  <2> QED BY <2>2, <2>4 DEF pdu, n
<1> QED BY <1>1, <1>2

LEMMA BuildSecuredFdCallMove ==
    ASSUME NEW c, IsContext(c), NEW call, call.gid \in Gids, call.null = {}, call.data \in Data,
           NEW r \in ClientBuildSecuredFd(c, call)
    PROVE  /\ CallMove(c, call.gid, r)
           /\ r.sdu = {}
           /\ r.err = "OK" => r.out # {}
           /\ \A x \in r.out :
                /\ call.data.len \in Nat
                /\ HeaderLen(Type) + MetadataLen(SADFD) + call.data.len <= MaxCanFdDataLen
                /\ IsBuilt(c, call.gid, call.data.len, r, x)
<1> DEFINE gid == call.gid
           n == call.data.len
           checks == FirstError(<<
                Check("securedPdu" \in call.null, "NULL_PDU"),
                ClientCheckCtxPointers(c),
                IF c.null # {} THEN "OK"
                ELSE MsgBeforePackingErr(c.headerType, gid, SADFD, call.data),
                Check(c.null = {} /\ ClientFindGroup(c, gid) = {}, "UNKNOWN_GROUP")>>)
           established(i) == Session(c, i)!ClientIsSessionEstablishedAndValid(c.states[i])
           err(i) == Check(~established(i), "SESSION_NOT_ESTABLISHED")
           outcomes(i) == Session(c, i)!ClientBuildSecuredFd(c.states[i])
<1>1. CASE checks # "OK"
  <2>1. r \in Refused(checks, c)
    BY <1>1 DEF ClientBuildSecuredFd
  <2> HIDE DEF checks
  <2> QED BY <1>1, <2>1, RefusedMove
<1>2. CASE checks = "OK"
  <2>1. PICK i \in ClientFindGroup(c, gid) : r \in Replies(c, i, err(i), outcomes(i), n, {})
    BY <1>2 DEF ClientBuildSecuredFd
  <2>2. MsgBeforePackingErr(Type, gid, SADFD, call.data) = "OK"
    BY <1>2, FourChecks DEF IsContext
  <2>3. n \in Nat /\ HeaderLen(Type) + MetadataLen(SADFD) + n <= MaxCanFdDataLen
    BY <2>2, MessageFits
  <2>4. i \in 1 .. 2 /\ c.groups[i].gid = gid
    BY FoundGroup
  <2>5. IsGroup(c.states[i])
    BY <2>4 DEF IsContext, Follows
  <2>6. err(i) = "OK" <=> established(i)
    BY DEF Check
  <2>7. ASSUME NEW o \in outcomes(i)
        PROVE  /\ Agrees(c, i, err(i), o)
               /\ o.sdu = {}
               /\ o.err = "OK" => o.out # {}
               /\ \A m \in o.out : IsOfGroup(m, o.group)
    <3> HIDE DEF err
    <3>1. /\ KeysMove(c.states[i], o.group)
          /\ IsAnswer(o) /\ o.sdu = {}
          /\ o.err = "OK" => o.out # {}
          /\ o.err = "OK" <=> established(i)
          /\ \A m \in o.out : IsOfGroup(m, o.group)
      BY <2>5, BuildSecuredFdMove
    <3>2. Follows(c.states[i], o.group, c.groups[i].gid)
      BY <2>4, <3>1, MovedKeysAreOfTheGroup
    <3> QED BY <2>6, <3>1, <3>2 DEF Agrees
  <2> HIDE DEF outcomes, err, n
  <2>8. \A o \in outcomes(i) : Agrees(c, i, err(i), o)
    BY <2>7
  <2>9. /\ CallMove(c, c.groups[i].gid, r)
        /\ \E o \in outcomes(i) : IsReplyOf(c, i, n, {}, o, r)
    BY <2>1, <2>4, <2>8, RepliesMove
  <2>10. PICK o \in outcomes(i) : IsReplyOf(c, i, n, {}, o, r)
    BY <2>9
  <2>11. r.sdu = {} /\ (r.err = "OK" => r.out # {})
    BY <2>7, <2>10 DEF IsReplyOf
  <2>12. \A x \in r.out : IsBuilt(c, gid, n, r, x)
    BY <2>7, <2>10 DEF IsReplyOf, IsBuilt
  <2> QED BY <2>3, <2>4, <2>9, <2>11, <2>12 DEF n
<1> QED BY <1>1, <1>2

LEMMA BuildRequestCallMove ==
    ASSUME NEW c, IsContext(c), NEW call, call.null = {}, NEW now,
           NEW fresh, IsFresh(fresh),
           NEW r \in ClientBuildRequest(c, call, now, fresh)
    PROVE  /\ CallMove(c, call.gid, r)
           /\ r.sdu = {}
           /\ r.err = "OK" => r.out # {}
           /\ \A x \in r.out : IsBuilt(c, call.gid, 0, r, x)
<1> DEFINE gid == call.gid
           checks == FirstError(<<
                Check("requestPdu" \in call.null, "NULL_PDU"),
                ClientCheckCtxPointers(c),
                Check(c.null = {} /\ ClientFindGroup(c, gid) = {}, "UNKNOWN_GROUP")>>)
           ongoing(i) == Session(c, i)!ClientIsAHandshakeOngoing(c.states[i], now)
           err(i) == Check(ongoing(i), "HANDSHAKE_ONGOING")
           outcomes(i) == Session(c, i)!ClientBuildRequest(c.states[i], now, fresh)
<1>1. CASE checks # "OK"
  <2>1. r \in Refused(checks, c)
    BY <1>1 DEF ClientBuildRequest
  <2> HIDE DEF checks
  <2> QED BY <1>1, <2>1, RefusedMove
<1>2. CASE checks = "OK"
  <2>1. PICK i \in ClientFindGroup(c, gid) : r \in Replies(c, i, err(i), outcomes(i), 0, {})
    BY <1>2 DEF ClientBuildRequest
  <2>2. i \in 1 .. 2 /\ c.groups[i].gid = gid
    BY FoundGroup
  <2>3. IsGroup(c.states[i])
    BY <2>2 DEF IsContext, Follows
  <2>4. err(i) = "OK" <=> ~ongoing(i)
    BY DEF Check
  <2>5. ASSUME NEW o \in outcomes(i)
        PROVE  /\ Agrees(c, i, err(i), o)
               /\ o.sdu = {}
               /\ o.err = "OK" => o.out # {}
               /\ \A m \in o.out : IsOfGroup(m, o.group)
    <3> HIDE DEF err
    <3>1. /\ KeysMove(c.states[i], o.group)
          /\ IsAnswer(o) /\ o.sdu = {}
          /\ o.err = "OK" => o.out # {}
          /\ o.err # "FAILED" => (o.err = "OK" <=> ~ongoing(i))
          /\ \A m \in o.out : IsOfGroup(m, o.group)
      BY <2>3, BuildRequestMove
    <3>2. Follows(c.states[i], o.group, c.groups[i].gid)
      BY <2>2, <3>1, MovedKeysAreOfTheGroup
    <3> QED BY <2>4, <3>1, <3>2 DEF Agrees
  <2> HIDE DEF outcomes, err
  <2>6. \A o \in outcomes(i) : Agrees(c, i, err(i), o)
    BY <2>5
  <2>7. /\ CallMove(c, c.groups[i].gid, r)
        /\ \E o \in outcomes(i) : IsReplyOf(c, i, 0, {}, o, r)
    BY <2>1, <2>2, <2>6, RepliesMove
  <2>8. PICK o \in outcomes(i) : IsReplyOf(c, i, 0, {}, o, r)
    BY <2>7
  <2>9. r.sdu = {} /\ (r.err = "OK" => r.out # {})
    BY <2>5, <2>8 DEF IsReplyOf
  <2>10. \A x \in r.out : IsBuilt(c, gid, 0, r, x)
    BY <2>5, <2>8 DEF IsReplyOf, IsBuilt
  <2> QED BY <2>2, <2>7, <2>9, <2>10
<1> QED BY <1>1, <1>2

----------------------------------------------------------------------------
(* The messages built verify *)

\* What WhatIsSentVerifies says of a message, of any context and any GID.
Verifies(c, gid, pdu) ==
    LET h == HeaderUnpack(Type, pdu.header)
    IN  /\ ReceivedGenericMsgErr(Type, pdu, FALSE, ServerSid) = "OK"
        /\ h.sid = OwnSid
        /\ h.gid = gid
        /\ pdu.len \in HeaderLen(Type) + MetadataLen(h.pty) .. MaxCanFdDataLen
        /\ \A i \in ClientFindGroup(c, h.gid) :
            /\ h.pty = REQ => /\ pdu.tag = ReqTag(OwnLtk, h, pdu.reqnonce)
                              /\ pdu.reqnonce = c.states[i].requestNonce
            /\ h.pty = SADFD => pdu.tag = SadfdTag(c.states[i].currentStk, h,
                                                   pdu.ctrnonce, pdu.ptlen)

\* From the header once unpacked.
LEMMA VerifiesByHeader ==
    ASSUME NEW c, NEW gid, NEW pdu, NEW h, HeaderUnpack(Type, pdu.header) = h,
           ReceivedGenericMsgErr(Type, pdu, FALSE, ServerSid) = "OK",
           h.sid = OwnSid, h.gid = gid,
           pdu.len \in HeaderLen(Type) + MetadataLen(h.pty) .. MaxCanFdDataLen,
           \A i \in ClientFindGroup(c, gid) :
                h.pty = REQ => /\ pdu.tag = ReqTag(OwnLtk, h, pdu.reqnonce)
                               /\ pdu.reqnonce = c.states[i].requestNonce,
           \A i \in ClientFindGroup(c, gid) :
                h.pty = SADFD => pdu.tag = SadfdTag(c.states[i].currentStk, h,
                                                    pdu.ctrnonce, pdu.ptlen)
    PROVE  Verifies(c, gid, pdu)
BY DEF Verifies

\* The header types that have a GID for each Group and return what was packed.
\* Type 1 loses the Client's SID, type 2 the GID.
ClientTypes == {0, 3, 4}

\* What all messages of the Client pass at the Server.
LEMMA ClientPduIsReadable ==
    ASSUME Type \in ClientTypes, NEW gid \in 0 .. HeaderTypeMaxGid(Type),
           NEW pty \in {REQ, SADFD, UAD}, NEW n \in Nat,
           HeaderLen(Type) + MetadataLen(pty) + n <= MaxCanFdDataLen, NEW pdu,
           pdu.header = PduOf(Type, Header(gid, OwnSid, pty), n).header,
           pdu.len = PduOf(Type, Header(gid, OwnSid, pty), n).len
    PROVE  /\ HeaderUnpack(Type, pdu.header) = Header(gid, OwnSid, pty)
           /\ ReceivedGenericMsgErr(Type, pdu, FALSE, ServerSid) = "OK"
           /\ pdu.len \in HeaderLen(Type) + MetadataLen(pty) .. MaxCanFdDataLen
<1> DEFINE h == Header(gid, OwnSid, pty)
<1>1. h.pty = pty /\ h.sid = 2
  BY DEF Header, OwnSid
<1>2. /\ pdu.header = HeaderPack(Type, h)
      /\ pdu.len = HeaderLen(Type) + MetadataLen(pty) + n
  BY <1>1 DEF PduOf, Pdu
<1>3. HeaderLen(Type) \in Nat /\ MetadataLen(pty) \in Nat /\ MaxCanFdDataLen \in Nat
  BY TypeAssumption
  DEF HeaderLen, MetadataLen, REN, RES, REQ, SADFD, UAD, MaxCanFdDataLen
<1>4. HeaderUnpack(Type, pdu.header) = h
  <2>1. Type \in SoundTypes /\ OwnSid \in 0 .. HeaderTypeMaxSid(Type) /\ pty \in Ptys
    BY DEF ClientTypes, SoundTypes, OwnSid, HeaderTypeMaxSid, Ptys
  <2> QED BY <1>2, <2>1, RoundTrip
<1>5. ~(pdu.len < HeaderLen(Type)) /\ pdu.len \in Nat
  BY <1>2, <1>3
<1>6. ReceivedGenericMsgErr(Type, pdu, FALSE, ServerSid) = "OK"
  BY <1>1, <1>4, <1>5, ThreeChecks DEF ReceivedGenericMsgErr, Check, ServerSid
<1>7. pdu.len \in HeaderLen(Type) + MetadataLen(pty) .. MaxCanFdDataLen
  BY <1>2, <1>3
<1> QED BY <1>4, <1>6, <1>7

\* Whatever the Client builds for a Group, with the nonce or the key that Group
\* then has.
LEMMA ClientPduVerifies ==
    ASSUME Type \in ClientTypes, NEW c, IsContext(c), NEW gid, NEW ptlen \in Nat,
           HeaderLen(Type) + MetadataLen(SADFD) + ptlen <= MaxCanFdDataLen,
           NEW r, IsContext(r.ctx), NEW pdu, IsBuilt(c, gid, ptlen, r, pdu)
    PROVE  Verifies(r.ctx, gid, pdu)
<1>1. PICK i \in ClientFindGroup(c, gid) :
        \E m : pdu = ClientPdu(c, i, m, ptlen) /\ IsOfGroup(m, r.ctx.states[i])
  BY DEF IsBuilt
<1>2. PICK m : pdu = ClientPdu(c, i, m, ptlen) /\ IsOfGroup(m, r.ctx.states[i])
  BY <1>1
<1>3. i \in 1 .. 2 /\ c.groups[i].gid = gid /\ ClientFindGroup(r.ctx, gid) = {i}
  BY FoundGroup
<1>4. gid \in 0 .. HeaderTypeMaxGid(Type)
  BY <1>3, TwoGroups DEF ClientTypes, HeaderTypeMaxGid
<1>5. c.headerType = Type /\ c.sid = OwnSid /\ c.ltk = OwnLtk
  BY DEF IsContext
<1>6. REQ # SADFD /\ "REQ" # "SADFD"
  BY DEF REQ, SADFD
<1>7. CASE m.pty = "REQ" /\ m.reqnonce = r.ctx.states[i].requestNonce
  <2> DEFINE h == Header(gid, OwnSid, REQ)
  <2>1. h.gid = gid /\ h.sid = OwnSid /\ h.pty = REQ
    BY DEF Header
  <2>2. pdu = [PduOf(Type, h, 0) EXCEPT !.reqnonce = m.reqnonce,
                                        !.tag = ReqTag(OwnLtk, h, m.reqnonce)]
    BY <1>2, <1>3, <1>5, <1>7 DEF ClientPdu, ClientReqPdu
  <2>3. /\ pdu.header = PduOf(Type, h, 0).header /\ pdu.len = PduOf(Type, h, 0).len
        /\ pdu.reqnonce = m.reqnonce /\ pdu.tag = ReqTag(OwnLtk, h, m.reqnonce)
    BY <2>2 DEF PduOf, Pdu
  <2>4. /\ HeaderUnpack(Type, pdu.header) = h
        /\ ReceivedGenericMsgErr(Type, pdu, FALSE, ServerSid) = "OK"
        /\ pdu.len \in HeaderLen(Type) + MetadataLen(REQ) .. MaxCanFdDataLen
    <3>1. HeaderLen(Type) + MetadataLen(REQ) + 0 <= MaxCanFdDataLen
      BY TypeAssumption
      DEF HeaderLen, MetadataLen, REN, RES, REQ, SADFD, UAD, MaxCanFdDataLen
    <3> QED BY <1>4, <2>3, <3>1, ClientPduIsReadable
  <2> HIDE DEF h
  <2>5. pdu.len \in HeaderLen(Type) + MetadataLen(h.pty) .. MaxCanFdDataLen
    BY <2>1, <2>4
  <2>6. \A j \in ClientFindGroup(r.ctx, gid) :
            h.pty = REQ => /\ pdu.tag = ReqTag(OwnLtk, h, pdu.reqnonce)
                           /\ pdu.reqnonce = r.ctx.states[j].requestNonce
    BY <1>3, <1>7, <2>3
  <2>7. h.pty # SADFD
    BY <1>6, <2>1
  <2> QED BY <2>1, <2>4, <2>5, <2>6, <2>7, VerifiesByHeader
<1>8. CASE m.pty = "SADFD" /\ m.stk = r.ctx.states[i].currentStk
  <2> DEFINE h == Header(gid, OwnSid, SADFD)
  <2>1. h.gid = gid /\ h.sid = OwnSid /\ h.pty = SADFD
    BY DEF Header
  <2>2. pdu = [PduOf(Type, h, ptlen) EXCEPT !.ctrnonce = m.ctrnonce, !.ptlen = ptlen,
                                            !.tag = SadfdTag(m.stk, h, m.ctrnonce, ptlen)]
    BY <1>2, <1>3, <1>5, <1>6, <1>8 DEF ClientPdu, ClientSadfdPdu
  <2>3. /\ pdu.header = PduOf(Type, h, ptlen).header /\ pdu.len = PduOf(Type, h, ptlen).len
        /\ pdu.ctrnonce = m.ctrnonce /\ pdu.ptlen = ptlen
        /\ pdu.tag = SadfdTag(m.stk, h, m.ctrnonce, ptlen)
    BY <2>2 DEF PduOf, Pdu
  <2>4. /\ HeaderUnpack(Type, pdu.header) = h
        /\ ReceivedGenericMsgErr(Type, pdu, FALSE, ServerSid) = "OK"
        /\ pdu.len \in HeaderLen(Type) + MetadataLen(SADFD) .. MaxCanFdDataLen
    BY <1>4, <2>3, ClientPduIsReadable
  <2> HIDE DEF h
  <2>5. pdu.len \in HeaderLen(Type) + MetadataLen(h.pty) .. MaxCanFdDataLen
    BY <2>1, <2>4
  <2>6. \A j \in ClientFindGroup(r.ctx, gid) :
            h.pty = SADFD => pdu.tag = SadfdTag(r.ctx.states[j].currentStk, h,
                                                pdu.ctrnonce, pdu.ptlen)
    BY <1>3, <1>8, <2>3
  <2>7. h.pty # REQ
    BY <1>6, <2>1
  <2> QED BY <2>1, <2>4, <2>5, <2>6, <2>7, VerifiesByHeader
<1> QED BY <1>2, <1>7, <1>8 DEF IsOfGroup

\* User data is not protected.
LEMMA UnsecuredPduVerifies ==
    ASSUME Type \in ClientTypes, NEW gid \in 0 .. HeaderTypeMaxGid(Type), NEW n \in Nat,
           HeaderLen(Type) + MetadataLen(UAD) + n <= MaxCanFdDataLen, NEW c
    PROVE  Verifies(c, gid, PduOf(Type, Header(gid, OwnSid, UAD), n))
<1> DEFINE h == Header(gid, OwnSid, UAD)
           pdu == PduOf(Type, h, n)
<1>1. h.gid = gid /\ h.sid = OwnSid /\ h.pty = UAD
  BY DEF Header
<1>2. /\ HeaderUnpack(Type, pdu.header) = h
      /\ ReceivedGenericMsgErr(Type, pdu, FALSE, ServerSid) = "OK"
      /\ pdu.len \in HeaderLen(Type) + MetadataLen(UAD) .. MaxCanFdDataLen
  BY ClientPduIsReadable
<1> HIDE DEF h, pdu
<1>3. pdu.len \in HeaderLen(Type) + MetadataLen(h.pty) .. MaxCanFdDataLen
  BY <1>1, <1>2
<1>4. h.pty # REQ /\ h.pty # SADFD
  BY <1>1 DEF REQ, SADFD, UAD
<1>5. Verifies(c, gid, pdu)
  BY <1>1, <1>2, <1>3, <1>4, VerifiesByHeader
<1> QED BY <1>5 DEF pdu, h

----------------------------------------------------------------------------
(* Initialisation *)

\* hzl_ClientInit and hzl_ClientDeInit zero the states of all Groups.
LEMMA ClearMove ==
    ASSUME NEW c, IsContext(c)
    PROVE  /\ IsContext(ClientClearStateUnchecked(c))
           /\ \A i \in 1 .. 2 : HasNoSession(ClientClearStateUnchecked(c).states[i])
<1> DEFINE cleared(i) == Session(c, i)!ClientClearedState
           states == [i \in DOMAIN c.states |->
                        IF i <= c.amountOfGroups THEN cleared(i) ELSE c.states[i]]
           d == ClientClearStateUnchecked(c)
<1>1. d = [c EXCEPT !.states = states]
  BY DEF ClientClearStateUnchecked
<1>2. \A i \in 1 .. 2 : IsGroup(cleared(i)) /\ HasNoSession(cleared(i))
                        /\ cleared(i).requestNonce = 0
  BY DEF Session!ClientClearedState, Session!NoStk, Session!NotExpectingAResponse, IsGroup,
         HasNoSession
<1> HIDE DEF cleared, d
<1>3. DOMAIN states = 1 .. 2 /\ \A i \in 1 .. 2 : states[i] = cleared(i)
  BY DEF IsContext
<1> HIDE DEF states
<1>4. d.states = states
  BY <1>1 DEF IsContext
<1>5. \A i \in 1 .. 2 : /\ HasNoSession(d.states[i])
                        /\ Follows(d.states[i], d.states[i], c.groups[i].gid)
  BY <1>2, <1>3, <1>4 DEF Follows
<1>6. IsContext(d)
  BY <1>1, <1>3, <1>4, <1>5 DEF IsContext
<1> QED BY <1>5, <1>6 DEF d

\* Two Groups on a header type that has one GID only are refused.
LEMMA InitMove ==
    ASSUME NEW c, IsContext(c), NEW r \in ClientInit(c)
    PROVE  /\ IsContext(r.ctx) /\ r.out = {} /\ r.sdu = {}
           /\ r.ctx = c \/ \A i \in 1 .. 2 : HasNoSession(r.ctx.states[i])
           /\ r.err = "OK" => HeaderTypeMaxGid(Type) >= 1
<1>1. CASE ClientCheckCtx(c) # "OK"
  <2>1. r \in Refused(ClientCheckCtx(c), c)
    BY <1>1 DEF ClientInit
  <2> QED BY <1>1, <2>1 DEF Refused, Reply
<1>2. CASE ClientCheckCtx(c) = "OK"
  <2>1. r = Reply("OK", ClientClearStateUnchecked(c), {}, {})
    BY <1>2 DEF ClientInit
  <2>2. ClientInitCheckClientConfig(c) = "OK"
    BY <1>2 DEF ClientCheckCtx
  <2>3. ~(2 > HeaderTypeMaxGid(Type) + 1)
    <3>1. c.amountOfGroups = 2 /\ c.headerType = Type
      BY DEF IsContext
    <3>2. Check(2 > HeaderTypeMaxGid(Type) + 1, "TOO_MANY_GROUPS_FOR_CONFIGURED_HEADER_TYPE") = "OK"
      BY <2>2, <3>1, ThreeChecks DEF ClientInitCheckClientConfig
    <3> QED BY <3>2 DEF Check
  <2>4. HeaderTypeMaxGid(Type) \in Nat
    BY TypeAssumption DEF HeaderTypeMaxGid
  <2>5. /\ IsContext(ClientClearStateUnchecked(c))
        /\ \A i \in 1 .. 2 : HasNoSession(ClientClearStateUnchecked(c).states[i])
    BY ClearMove
  <2> QED BY <2>1, <2>3, <2>4, <2>5 DEF Reply
<1> QED BY <1>1, <1>2

LEMMA DeInitMove ==
    ASSUME NEW c, IsContext(c), NEW r \in ClientDeInit(c)
    PROVE  /\ IsContext(r.ctx) /\ r.out = {} /\ r.sdu = {}
           /\ \A i \in 1 .. 2 : HasNoSession(r.ctx.states[i])
<1>1. FirstError(<<Check("ctx" \in c.null, "NULL_CTX"),
                   Check("clientConfig" \in c.null, "NULL_CONFIG_CLIENT"),
                   Check("groupStates" \in c.null, "NULL_STATES_GROUPS")>>) = "OK"
  BY ThreeChecks DEF IsContext, Check
<1>2. r = Reply("OK", ClientClearStateUnchecked(c), {}, {})
  BY <1>1 DEF ClientDeInit
<1>3. /\ IsContext(ClientClearStateUnchecked(c))
      /\ \A i \in 1 .. 2 : HasNoSession(ClientClearStateUnchecked(c).states[i])
  BY ClearMove
<1> QED BY <1>2, <1>3 DEF Reply

----------------------------------------------------------------------------
(* The messages received *)

\* Data presented as another Group's: its header is never read as the one that
\* was authenticated, not even where the format does not return what was packed.
LEMMA OtherGidIsSeen ==
    ASSUME HeaderTypeMaxGid(Type) >= 1, NEW gid \in {0, 2}, NEW sid \in {0, 3}
    PROVE  HeaderUnpack(Type, HeaderPack(Type, Presented(Header(gid, sid, SADFD), "otherGid")))
              # Header(gid, sid, SADFD)
<1> DEFINE g == 2 - gid
           h == Header(g, sid, SADFD)
           u == HeaderUnpack(Type, HeaderPack(Type, h))
<1>1. /\ Presented(Header(gid, sid, SADFD), "otherGid") = h
      /\ h.gid = g /\ h.sid = sid /\ h.pty = 4
      /\ Header(gid, sid, SADFD).gid = gid
  BY DEF Presented, Header, SADFD
<1>2. g \in {0, 2} /\ g # gid
  OBVIOUS
<1>3. Type \in {0, 1, 2, 3, 4}
  BY TypeAssumption DEF HeaderTypeMaxGid
<1>4. CASE Type \in {0, 3, 4}
  <2>1. /\ Type \in SoundTypes /\ g \in 0 .. HeaderTypeMaxGid(Type)
        /\ sid \in 0 .. HeaderTypeMaxSid(Type) /\ SADFD \in Ptys
    BY <1>4 DEF SoundTypes, HeaderTypeMaxGid, HeaderTypeMaxSid, Ptys
  <2>2. u = h
    BY <2>1, RoundTrip
  <2> QED BY <1>1, <1>2, <2>2
<1>5. CASE Type = 1
  <2>1. u.gid = g
    <3> DEFINE x == (((sid % 32) * 32) % 256) + (4 % 8)
    <3> HIDE DEF h, x
    <3>1. HeaderPack(1, h) = <<g, x>>
      BY <1>1 DEF HeaderPack, x
    <3>2. HeaderUnpack(1, <<g, x>>).gid = g
      BY DEF HeaderUnpack, Header
    <3> QED BY <1>5, <3>1, <3>2
  <2> HIDE DEF u, h
  <2> QED BY <1>1, <1>2, <2>1 DEF u
<1>6. CASE Type = 2
  <2> DEFINE x == (((g % 32) * 32) % 256) + (4 % 8)
  <2>1. u.gid = x \div 8
    <3> HIDE DEF h, x
    <3>1. HeaderPack(2, h) = <<sid, x>>
      BY <1>1 DEF HeaderPack, x
    <3>2. HeaderUnpack(2, <<sid, x>>).gid = x \div 8
      BY DEF HeaderUnpack, Header
    <3> QED BY <1>6, <3>1, <3>2
  <2>2. x \div 8 # gid
    OBVIOUS
  <2> HIDE DEF u, h, x
  <2> QED BY <1>1, <2>1, <2>2 DEF u
<1> QED BY <1>3, <1>4, <1>5, <1>6

----------------------------------------------------------------------------
(* The inductive invariant *)

\* The context keeps its configuration and its Groups keys of their own, and
\* two Groups are only ever initialised where headers have two GIDs. Requests
\* are counted from 1, so that a nonce drawn is never 0.
CtxInv ==
    /\ IsContext(ctx)
    /\ asked \in Nat
    /\ IsInitialised => HeaderTypeMaxGid(Type) >= 1

SentVerifies == Type \notin {1, 2} => \A pdu \in last.out : Verifies(ctx, last.gid, pdu)

IInv == CtxInv /\ AnsweredOrRefused /\ DataIsGenuine /\ SentVerifies

\* A call that succeeds did what it is for.
Succeeds(name, gid, r) ==
    IF name = "ProcessReceived"
    THEN r.out = {} /\ r.sdu = {} => HasKey(r.ctx, gid)
    ELSE r.out # {}

\* A reply, of the context c, to a call about a Group.
IsGood(c, name, gid, genuine, r) ==
    /\ CallMove(c, gid, r)
    /\ r.err = "OK" => Succeeds(name, gid, r)
    /\ \A sdu \in r.sdu : sdu.wasSecured => genuine /\ sdu.gid = gid
    /\ Type \notin {1, 2} => \A pdu \in r.out : Verifies(r.ctx, gid, pdu)

\* Groups are separate, in a step.
OthersAlone ==
    last'.call \notin {"Init", "DeInit"} =>
        \A i \in 1 .. 2 : ctx.groups[i].gid # last'.gid => ctx'.states[i] = ctx.states[i]

\* The Groups' keys, in a step.
KeysFollow ==
    \A i \in 1 .. 2 :
        \/ HasSession(ctx'.states[i], ctx.groups[i].gid)
        \/ /\ HasNoSession(ctx'.states[i])
           /\ \/ last'.call \in {"Init", "DeInit"}
              \/ /\ HasNoSession(ctx.states[i])
                 /\ ctx.states[i].requestNonce # 0 => ctx'.states[i].requestNonce # 0

\* The largest number a Request got.
LEMMA AskedIsNat ==
    ASSUME asked \in Nat, NEW name, NEW gid, NEW genuine, NEW replies,
           Called(name, gid, genuine, replies), \A r \in replies : IsContext(r.ctx)
    PROVE  asked' \in Nat
<1>1. PICK r \in replies :
        asked' = CHOOSE n \in {asked} \cup {r.ctx.states[i].requestNonce : i \in 1 .. 2} :
                    \A k \in {asked} \cup {r.ctx.states[i].requestNonce : i \in 1 .. 2} : k <= n
  BY DEF Called
<1> DEFINE nonces == {asked} \cup {r.ctx.states[i].requestNonce : i \in 1 .. 2}
           a == r.ctx.states[1].requestNonce
           b == r.ctx.states[2].requestNonce
<1>2. nonces = {asked, a, b}
  OBVIOUS
<1>3. a \in Nat /\ b \in Nat
  BY DEF IsContext, Follows
<1>4. asked' = CHOOSE n \in nonces : \A k \in nonces : k <= n
  BY <1>1
<1> HIDE DEF nonces, a, b
<1>5. \E n \in nonces : \A k \in nonces : k <= n
  BY <1>2, <1>3
<1>6. asked' \in nonces
  BY <1>4, <1>5, Zenon
<1> QED BY <1>2, <1>3, <1>6

\* Any call but hzl_ClientInit and hzl_ClientDeInit.
LEMMA CalledStep ==
    ASSUME CtxInv, IsInitialised, NEW name,
           name \in {"BuildRequest", "ProcessReceived", "BuildSecuredFd", "BuildUnsecured"},
           NEW gid, NEW genuine, NEW replies, Called(name, gid, genuine, replies),
           \A r \in replies : IsGood(ctx, name, gid, genuine, r)
    PROVE  IInv' /\ OthersAlone /\ KeysFollow
<1>1. PICK r \in replies :
        /\ ctx' = r.ctx
        /\ last' = [call |-> name, gid |-> gid, genuine |-> genuine,
                    err |-> r.err, out |-> r.out, sdu |-> r.sdu]
  BY DEF Called
<1>2. /\ last'.call = name /\ last'.gid = gid /\ last'.genuine = genuine
      /\ last'.err = r.err /\ last'.out = r.out /\ last'.sdu = r.sdu
  BY <1>1
<1>3. /\ CallMove(ctx, gid, r)
      /\ r.err = "OK" => Succeeds(name, gid, r)
      /\ \A sdu \in r.sdu : sdu.wasSecured => genuine /\ sdu.gid = gid
      /\ Type \notin {1, 2} => \A pdu \in r.out : Verifies(r.ctx, gid, pdu)
  BY DEF IsGood
<1>4. IsContext(r.ctx) /\ IsAnswer(r)
  BY <1>3 DEF CallMove
<1>5. CtxInv'
  <2>1. \A x \in replies : IsContext(x.ctx)
    BY DEF IsGood, CallMove
  <2>2. asked' \in Nat
    BY <2>1, AskedIsNat DEF CtxInv
  <2> QED BY <1>1, <1>4, <2>2 DEF CtxInv
<1>6. AnsweredOrRefused'
  <2>1. last'.err \notin {"OK", "NONE"} => last'.out = {} /\ last'.sdu = {}
    BY <1>2, <1>4 DEF IsAnswer
  <2>2. last'.err = "OK" /\ last'.call \in {"BuildRequest", "BuildSecuredFd", "BuildUnsecured"} =>
            last'.out # {}
    BY <1>2, <1>3 DEF Succeeds
  <2>3. last'.err = "OK" /\ last'.call = "ProcessReceived" /\ last'.out = {} /\ last'.sdu = {} =>
            HasKey(r.ctx, gid)
    BY <1>2, <1>3 DEF Succeeds
  <2> QED BY <1>1, <1>2, <2>1, <2>2, <2>3 DEF AnsweredOrRefused, HasKey
<1>7. KeysFollow
  <2>1. \A i \in 1 .. 2 : Follows(ctx.states[i], ctx'.states[i], ctx.groups[i].gid)
    BY <1>1, <1>3 DEF CallMove
  <2> QED BY <2>1 DEF KeysFollow, Follows
<1>8. DataIsGenuine'
  BY <1>2, <1>3 DEF DataIsGenuine
<1>9. SentVerifies'
  BY <1>1, <1>2, <1>3 DEF SentVerifies
<1>10. OthersAlone
  BY <1>1, <1>2, <1>3 DEF OthersAlone, CallMove
<1> QED BY <1>5, <1>6, <1>7, <1>8, <1>9, <1>10 DEF IInv

\* hzl_ClientInit and hzl_ClientDeInit touch all Groups.
LEMMA InitStep ==
    ASSUME CtxInv, CallInit
    PROVE  IInv' /\ OthersAlone /\ KeysFollow
<1>1. PICK r \in ClientInit(ctx) :
        /\ ctx' = r.ctx
        /\ last' = [call |-> "Init", gid |-> 0, genuine |-> TRUE,
                    err |-> r.err, out |-> r.out, sdu |-> r.sdu]
  BY DEF CallInit, Called
<1>2. last'.call = "Init" /\ last'.err = r.err /\ last'.out = r.out /\ last'.sdu = r.sdu
  BY <1>1
<1>3. /\ IsContext(r.ctx) /\ r.out = {} /\ r.sdu = {}
      /\ r.ctx = ctx \/ \A i \in 1 .. 2 : HasNoSession(r.ctx.states[i])
      /\ r.err = "OK" => HeaderTypeMaxGid(Type) >= 1
  BY InitMove DEF CtxInv
<1>4. CtxInv'
  <2>1. \A x \in ClientInit(ctx) : IsContext(x.ctx)
    BY InitMove DEF CtxInv
  <2>2. asked' \in Nat
    BY <2>1, AskedIsNat DEF CtxInv, CallInit
  <2> QED BY <1>1, <1>2, <1>3, <2>2 DEF CtxInv, IsInitialised
<1>5. KeysFollow
  <2>1. \A i \in 1 .. 2 : HasSession(ctx.states[i], ctx.groups[i].gid) \/ HasNoSession(ctx.states[i])
    BY DEF CtxInv, IsContext, Follows
  <2> QED BY <1>1, <1>2, <1>3, <2>1 DEF KeysFollow
<1>6. AnsweredOrRefused' /\ DataIsGenuine' /\ SentVerifies' /\ OthersAlone
  BY <1>2, <1>3 DEF AnsweredOrRefused, DataIsGenuine, SentVerifies, OthersAlone
<1> QED BY <1>4, <1>5, <1>6 DEF IInv

LEMMA DeInitStep ==
    ASSUME CtxInv, DeInit
    PROVE  IInv' /\ OthersAlone /\ KeysFollow
<1>1. PICK r \in ClientDeInit(ctx) :
        /\ ctx' = r.ctx
        /\ last' = [call |-> "DeInit", gid |-> 0, genuine |-> TRUE,
                    err |-> r.err, out |-> r.out, sdu |-> r.sdu]
  BY DEF DeInit, Called
<1>2. last'.call = "DeInit" /\ last'.out = r.out /\ last'.sdu = r.sdu
  BY <1>1
<1>3. /\ IsContext(r.ctx) /\ r.out = {} /\ r.sdu = {}
      /\ \A i \in 1 .. 2 : HasNoSession(r.ctx.states[i])
  BY DeInitMove DEF CtxInv
<1>4. HeaderTypeMaxGid(Type) >= 1
  BY DEF DeInit, CtxInv
<1>5. CtxInv'
  <2>1. \A x \in ClientDeInit(ctx) : IsContext(x.ctx)
    BY DeInitMove DEF CtxInv
  <2>2. asked' \in Nat
    BY <2>1, AskedIsNat DEF CtxInv, DeInit
  <2> QED BY <1>1, <1>3, <1>4, <2>2 DEF CtxInv
<1>6. KeysFollow
  BY <1>1, <1>2, <1>3 DEF KeysFollow
<1>7. AnsweredOrRefused' /\ DataIsGenuine' /\ SentVerifies' /\ OthersAlone
  BY <1>2, <1>3 DEF AnsweredOrRefused, DataIsGenuine, SentVerifies, OthersAlone
<1> QED BY <1>5, <1>6, <1>7 DEF IInv

\* What is built verifies where the header type allows it.
LEMMA BuiltVerifies ==
    ASSUME HeaderTypeMaxGid(Type) >= 1, Type \notin {1, 2}, NEW c, IsContext(c), NEW gid,
           NEW ptlen \in Nat, HeaderLen(Type) + MetadataLen(SADFD) + ptlen <= MaxCanFdDataLen,
           NEW r, CallMove(c, gid, r), NEW pdu, IsBuilt(c, gid, ptlen, r, pdu)
    PROVE  Verifies(r.ctx, gid, pdu)
<1>1. Type \in ClientTypes
  BY TypeAssumption DEF ClientTypes, HeaderTypeMaxGid
<1>2. IsContext(r.ctx)
  BY DEF CallMove
<1> QED BY <1>1, <1>2, ClientPduVerifies

LEMMA NoDataFits ==
    0 \in Nat /\ HeaderLen(Type) + MetadataLen(SADFD) + 0 <= MaxCanFdDataLen
BY TypeAssumption DEF HeaderLen, MetadataLen, REN, RES, REQ, SADFD, UAD, MaxCanFdDataLen

\* A reception, whatever the message: its key must be the Group's, its secured
\* data genuine.
LEMMA ReceivedStep ==
    ASSUME CtxInv, NEW pdu, NEW genuine, Received(pdu, genuine),
           pdu.len \in Int, pdu.ptlen \in Nat,
           KeyIsOfTheGroup(pdu, HeaderUnpack(Type, pdu.header)),
           IsWhole(pdu, HeaderUnpack(Type, pdu.header)) => genuine
    PROVE  IInv' /\ OthersAlone /\ KeysFollow
<1> DEFINE h == HeaderUnpack(Type, pdu.header)
           call == [null |-> {}, pdu |-> pdu]
           gid == h.gid
<1>1. PICK rx \in Times :
        Called("ProcessReceived", gid, genuine, ClientProcessReceived(ctx, call, rx, asked + 1))
  BY DEF Received
<1>2. /\ IsContext(ctx) /\ IsInitialised /\ HeaderTypeMaxGid(Type) >= 1
      /\ IsFresh(asked + 1)
  BY DEF CtxInv, Received, IsFresh
<1>3. call.null = {} /\ call.pdu = pdu
  OBVIOUS
<1> HIDE DEF call, h
<1>4. ASSUME NEW r \in ClientProcessReceived(ctx, call, rx, asked + 1)
      PROVE  IsGood(ctx, "ProcessReceived", gid, genuine, r)
  <2>1. /\ CallMove(ctx, gid, r)
        /\ r.err = "OK" /\ r.out = {} /\ r.sdu = {} => HasKey(r.ctx, gid)
        /\ \A sdu \in r.sdu : sdu.wasSecured => sdu.gid = gid /\ IsWhole(pdu, h)
        /\ \A x \in r.out : IsBuilt(ctx, gid, 0, r, x)
    BY <1>2, <1>3, ProcessReceivedMove DEF h
  <2>2. \A sdu \in r.sdu : sdu.wasSecured => genuine /\ sdu.gid = gid
    BY <2>1 DEF h
  <2>3. Type \notin {1, 2} => \A x \in r.out : Verifies(r.ctx, gid, x)
    BY <1>2, <2>1, NoDataFits, BuiltVerifies
  <2>4. r.err = "OK" => Succeeds("ProcessReceived", gid, r)
    BY <2>1 DEF Succeeds
  <2> QED BY <2>1, <2>2, <2>3, <2>4 DEF IsGood
<1> QED BY <1>1, <1>2, <1>4, CalledStep DEF h

\* A Response is for the Group of the header it was authenticated with, and so
\* is the key in it, whatever header it is presented with.
LEMMA ReceiveResponseStep ==
    ASSUME CtxInv, ReceiveResponse
    PROVE  IInv' /\ OthersAlone /\ KeysFollow
<1>0. PICK gid \in {0, 2}, client \in 2 .. 3, reqnonce \in 1 .. asked, ctrnonce \in Ctrnonces,
           defect \in Defects :
        \E stk \in StksOf(gid) :
          Received([WithDefect(PduOf(Type, Presented(Header(gid, ServerSid, RES), defect), 0), defect)
                      EXCEPT !.client = client, !.ctrnonce = ctrnonce, !.stk = stk,
                             !.tag = ResTag(100 + client, Header(gid, ServerSid, RES),
                                            ctrnonce, reqnonce, client)],
                   defect = "none")
  BY DEF ReceiveResponse
<1>1. PICK stk \in StksOf(gid) :
        Received([WithDefect(PduOf(Type, Presented(Header(gid, ServerSid, RES), defect), 0), defect)
                    EXCEPT !.client = client, !.ctrnonce = ctrnonce, !.stk = stk,
                           !.tag = ResTag(100 + client, Header(gid, ServerSid, RES),
                                          ctrnonce, reqnonce, client)],
                 defect = "none")
  BY <1>0
<1> DEFINE h == Header(gid, ServerSid, RES)
           other == Presented(h, defect)
           tag == ResTag(100 + client, h, ctrnonce, reqnonce, client)
           pdu == [WithDefect(PduOf(Type, other, 0), defect) EXCEPT
                    !.client = client, !.ctrnonce = ctrnonce, !.stk = stk, !.tag = tag]
           u == HeaderUnpack(Type, pdu.header)
<1>2. h.gid = gid /\ other.pty = RES
  BY DEF Presented, Header
<1>3. HeaderLen(Type) \in 1 .. 3 /\ MetadataLen(RES) = 44
  BY TypeAssumption DEF HeaderLen, MetadataLen, REN, RES, REQ, SADFD, UAD
<1>4. /\ pdu.len \in Int /\ pdu.ptlen = 0
      /\ pdu.stk = stk /\ pdu.tag = tag
  <2> HIDE DEF h, other, tag
  <2> QED BY <1>2, <1>3 DEF WithDefect, PduOf, Pdu
<1>5. Received(pdu, defect = "none")
  BY <1>1
<1> HIDE DEF pdu, h
<1>6. KeyIsOfTheGroup(pdu, u)
  <2> SUFFICES ASSUME NEW nonce, pdu.tag = ResTag(OwnLtk, u, pdu.ctrnonce, nonce, pdu.client)
               PROVE  pdu.stk \in StksOf(u.gid)
    BY DEF KeyIsOfTheGroup
  <2>1. pdu.tag.h = u
    BY TagsTell
  <2>2. pdu.tag.h = h
    BY <1>4, TagsTell
  <2> QED BY <1>2, <1>4, <2>1, <2>2
<1>7. ~IsWhole(pdu, u)
  <2> SUFFICES ASSUME IsWhole(pdu, u) PROVE FALSE
    OBVIOUS
  <2>1. pdu.tag.label = "SADFD"
    BY TagsTell DEF IsWhole
  <2>2. pdu.tag.label = "RES"
    BY <1>4, TagsTell
  <2> QED BY <2>1, <2>2
<1> QED BY <1>4, <1>5, <1>6, <1>7, ReceivedStep

\* Other messages are no Responses, whatever their header says.
LEMMA NoKey ==
    ASSUME NEW pdu, pdu.tag.label # "RES", NEW h
    PROVE  KeyIsOfTheGroup(pdu, h)
BY TagsTell DEF KeyIsOfTheGroup

LEMMA ReceiveRenewalStep ==
    ASSUME CtxInv, ReceiveRenewal
    PROVE  IInv' /\ OthersAlone /\ KeysFollow
<1>0. PICK gid \in {0, 2}, ctrnonce \in Ctrnonces, defect \in Defects :
        \E stk \in StksOf(gid) :
          Received([WithDefect(PduOf(Type, Presented(Header(gid, ServerSid, REN), defect), 0), defect)
                      EXCEPT !.ctrnonce = ctrnonce,
                             !.tag = RenTag(stk, Header(gid, ServerSid, REN), ctrnonce)],
                   defect = "none")
  BY DEF ReceiveRenewal
<1>1. PICK stk \in StksOf(gid) :
        Received([WithDefect(PduOf(Type, Presented(Header(gid, ServerSid, REN), defect), 0), defect)
                    EXCEPT !.ctrnonce = ctrnonce,
                           !.tag = RenTag(stk, Header(gid, ServerSid, REN), ctrnonce)],
                 defect = "none")
  BY <1>0
<1> DEFINE h == Header(gid, ServerSid, REN)
           other == Presented(h, defect)
           tag == RenTag(stk, h, ctrnonce)
           pdu == [WithDefect(PduOf(Type, other, 0), defect) EXCEPT
                    !.ctrnonce = ctrnonce, !.tag = tag]
           u == HeaderUnpack(Type, pdu.header)
<1>2. other.pty = REN
  BY DEF Presented, Header
<1>3. HeaderLen(Type) \in 1 .. 3 /\ MetadataLen(REN) = 19
  BY TypeAssumption DEF HeaderLen, MetadataLen, REN, RES, REQ, SADFD, UAD
<1>4. pdu.len \in Int /\ pdu.ptlen = 0 /\ pdu.tag = tag
  <2> HIDE DEF h, other, tag
  <2> QED BY <1>2, <1>3 DEF WithDefect, PduOf, Pdu
<1>5. Received(pdu, defect = "none")
  BY <1>1
<1> HIDE DEF pdu, h
<1>6. pdu.tag.label = "REN"
  BY <1>4, TagsTell
<1>7. KeyIsOfTheGroup(pdu, u)
  BY <1>6, NoKey
<1>8. ~IsWhole(pdu, u)
  <2> SUFFICES ASSUME IsWhole(pdu, u) PROVE FALSE
    OBVIOUS
  <2>1. pdu.tag.label = "SADFD"
    BY TagsTell DEF IsWhole
  <2> QED BY <1>6, <2>1
<1> QED BY <1>4, <1>5, <1>7, <1>8, ReceivedStep

\* Data that passes as whole and authentic has no defect.
LEMMA ReceiveSecuredFdStep ==
    ASSUME CtxInv, ReceiveSecuredFd
    PROVE  IInv' /\ OthersAlone /\ KeysFollow
<1>0. PICK gid \in {0, 2}, sid \in {0, 3}, ctrnonce \in Ctrnonces, defect \in Defects :
        \E stk \in StksOf(gid) :
          Received([WithDefect(PduOf(Type, Presented(Header(gid, sid, SADFD), defect), 1), defect)
                      EXCEPT !.ptlen = 1, !.ctrnonce = ctrnonce,
                             !.tag = SadfdTag(stk, Header(gid, sid, SADFD), ctrnonce, 1)],
                   defect = "none")
  BY DEF ReceiveSecuredFd
<1>1. PICK stk \in StksOf(gid) :
        Received([WithDefect(PduOf(Type, Presented(Header(gid, sid, SADFD), defect), 1), defect)
                    EXCEPT !.ptlen = 1, !.ctrnonce = ctrnonce,
                           !.tag = SadfdTag(stk, Header(gid, sid, SADFD), ctrnonce, 1)],
                 defect = "none")
  BY <1>0
<1> DEFINE h == Header(gid, sid, SADFD)
           other == Presented(h, defect)
           tag == SadfdTag(stk, h, ctrnonce, 1)
           pdu == [WithDefect(PduOf(Type, other, 1), defect) EXCEPT
                    !.ptlen = 1, !.ctrnonce = ctrnonce, !.tag = tag]
           u == HeaderUnpack(Type, pdu.header)
<1>2. other.pty = SADFD
  BY DEF Presented, Header
<1>3. HeaderLen(Type) \in 1 .. 3 /\ MetadataLen(SADFD) = 12
  BY TypeAssumption DEF HeaderLen, MetadataLen, REN, RES, REQ, SADFD, UAD
<1>4. /\ pdu.header = HeaderPack(Type, other) /\ pdu.ptlen = 1 /\ pdu.tag = tag
      /\ pdu.len = HeaderLen(Type) + 13
                    - (CASE defect = "cut" -> 1 [] defect = "short" -> 2 [] OTHER -> 0)
  <2> HIDE DEF h, other, tag
  <2> QED BY <1>2, <1>3 DEF WithDefect, PduOf, Pdu
<1>5. Received(pdu, defect = "none")
  BY <1>1
<1> HIDE DEF pdu
<1>6. pdu.len \in Int
  BY <1>3, <1>4
<1>7. KeyIsOfTheGroup(pdu, u)
  <2>1. pdu.tag.label # "RES"
    BY <1>4, TagsTell
  <2> QED BY <2>1, NoKey
<1>8. ASSUME IsWhole(pdu, u)
      PROVE  defect = "none"
  <2>1. defect \notin {"cut", "short"}
    <3>1. HeaderLen(Type) + 12 + 1 <= pdu.len
      BY <1>3, <1>4, <1>8 DEF IsWhole, SadfdIsWhole
    <3> QED BY <1>3, <1>4, <3>1
  <2>2. defect # "otherGid"
    <3> SUFFICES ASSUME defect = "otherGid" PROVE FALSE
      OBVIOUS
    <3>1. HeaderTypeMaxGid(Type) >= 1
      BY <1>5 DEF Received, CtxInv
    <3>2. pdu.tag.h = u
      BY <1>8, TagsTell DEF IsWhole
    <3>3. pdu.tag.h = h
      BY <1>4, TagsTell
    <3>4. HeaderUnpack(Type, HeaderPack(Type, Presented(h, "otherGid"))) # h
      BY <3>1, OtherGidIsSeen
    <3> HIDE DEF h
    <3> QED BY <1>4, <3>2, <3>3, <3>4
  <2> QED BY <2>1, <2>2 DEF Defects
<1>9. pdu.ptlen \in Nat
  BY <1>4
<1>10. IsWhole(pdu, u) => (defect = "none")
  BY <1>8
<1> QED BY <1>5, <1>6, <1>7, <1>9, <1>10, ReceivedStep

LEMMA ReceiveOtherStep ==
    ASSUME CtxInv, ReceiveOther
    PROVE  IInv' /\ OthersAlone /\ KeysFollow
<1>1. PICK gid \in {0, 3}, sid \in {0, 2, 3}, pty \in 0 .. 7, len \in {0, HeaderLen(Type)} :
        Received(Pdu(HeaderPack(Type, Header(gid, sid, pty)), len), FALSE)
  BY DEF ReceiveOther
<1> DEFINE pdu == Pdu(HeaderPack(Type, Header(gid, sid, pty)), len)
           u == HeaderUnpack(Type, pdu.header)
<1>2. pdu.len = len /\ pdu.ptlen = 0 /\ pdu.tag = NoTag
  BY DEF Pdu
<1>3. Received(pdu, FALSE)
  BY <1>1
<1>4. len \in Int
  BY TypeAssumption DEF HeaderLen
<1> HIDE DEF pdu
<1>5. pdu.tag.label = "none"
  BY <1>2, TagsTell
<1>6. KeyIsOfTheGroup(pdu, u)
  BY <1>5, NoKey
<1>7. ~IsWhole(pdu, u)
  <2> SUFFICES ASSUME IsWhole(pdu, u) PROVE FALSE
    OBVIOUS
  <2>1. pdu.tag.label = "SADFD"
    BY TagsTell DEF IsWhole
  <2> QED BY <1>5, <2>1
<1>8. pdu.len \in Int /\ pdu.ptlen \in Nat
  BY <1>2, <1>4
<1>9. IsWhole(pdu, u) => FALSE
  BY <1>7
<1> QED BY <1>3, <1>6, <1>8, <1>9, ReceivedStep

LEMMA BuildRequestStep ==
    ASSUME CtxInv, BuildRequest
    PROVE  IInv' /\ OthersAlone /\ KeysFollow
<1>1. PICK gid \in Gids, now \in Times :
        Called("BuildRequest", gid, TRUE,
               ClientBuildRequest(ctx, [null |-> {}, gid |-> gid], now, asked + 1))
  BY DEF BuildRequest
<1> DEFINE call == [null |-> {}, gid |-> gid]
<1>2. call.null = {} /\ call.gid = gid
  OBVIOUS
<1> HIDE DEF call
<1>3. /\ IsContext(ctx) /\ IsInitialised /\ HeaderTypeMaxGid(Type) >= 1
      /\ IsFresh(asked + 1)
  BY DEF CtxInv, BuildRequest, IsFresh
<1>4. ASSUME NEW r \in ClientBuildRequest(ctx, call, now, asked + 1)
      PROVE  IsGood(ctx, "BuildRequest", gid, TRUE, r)
  <2>1. /\ CallMove(ctx, call.gid, r)
        /\ r.sdu = {}
        /\ r.err = "OK" => r.out # {}
        /\ \A x \in r.out : IsBuilt(ctx, call.gid, 0, r, x)
    BY <1>2, <1>3, BuildRequestCallMove
  <2>2. CallMove(ctx, gid, r) /\ \A x \in r.out : IsBuilt(ctx, gid, 0, r, x)
    BY <1>2, <2>1
  <2>3. Type \notin {1, 2} => \A x \in r.out : Verifies(r.ctx, gid, x)
    BY <1>3, <2>2, NoDataFits, BuiltVerifies
  <2> QED BY <2>1, <2>2, <2>3 DEF IsGood, Succeeds
<1>5. Called("BuildRequest", gid, TRUE, ClientBuildRequest(ctx, call, now, asked + 1))
  BY <1>1 DEF call
<1>6. \A r \in ClientBuildRequest(ctx, call, now, asked + 1) :
            IsGood(ctx, "BuildRequest", gid, TRUE, r)
  BY <1>4
<1> QED BY <1>3, <1>5, <1>6, CalledStep, Zenon

LEMMA BuildSecuredFdStep ==
    ASSUME CtxInv, BuildSecuredFd
    PROVE  IInv' /\ OthersAlone /\ KeysFollow
<1>1. PICK gid \in Gids, data \in Data :
        Called("BuildSecuredFd", gid, TRUE,
               ClientBuildSecuredFd(ctx, [null |-> {}, gid |-> gid, data |-> data]))
  BY DEF BuildSecuredFd
<1> DEFINE call == [null |-> {}, gid |-> gid, data |-> data]
<1>2. call.null = {} /\ call.gid = gid /\ call.data = data
  OBVIOUS
<1> HIDE DEF call
<1>3. IsContext(ctx) /\ IsInitialised /\ HeaderTypeMaxGid(Type) >= 1
  BY DEF CtxInv, BuildSecuredFd
<1>4. ASSUME NEW r \in ClientBuildSecuredFd(ctx, call)
      PROVE  IsGood(ctx, "BuildSecuredFd", gid, TRUE, r)
  <2>1. /\ CallMove(ctx, call.gid, r)
        /\ r.sdu = {}
        /\ r.err = "OK" => r.out # {}
        /\ \A x \in r.out :
             /\ call.data.len \in Nat
             /\ HeaderLen(Type) + MetadataLen(SADFD) + call.data.len <= MaxCanFdDataLen
             /\ IsBuilt(ctx, call.gid, call.data.len, r, x)
    <3>1. call.gid \in Gids /\ call.null = {} /\ call.data \in Data
      BY <1>2
    <3> QED BY <1>3, <3>1, BuildSecuredFdCallMove
  <2>2. CallMove(ctx, gid, r)
    BY <1>2, <2>1
  <2>3. \A x \in r.out :
             /\ data.len \in Nat
             /\ HeaderLen(Type) + MetadataLen(SADFD) + data.len <= MaxCanFdDataLen
             /\ IsBuilt(ctx, gid, data.len, r, x)
    BY <1>2, <2>1
  <2>4. Type \notin {1, 2} => \A x \in r.out : Verifies(r.ctx, gid, x)
    BY <1>3, <2>2, <2>3, BuiltVerifies
  <2> QED BY <2>1, <2>2, <2>4 DEF IsGood, Succeeds
<1>5. Called("BuildSecuredFd", gid, TRUE, ClientBuildSecuredFd(ctx, call))
  BY <1>1 DEF call
<1>6. \A r \in ClientBuildSecuredFd(ctx, call) : IsGood(ctx, "BuildSecuredFd", gid, TRUE, r)
  BY <1>4
<1> QED BY <1>3, <1>5, <1>6, CalledStep, Zenon

LEMMA BuildUnsecuredStep ==
    ASSUME CtxInv, BuildUnsecured
    PROVE  IInv' /\ OthersAlone /\ KeysFollow
<1>1. PICK gid \in Gids, data \in Data :
        Called("BuildUnsecured", gid, TRUE,
               ClientBuildUnsecured(ctx, [null |-> {}, gid |-> gid, data |-> data]))
  BY DEF BuildUnsecured
<1> DEFINE call == [null |-> {}, gid |-> gid, data |-> data]
<1>2. call.null = {} /\ call.gid = gid /\ call.data = data
  OBVIOUS
<1> HIDE DEF call
<1>3. IsContext(ctx) /\ IsInitialised /\ HeaderTypeMaxGid(Type) >= 1
  BY DEF CtxInv, BuildUnsecured
<1>4. ASSUME NEW r \in ClientBuildUnsecured(ctx, call)
      PROVE  IsGood(ctx, "BuildUnsecured", gid, TRUE, r)
  <2>1. /\ CallMove(ctx, call.gid, r)
        /\ r.sdu = {}
        /\ r.err = "OK" => r.out # {}
        /\ \A x \in r.out :
             /\ call.gid \in 0 .. HeaderTypeMaxGid(Type)
             /\ call.data.len \in Nat
             /\ HeaderLen(Type) + MetadataLen(UAD) + call.data.len <= MaxCanFdDataLen
             /\ x = PduOf(Type, Header(call.gid, OwnSid, UAD), call.data.len)
    <3>1. call.gid \in Gids /\ call.null = {} /\ call.data \in Data
      BY <1>2
    <3> QED BY <1>3, <3>1, BuildUnsecuredMove
  <2>2. CallMove(ctx, gid, r)
    BY <1>2, <2>1
  <2>3. \A x \in r.out :
             /\ gid \in 0 .. HeaderTypeMaxGid(Type)
             /\ data.len \in Nat
             /\ HeaderLen(Type) + MetadataLen(UAD) + data.len <= MaxCanFdDataLen
             /\ x = PduOf(Type, Header(gid, OwnSid, UAD), data.len)
    BY <1>2, <2>1
  <2>4. Type \notin {1, 2} => Type \in ClientTypes
    BY <1>3, TypeAssumption DEF ClientTypes, HeaderTypeMaxGid
  <2>5. Type \notin {1, 2} => \A x \in r.out : Verifies(r.ctx, gid, x)
    BY <2>3, <2>4, UnsecuredPduVerifies
  <2> QED BY <2>1, <2>2, <2>5 DEF IsGood, Succeeds
<1>5. Called("BuildUnsecured", gid, TRUE, ClientBuildUnsecured(ctx, call))
  BY <1>1 DEF call
<1>6. \A r \in ClientBuildUnsecured(ctx, call) : IsGood(ctx, "BuildUnsecured", gid, TRUE, r)
  BY <1>4
<1> QED BY <1>3, <1>5, <1>6, CalledStep, Zenon

LEMMA InitIInv == Init => IInv
<1> SUFFICES ASSUME Init PROVE IInv
  OBVIOUS
<1>1. last.call = "NONE" /\ last.err = "NONE" /\ last.out = {} /\ last.sdu = {}
  BY DEF Init
<1>2. IsContext(ctx)
  <2>1. \A i \in 1 .. 2 : /\ IsGroup(ctx.states[i]) /\ HasNoSession(ctx.states[i])
                          /\ ctx.states[i].requestNonce = 0
    BY DEF Init, IsGroup, HasNoSession
  <2>2. \A i \in 1 .. 2 : Follows(ctx.states[i], ctx.states[i], ctx.groups[i].gid)
    BY <2>1 DEF Follows
  <2> QED BY <2>2 DEF Init, IsContext
<1>3. asked \in Nat
  BY DEF Init
<1> QED BY <1>1, <1>2, <1>3
        DEF IInv, CtxInv, IsInitialised, AnsweredOrRefused, DataIsGenuine, SentVerifies

LEMMA NextStep ==
    ASSUME CtxInv, Next
    PROVE  IInv' /\ OthersAlone /\ KeysFollow
BY InitStep, BuildRequestStep, ReceiveResponseStep, ReceiveRenewalStep, ReceiveSecuredFdStep,
   ReceiveOtherStep, BuildSecuredFdStep, BuildUnsecuredStep, DeInitStep DEF Next

LEMMA UnchangedIInv == IInv /\ UNCHANGED vars => IInv'
BY DEF IInv, CtxInv, IsInitialised, AnsweredOrRefused, DataIsGenuine,
       SentVerifies, vars

LEMMA SpecIInv == Spec => []IInv
<1>1. IInv /\ [Next]_vars => IInv'
  BY NextStep, UnchangedIInv DEF IInv
<1> QED BY <1>1, InitIInv, PTL DEF Spec

----------------------------------------------------------------------------
(* Theorems *)

\* A call of the Client's interface is answered or refused, never a bit of
\* both (AnsweredOrRefused): the checks that give the call its error and those
\* that let the handler act agree, for every message and every configuration
\* of the bus.
THEOREM AnsweredOrRefusedCorrect == Spec => []AnsweredOrRefused
BY SpecIInv, PTL DEF IInv

\* A Group with a Session has the key that the Server drew for that Group and
\* keeps one, whatever it receives and whichever function of the user fails; it
\* never takes a key of all zeros, nor another Group's under whatever header it
\* comes, and an unanswered handshake is not ended by one (KeysAreOfTheGroup).
THEOREM KeysAreOfTheGroupCorrect == Spec => KeysAreOfTheGroup
<1>1. IInv /\ [Next]_vars =>
        [\A i \in 1 .. 2 :
            \/ HasSession(ctx'.states[i], ctx.groups[i].gid)
            \/ /\ HasNoSession(ctx'.states[i])
               /\ \/ last'.call \in {"Init", "DeInit"}
                  \/ /\ HasNoSession(ctx.states[i])
                     /\ ctx.states[i].requestNonce # 0 => ctx'.states[i].requestNonce # 0]_vars
  BY NextStep DEF IInv, KeysFollow
<1> QED BY <1>1, SpecIInv, PTL DEF Spec, KeysAreOfTheGroup

\* What hzl_ClientProcessReceived delivers as secured was sent in the Group and
\* arrived whole (DataIsGenuine).
THEOREM DataIsGenuineCorrect == Spec => []DataIsGenuine
BY SpecIInv, PTL DEF IInv

\* What the Client builds verifies at the Server and the other Clients
\* (WhatIsSentVerifies), on all buses but those of header type 1, which loses
\* the Client's SID, and 2, which loses the GID.
THEOREM WhatIsSentVerifiesCorrect ==
    ASSUME Type \notin {1, 2}
    PROVE  Spec => []WhatIsSentVerifies
<1>1. IInv => WhatIsSentVerifies
  BY DEF IInv, SentVerifies, Verifies, WhatIsSentVerifies
<1> QED BY <1>1, SpecIInv, PTL

\* Groups share nothing (GroupsAreSeparate): a call about one leaves the state
\* of the others alone, whether it succeeds or fails half-way.
THEOREM GroupsAreSeparateCorrect == Spec => GroupsAreSeparate
<1>1. IInv /\ [Next]_vars =>
        [last'.call \notin {"Init", "DeInit"} =>
            \A i \in 1 .. 2 : ctx.groups[i].gid # last'.gid => ctx'.states[i] = ctx.states[i]]_vars
  BY NextStep DEF IInv, OthersAlone
<1> QED BY <1>1, SpecIInv, PTL DEF Spec, GroupsAreSeparate
=============================================================================
