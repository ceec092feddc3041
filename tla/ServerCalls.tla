---------------------------- MODULE ServerCalls ----------------------------
(***************************************************************************)
(* The calls of the Server's interface, on a context of several Groups:    *)
(* which check of a call fails first, with the name of its error, and what *)
(* the call does to the context. What it does to a Group's Session is      *)
(* ServerSession's, instantiated with the configuration of the Group.      *)
(*                                                                         *)
(* Besides its configuration and its NULL pointers a context has the       *)
(* states of its Groups and the functions of the user that may fail        *)
(* (faults). A call is a record: its output pointers that are NULL, its    *)
(* PDU or its user data, its GID. A reply is the error, the context then,  *)
(* the PDU built (out) and the user data delivered (sdu), sets of at most   *)
(* one. An error of a function of the user is "FAILED".                     *)
(***************************************************************************)
EXTENDS ServerChecks, Domains

\* The Session of the Group at a position of the context's arrays.
Session(ctx, i) ==
    INSTANCE ServerSession WITH
        IoFaults                 <- ctx.faults,
        AmountOfClients          <- ctx.amountOfClients,
        MaxCtrnonceDelayMsgs     <- ctx.groups[i].maxCtrnonceDelayMsgs,
        MaxSilenceIntervalMillis <- ctx.groups[i].maxSilenceIntervalMillis,
        GroupSids                <- ctx.groups[i].sids,
        CtrNonceUpperLimit       <- ctx.groups[i].ctrNonceUpperLimit,
        SessionDurationMillis    <- ctx.groups[i].sessionDurationMillis,
        DelayBetweenRenNotificationsMillis <- ctx.groups[i].delayBetweenRenNotificationsMillis

Reply(err, ctx, out, sdu) ==
    [err |-> err, ctx |-> ctx, out |-> out, sdu |-> sdu]

Refused(err, ctx) == {Reply(err, ctx, {}, {})}

----------------------------------------------------------------------------
(* The messages the Server builds *)

ServerRenPdu(ctx, gid, m) ==
    LET h == Header(gid, ServerSid, REN)
    IN  [PduOf(ctx.headerType, h, 0) EXCEPT !.ctrnonce = m.ctrnonce,
                                            !.tag = RenTag(m.stk, h, m.ctrnonce)]

\* Mutant: the Response is authenticated with the sender's SID in its header.
Mutant_ServerResPdu(ctx, gid, m) ==
    LET h == Header(gid, m.client, RES)
    IN  [PduOf(ctx.headerType, h, 0) EXCEPT
            !.client = m.client, !.ctrnonce = m.ctrnonce, !.stk = m.stk,
            !.tag = ResTag(ctx.clients[m.client].ltk, h, m.ctrnonce, m.reqnonce, m.client)]

\* Encrypted for one Client, with the key at the position of its SID.
ServerResPdu(ctx, gid, m) ==
    LET h == Header(gid, ServerSid, RES)
    IN  [PduOf(ctx.headerType, h, 0) EXCEPT
            !.client = m.client, !.ctrnonce = m.ctrnonce, !.stk = m.stk,
            !.tag = ResTag(ctx.clients[m.client].ltk, h, m.ctrnonce, m.reqnonce, m.client)]

ServerSadfdPdu(ctx, gid, m, ptlen) ==
    LET h == Header(gid, ServerSid, SADFD)
    IN  [PduOf(ctx.headerType, h, ptlen) EXCEPT
            !.ctrnonce = m.ctrnonce, !.ptlen = ptlen,
            !.tag = SadfdTag(m.stk, h, m.ctrnonce, ptlen)]

ServerPdu(ctx, gid, m, ptlen) ==
    CASE m.pty = "REN"   -> ServerRenPdu(ctx, gid, m)
      [] m.pty = "RES"   -> ServerResPdu(ctx, gid, m)
      [] m.pty = "SADFD" -> ServerSadfdPdu(ctx, gid, m, ptlen)

\* Mutant: the states are taken to start at the first Group after the broadcast one.
Mutant_Replies(ctx, gid, err, outcomes, ptlen, sdu) ==
    {Reply(IF o.err = "FAILED" THEN "FAILED" ELSE err,
            [ctx EXCEPT !.states[IF gid = 0 THEN 1 ELSE gid] = o.group],
            {ServerPdu(ctx, gid, m, ptlen) : m \in o.out},
            IF o.sdu = {} THEN {} ELSE {sdu}) : o \in outcomes}

\* What the outcomes of a Group's handler make of the context.
Replies(ctx, gid, err, outcomes, ptlen, sdu) ==
    {Reply(IF o.err = "FAILED" THEN "FAILED" ELSE err,
            [ctx EXCEPT !.states[gid + 1] = o.group],
            {ServerPdu(ctx, gid, m, ptlen) : m \in o.out},
            IF o.sdu = {} THEN {} ELSE {sdu}) : o \in outcomes}

----------------------------------------------------------------------------
(* Reception *)

\* Mutant: the nonce of the Request is not looked at.
Mutant_ServerRequestErr(ctx, pdu, h) ==
    FirstError(<<
        Check(pdu.len < HeaderLen(ctx.headerType) + MetadataLen(REQ), "TOO_SHORT_PDU_TO_CONTAIN_REQ"),
        Check(pdu.tag # ReqTag(ctx.clients[h.sid].ltk, h, pdu.reqnonce), "SECWARN_INVALID_TAG")>>)

\* The checks of a Request after its SID and GID.
ServerRequestErr(ctx, pdu, h) ==
    FirstError(<<
        Check(pdu.len < HeaderLen(ctx.headerType) + MetadataLen(REQ), "TOO_SHORT_PDU_TO_CONTAIN_REQ"),
        Check(pdu.reqnonce = 0, "SECWARN_RECEIVED_ZERO_REQNONCE"),
        Check(pdu.tag # ReqTag(ctx.clients[h.sid].ltk, h, pdu.reqnonce), "SECWARN_INVALID_TAG")>>)

ServerProcessReceivedRequest(ctx, pdu, h, rx) ==
    LET known == ServerValidateSidAndGid(ctx, h.gid, h.sid)
        err   == IF known = "OK" THEN ServerRequestErr(ctx, pdu, h) ELSE known
        S     == h.gid + 1
        m     == [sid |-> h.sid, reqnonce |-> pdu.reqnonce]
        intact == err \notin {"TOO_SHORT_PDU_TO_CONTAIN_REQ", "SECWARN_INVALID_TAG"}
    IN  IF known # "OK" THEN Refused(known, ctx)
        ELSE Replies(ctx, h.gid, err,
                     Session(ctx, S)!ServerProcessReceivedRequest(ctx.states[S], m, intact, rx),
                     0, {})

\* The checks of a SADFD after its SID and GID, on the state of a Group that
\* left its renewal phase if it had to.
ServerSadfdErr(ctx, pdu, h, group, rx) ==
    LET i == h.gid + 1
        isPrevious == Session(ctx, i)!ServerIsPreviousSession(group, pdu.ctrnonce)
        stk == Session(ctx, i)!ServerChooseStk(group, isPrevious)
    IN  FirstError(<<
            Check(pdu.len < HeaderLen(ctx.headerType) + MetadataLen(SADFD),
                  "TOO_SHORT_PDU_TO_CONTAIN_SADFD"),
            Check(Session(ctx, i)!CtrnonceIsExpired(pdu.ctrnonce), "SECWARN_RECEIVED_OVERFLOWN_NONCE"),
            Check(~Session(ctx, i)!ServerCheckRxCtrnonce(group, pdu.ctrnonce, rx), "SECWARN_OLD_MESSAGE"),
            Check(~SadfdIsWhole(ctx.headerType, pdu), "TOO_LONG_CIPHERTEXT"),
            Check(pdu.tag # SadfdTag(stk, h, pdu.ctrnonce, pdu.ptlen), "SECWARN_INVALID_TAG")>>)

ServerProcessReceivedSecuredFd(ctx, pdu, h, rx, fresh) ==
    LET known == ServerValidateSidAndGid(ctx, h.gid, h.sid)
        i     == h.gid + 1
        m     == [sid |-> h.sid, stk |-> pdu.tag.key, ctrnonce |-> pdu.ctrnonce]
        intact == /\ SadfdIsWhole(ctx.headerType, pdu)
                  /\ pdu.tag = SadfdTag(pdu.tag.key, h, pdu.ctrnonce, pdu.ptlen)
    IN  IF known # "OK" THEN Refused(known, ctx)
        ELSE Replies(ctx, h.gid,
                     ServerSadfdErr(ctx, pdu, h,
                         Session(ctx, i)!ServerPhaseExitIfNeeded(ctx.states[i], rx), rx),
                     Session(ctx, i)!ServerProcessReceivedSecuredFd(
                         ctx.states[i], m, intact, rx, fresh),
                     0, SduOf(h, pdu.ptlen, TRUE))

ServerProcessReceivedPayload(ctx, pdu, rx, fresh) ==
    LET h == HeaderUnpack(ctx.headerType, pdu.header)
    IN  CASE h.pty = REQ -> ServerProcessReceivedRequest(ctx, pdu, h, rx)
          [] h.pty \in {RES, REN} -> Refused("SECWARN_SERVER_ONLY_MESSAGE", ctx)
          [] h.pty = SADTP -> Refused("PROGRAMMING", ctx)
          [] h.pty = SADFD -> ServerProcessReceivedSecuredFd(ctx, pdu, h, rx, fresh)
          [] h.pty = UAD ->
                {Reply("OK", ctx, {}, {SduOf(h, pdu.len - HeaderLen(ctx.headerType), FALSE)})}
          [] OTHER -> Refused("INVALID_PAYLOAD_TYPE", ctx)

\* call.null: which of reactionPdu, receivedUserData and receivedPdu are NULL.
ServerProcessReceived(ctx, call, rx, fresh) ==
    LET pointers == FirstError(<<Check("reactionPdu" \in call.null, "NULL_PDU"),
                                 Check("receivedUserData" \in call.null, "NULL_SDU"),
                                 ServerCheckCtxPointers(ctx)>>)
        generic == ReceivedGenericMsgErr(ctx.headerType, call.pdu,
                                         "receivedPdu" \in call.null, ServerSid)
    IN  IF pointers # "OK" THEN Refused(pointers, ctx)
        ELSE (IF "currentTime" \in ctx.faults THEN Refused("FAILED", ctx) ELSE {})
             \cup IF generic # "OK" THEN Refused(generic, ctx)
                  ELSE ServerProcessReceivedPayload(ctx, call.pdu, rx, fresh)

----------------------------------------------------------------------------
(* Transmission *)

\* The context is checked before the PDU that is to be built.
ServerBuildUnsecured(ctx, call) ==
    LET err == FirstError(<<
            ServerCheckCtxPointers(ctx),
            Check("unsecuredPdu" \in call.null, "NULL_PDU"),
            IF ctx.null # {} THEN "OK"
            ELSE MsgBeforePackingErr(ctx.headerType, call.gid, UAD, call.data)>>)
    IN  IF err # "OK" THEN Refused(err, ctx)
        ELSE {Reply("OK", ctx,
                    {PduOf(ctx.headerType, Header(call.gid, ServerSid, UAD), call.data.len)}, {})}

ServerBuildSecuredErr(ctx, call) ==
    FirstError(<<
        Check("securedPdu" \in call.null, "NULL_PDU"),
        ServerCheckCtxPointers(ctx),
        IF ctx.null # {} THEN "OK"
        ELSE MsgBeforePackingErr(ctx.headerType, call.gid, SADFD, call.data),
        Check(call.gid >= ctx.amountOfGroups, "UNKNOWN_GROUP")>>)

ServerNoReceiver(ctx, gid) ==
    Check(~Session(ctx, gid + 1)!ServerDidAnyClientAlreadyRequest(ctx.states[gid + 1]),
          "NO_POTENTIAL_RECEIVER")

ServerBuildSecuredFd(ctx, call) ==
    LET err == ServerBuildSecuredErr(ctx, call)
        i   == call.gid + 1
    IN  IF err # "OK" THEN Refused(err, ctx)
        ELSE Replies(ctx, call.gid, ServerNoReceiver(ctx, call.gid),
                     Session(ctx, i)!ServerBuildSecuredFd(ctx.states[i]), call.data.len, {})

ServerForceSessionRenewal(ctx, call, now, fresh) ==
    LET i   == call.gid + 1
        err == FirstError(<<
            Check("renewalPdu" \in call.null, "NULL_PDU"),
            ServerCheckCtxPointers(ctx),
            Check(call.gid >= ctx.amountOfGroups, "UNKNOWN_GROUP")>>)
    IN  IF err # "OK" THEN Refused(err, ctx)
        ELSE Replies(ctx, call.gid,
                     IF Session(ctx, i)!ServerPhaseIsActive(ctx.states[i]) THEN "OK"
                     ELSE ServerNoReceiver(ctx, call.gid),
                     Session(ctx, i)!ServerForceSessionRenewal(ctx.states[i], now, fresh), 0, {})

----------------------------------------------------------------------------
(* Initialisation *)

\* Mutant: the last Group is forgotten.
Mutant_ServerInitStartAllSessions(ctx, now, freshOf) ==
    {Reply("OK",
           [ctx EXCEPT !.states = [i \in DOMAIN ctx.states |->
                IF i < ctx.amountOfGroups
                THEN Session(ctx, i)!ServerStartedSession(now, freshOf[i]) ELSE ctx.states[i]]],
           {}, {})}

\* Which Groups the loop reaches: all, or those up to one where a function of
\* the user fails. A draw that fails leaves the Group's state half renewed.
ServerInitStartAllSessions(ctx, now, freshOf) ==
    LET started(i) == Session(ctx, i)!ServerStartedSession(now, freshOf[i])
        begun(k)   == [i \in DOMAIN ctx.states |->
                        IF i < k THEN started(i) ELSE ctx.states[i]]
        groups     == 1 .. ctx.amountOfGroups
    IN  {Reply("OK", [ctx EXCEPT !.states = begun(ctx.amountOfGroups + 1)], {}, {})}
        \cup
        {Reply("FAILED", [ctx EXCEPT !.states = begun(k)], {}, {}) :
            k \in IF "currentTime" \in ctx.faults THEN groups ELSE {}}
        \cup
        UNION {
            {Reply("FAILED",
                   [ctx EXCEPT !.states = [begun(k) EXCEPT ![k] =
                        [started(k) EXCEPT !.currentStk = draw.stk,
                                           !.previousStk = ctx.states[k].previousStk]]], {}, {}) :
                draw \in {d \in Session(ctx, k)!NonZeroTrng(ctx.states[k].currentStk, freshOf[k]) :
                            ~d.ok}} : k \in groups}

ServerInit(ctx, now, freshOf) ==
    LET err == ServerCheckCtx(ctx)
    IN  IF err # "OK" THEN Refused(err, ctx)
        ELSE ServerInitStartAllSessions(ctx, now, freshOf)

ServerUnsetState ==
    [sessionStartInstant          |-> 0,
     currentRxLastMessageInstant  |-> 0,
     previousRxLastMessageInstant |-> 0,
     currentCtrNonce              |-> 0,
     previousCtrNonce             |-> 0,
     currentStk                   |-> 0,
     previousStk                  |-> 0]

\* Only the pointers it uses are checked. All states are zeroed.
ServerDeInit(ctx) ==
    LET err == FirstError(<<Check("ctx" \in ctx.null, "NULL_CTX"),
                            Check("serverConfig" \in ctx.null, "NULL_CONFIG_SERVER"),
                            Check("groupStates" \in ctx.null, "NULL_STATES_GROUPS")>>)
    IN  IF err # "OK" THEN Refused(err, ctx)
        ELSE {Reply("OK",
                    [ctx EXCEPT !.states = [i \in DOMAIN ctx.states |->
                        IF i <= ctx.amountOfGroups THEN ServerUnsetState ELSE ctx.states[i]]],
                    {}, {})}
=============================================================================
