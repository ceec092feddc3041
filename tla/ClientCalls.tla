---------------------------- MODULE ClientCalls ----------------------------
(***************************************************************************)
(* The calls of the Client's interface, on a context of several Groups, as *)
(* ServerCalls has the Server's: which check fails first, with the name of *)
(* its error, and what the call does to the context. What it does to a     *)
(* Group's Session is ClientSession's.                                     *)
(***************************************************************************)
EXTENDS ClientChecks, Domains

CONSTANTS
    MaxReqnonce          \* bound: how many Requests are ever built

\* The Session of the Group at a position of the context's arrays.
Session(ctx, i) ==
    INSTANCE ClientSession WITH
        IoFaults                     <- ctx.faults,
        OwnSid                       <- ctx.sid,
        TimeoutReqToResMillis        <- ctx.timeoutReqToResMillis,
        MaxCtrnonceDelayMsgs         <- ctx.groups[i].maxCtrnonceDelayMsgs,
        MaxSilenceIntervalMillis     <- ctx.groups[i].maxSilenceIntervalMillis,
        SessionRenewalDurationMillis <- ctx.groups[i].sessionRenewalDurationMillis

Reply(err, ctx, out, sdu) == [err |-> err, ctx |-> ctx, out |-> out, sdu |-> sdu]

Refused(err, ctx) == {Reply(err, ctx, {}, {})}

----------------------------------------------------------------------------
(* The messages the Client builds *)

\* Mutant: the Request is for the Group at the GID's position.
Mutant_ClientReqPdu(ctx, i, m) ==
    LET h == Header(i - 1, ctx.sid, REQ)
    IN  [PduOf(ctx.headerType, h, 0) EXCEPT !.reqnonce = m.reqnonce,
                                            !.tag = ReqTag(ctx.ltk, h, m.reqnonce)]

ClientReqPdu(ctx, i, m) ==
    LET h == Header(ctx.groups[i].gid, ctx.sid, REQ)
    IN  [PduOf(ctx.headerType, h, 0) EXCEPT !.reqnonce = m.reqnonce,
                                            !.tag = ReqTag(ctx.ltk, h, m.reqnonce)]

ClientSadfdPdu(ctx, i, m, ptlen) ==
    LET h == Header(ctx.groups[i].gid, ctx.sid, SADFD)
    IN  [PduOf(ctx.headerType, h, ptlen) EXCEPT
            !.ctrnonce = m.ctrnonce, !.ptlen = ptlen,
            !.tag = SadfdTag(m.stk, h, m.ctrnonce, ptlen)]

ClientPdu(ctx, i, m, ptlen) ==
    IF m.pty = "REQ" THEN ClientReqPdu(ctx, i, m) ELSE ClientSadfdPdu(ctx, i, m, ptlen)

\* What the outcomes of a Group's handler make of the context.
Replies(ctx, i, err, outcomes, ptlen, sdu) ==
    {Reply(IF o.err = "FAILED" THEN "FAILED" ELSE err,
           [ctx EXCEPT !.states[i] = o.group],
           {ClientPdu(ctx, i, m, ptlen) : m \in o.out},
           IF o.sdu = {} THEN {} ELSE {sdu}) : o \in outcomes}

----------------------------------------------------------------------------
(* Reception of a Response *)

\* Before the Group is looked up. The Client a Response is for is a field of it.
ClientResponseForOtherErr(ctx, pdu, h) ==
    FirstError(<<
        Check(h.sid # ServerSid, "SECWARN_SERVER_ONLY_MESSAGE"),
        Check(pdu.len < HeaderLen(ctx.headerType) + MetadataLen(RES), "TOO_SHORT_PDU_TO_CONTAIN_RES"),
        Check(pdu.client # ctx.sid, "MSG_IGNORED"),
        Check(ClientFindGroup(ctx, h.gid) = {}, "UNKNOWN_GROUP")>>)

\* Mutant: an all-zeros key is not looked for.
Mutant_ClientResponseErr(ctx, i, pdu, h, rx) ==
    LET group == ctx.states[i]
    IN  FirstError(<<
            Check(group.requestNonce = 0, "SECWARN_NOT_EXPECTING_A_RESPONSE"),
            Check(~Session(ctx, i)!ClientIsResponseAcceptable(group, rx), "SECWARN_RESPONSE_TIMEOUT"),
            Check(Session(ctx, i)!CtrnonceIsExpired(pdu.ctrnonce), "SECWARN_RECEIVED_OVERFLOWN_NONCE"),
            Check(pdu.tag # ResTag(ctx.ltk, h, pdu.ctrnonce, group.requestNonce, pdu.client),
                  "SECWARN_INVALID_TAG")>>)

ClientResponseErr(ctx, i, pdu, h, rx) ==
    LET group == ctx.states[i]
    IN  FirstError(<<
            Check(group.requestNonce = 0, "SECWARN_NOT_EXPECTING_A_RESPONSE"),
            Check(~Session(ctx, i)!ClientIsResponseAcceptable(group, rx), "SECWARN_RESPONSE_TIMEOUT"),
            Check(Session(ctx, i)!CtrnonceIsExpired(pdu.ctrnonce), "SECWARN_RECEIVED_OVERFLOWN_NONCE"),
            Check(pdu.tag # ResTag(ctx.ltk, h, pdu.ctrnonce, group.requestNonce, pdu.client),
                  "SECWARN_INVALID_TAG"),
            Check(pdu.stk = 0, "SECWARN_RECEIVED_ZERO_KEY")>>)

ClientProcessReceivedResponse(ctx, pdu, h, rx) ==
    LET known  == ClientResponseForOtherErr(ctx, pdu, h)
        nonce(i) == ctx.states[i].requestNonce
        answers(i) == pdu.tag = ResTag(ctx.ltk, h, pdu.ctrnonce, nonce(i), pdu.client)
        m(i)   == [client |-> pdu.client, stk |-> pdu.stk, ctrnonce |-> pdu.ctrnonce,
                   reqnonce |-> nonce(i)]
    IN  IF known # "OK" THEN Refused(known, ctx)
        ELSE UNION {Replies(ctx, i, ClientResponseErr(ctx, i, pdu, h, rx),
                            Session(ctx, i)!ClientProcessReceivedResponse(
                                ctx.states[i], m(i), answers(i), rx), 0, {}) :
                        i \in ClientFindGroup(ctx, h.gid)}

----------------------------------------------------------------------------
(* Reception under a Session key *)

\* Why a counter nonce is not acceptable.
ClientCtrnonceErr(ctx, i, group, ctrnonce, rx) ==
    FirstError(<<
        Check(Session(ctx, i)!CtrnonceIsExpired(ctrnonce), "SECWARN_RECEIVED_OVERFLOWN_NONCE"),
        Check(~Session(ctx, i)!ClientCheckRxCtrnonce(group, ctrnonce, rx), "SECWARN_OLD_MESSAGE")>>)

ClientRenewalErr(ctx, i, pdu, h, rx) ==
    LET group == ctx.states[i]
    IN  FirstError(<<
            Check(~Session(ctx, i)!ClientIsSessionEstablishedAndValid(group), "SESSION_NOT_ESTABLISHED"),
            Check(~Session(ctx, i)!ClientIsRenewalAcceptable(group), "MSG_IGNORED"),
            Check(pdu.len < HeaderLen(ctx.headerType) + MetadataLen(REN), "TOO_SHORT_PDU_TO_CONTAIN_REN"),
            ClientCtrnonceErr(ctx, i, group, pdu.ctrnonce, rx),
            Check(pdu.tag # RenTag(group.currentStk, h, pdu.ctrnonce), "SECWARN_INVALID_TAG")>>)

ClientProcessReceivedRenewal(ctx, pdu, h, rx, fresh) ==
    LET known == FirstError(<<Check(h.sid # ServerSid, "SECWARN_SERVER_ONLY_MESSAGE"),
                              Check(ClientFindGroup(ctx, h.gid) = {}, "MSG_IGNORED")>>)
        m      == [stk |-> pdu.tag.key, ctrnonce |-> pdu.ctrnonce]
        intact == /\ pdu.len >= HeaderLen(ctx.headerType) + MetadataLen(REN)
                  /\ pdu.tag = RenTag(pdu.tag.key, h, pdu.ctrnonce)
    IN  IF known # "OK" THEN Refused(known, ctx)
        ELSE UNION {Replies(ctx, i, ClientRenewalErr(ctx, i, pdu, h, rx),
                            Session(ctx, i)!ClientProcessReceivedRenewal(
                                ctx.states[i], m, intact, rx, fresh), 0, {}) :
                        i \in ClientFindGroup(ctx, h.gid)}

\* On the state of a Group that left its renewal phase if it had to.
ClientSadfdErr(ctx, i, pdu, h, group, rx) ==
    LET isPrevious == Session(ctx, i)!ClientIsPreviousSession(group, pdu.ctrnonce)
        stk == Session(ctx, i)!ClientChooseStk(group, isPrevious)
    IN  FirstError(<<
            Check(~Session(ctx, i)!ClientIsSessionEstablishedAndValid(group), "SESSION_NOT_ESTABLISHED"),
            Check(pdu.len < HeaderLen(ctx.headerType) + MetadataLen(SADFD),
                  "TOO_SHORT_PDU_TO_CONTAIN_SADFD"),
            ClientCtrnonceErr(ctx, i, group, pdu.ctrnonce, rx),
            Check(~SadfdIsWhole(ctx.headerType, pdu), "TOO_LONG_CIPHERTEXT"),
            Check(pdu.tag # SadfdTag(stk, h, pdu.ctrnonce, pdu.ptlen), "SECWARN_INVALID_TAG")>>)

ClientProcessReceivedSecuredFd(ctx, pdu, h, rx) ==
    LET groups == ClientFindGroup(ctx, h.gid)
        m      == [sid |-> h.sid, stk |-> pdu.tag.key, ctrnonce |-> pdu.ctrnonce]
        intact == /\ SadfdIsWhole(ctx.headerType, pdu)
                  /\ pdu.tag = SadfdTag(pdu.tag.key, h, pdu.ctrnonce, pdu.ptlen)
    IN  IF groups = {} THEN Refused("MSG_IGNORED", ctx)
        ELSE UNION {Replies(ctx, i,
                            ClientSadfdErr(ctx, i, pdu, h,
                                Session(ctx, i)!ClientPhaseExitIfNeeded(ctx.states[i], rx), rx),
                            Session(ctx, i)!ClientProcessReceivedSecuredFd(
                                ctx.states[i], m, intact, rx), 0, SduOf(h, pdu.ptlen, TRUE)) :
                        i \in groups}

ClientProcessReceivedPayload(ctx, pdu, rx, fresh) ==
    LET h == HeaderUnpack(ctx.headerType, pdu.header)
    IN  CASE h.pty = REQ -> Refused("MSG_IGNORED", ctx)
          [] h.pty = RES -> ClientProcessReceivedResponse(ctx, pdu, h, rx)
          [] h.pty = REN -> ClientProcessReceivedRenewal(ctx, pdu, h, rx, fresh)
          [] h.pty = SADTP -> Refused("PROGRAMMING", ctx)
          [] h.pty = SADFD -> ClientProcessReceivedSecuredFd(ctx, pdu, h, rx)
          [] h.pty = UAD ->
                {Reply("OK", ctx, {}, {SduOf(h, pdu.len - HeaderLen(ctx.headerType), FALSE)})}
          [] OTHER -> Refused("INVALID_PAYLOAD_TYPE", ctx)

\* call.null: which of reactionPdu, receivedUserData and receivedPdu are NULL.
ClientProcessReceived(ctx, call, rx, fresh) ==
    LET pointers == FirstError(<<Check("reactionPdu" \in call.null, "NULL_PDU"),
                                 Check("receivedUserData" \in call.null, "NULL_SDU"),
                                 ClientCheckCtxPointers(ctx)>>)
        generic == ReceivedGenericMsgErr(ctx.headerType, call.pdu,
                                         "receivedPdu" \in call.null, ctx.sid)
    IN  IF pointers # "OK" THEN Refused(pointers, ctx)
        ELSE (IF "currentTime" \in ctx.faults THEN Refused("FAILED", ctx) ELSE {})
             \cup IF generic # "OK" THEN Refused(generic, ctx)
                  ELSE ClientProcessReceivedPayload(ctx, call.pdu, rx, fresh)

----------------------------------------------------------------------------
(* Transmission *)

\* The context is checked before the PDU that is to be built.
ClientBuildUnsecured(ctx, call) ==
    LET err == FirstError(<<
            ClientCheckCtxPointers(ctx),
            Check("unsecuredPdu" \in call.null, "NULL_PDU"),
            IF ctx.null # {} THEN "OK"
            ELSE MsgBeforePackingErr(ctx.headerType, call.gid, UAD, call.data)>>)
    IN  IF err # "OK" THEN Refused(err, ctx)
        ELSE {Reply("OK", ctx,
                    {PduOf(ctx.headerType, Header(call.gid, ctx.sid, UAD), call.data.len)}, {})}

ClientBuildSecuredFd(ctx, call) ==
    LET err == FirstError(<<
            Check("securedPdu" \in call.null, "NULL_PDU"),
            ClientCheckCtxPointers(ctx),
            IF ctx.null # {} THEN "OK"
            ELSE MsgBeforePackingErr(ctx.headerType, call.gid, SADFD, call.data),
            Check(ctx.null = {} /\ ClientFindGroup(ctx, call.gid) = {}, "UNKNOWN_GROUP")>>)
        established(i) == Session(ctx, i)!ClientIsSessionEstablishedAndValid(ctx.states[i])
    IN  IF err # "OK" THEN Refused(err, ctx)
        ELSE UNION {Replies(ctx, i, Check(~established(i), "SESSION_NOT_ESTABLISHED"),
                            Session(ctx, i)!ClientBuildSecuredFd(ctx.states[i]), call.data.len, {}) :
                        i \in ClientFindGroup(ctx, call.gid)}

ClientBuildRequest(ctx, call, now, fresh) ==
    LET err == FirstError(<<
            Check("requestPdu" \in call.null, "NULL_PDU"),
            ClientCheckCtxPointers(ctx),
            Check(ctx.null = {} /\ ClientFindGroup(ctx, call.gid) = {}, "UNKNOWN_GROUP")>>)
        ongoing(i) == Session(ctx, i)!ClientIsAHandshakeOngoing(ctx.states[i], now)
    IN  IF err # "OK" THEN Refused(err, ctx)
        ELSE UNION {Replies(ctx, i, Check(ongoing(i), "HANDSHAKE_ONGOING"),
                            Session(ctx, i)!ClientBuildRequest(ctx.states[i], now, fresh), 0, {}) :
                        i \in ClientFindGroup(ctx, call.gid)}

----------------------------------------------------------------------------
(* Initialisation *)

ClientClearStateUnchecked(ctx) ==
    [ctx EXCEPT !.states = [i \in DOMAIN ctx.states |->
        IF i <= ctx.amountOfGroups THEN Session(ctx, i)!ClientClearedState ELSE ctx.states[i]]]

ClientInit(ctx) ==
    LET err == ClientCheckCtx(ctx)
    IN  IF err # "OK" THEN Refused(err, ctx)
        ELSE {Reply("OK", ClientClearStateUnchecked(ctx), {}, {})}

\* Only the pointers it uses are checked.
ClientDeInit(ctx) ==
    LET err == FirstError(<<Check("ctx" \in ctx.null, "NULL_CTX"),
                            Check("clientConfig" \in ctx.null, "NULL_CONFIG_CLIENT"),
                            Check("groupStates" \in ctx.null, "NULL_STATES_GROUPS")>>)
    IN  IF err # "OK" THEN Refused(err, ctx)
        ELSE {Reply("OK", ClientClearStateUnchecked(ctx), {}, {})}
=============================================================================
