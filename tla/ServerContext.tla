--------------------------- MODULE ServerContext ---------------------------
(***************************************************************************)
(* A Server with several Groups, called with anything: messages for any    *)
(* Group and from any SID, whole or cut short, authenticated for this      *)
(* Group or another, with a present or a past key or by nobody; user data  *)
(* for any Group. The functions of the user may fail.                      *)
(***************************************************************************)
EXTENDS ServerCalls, FiniteSets

CONSTANTS
    Type,       \* the header type of the bus
    MayFail,    \* the functions of the user that may fail
    Times,      \* the instants at which calls are made
    MaxCalls,   \* bound: how many calls are made
    Ctrnonces   \* the counter nonces received

ASSUME TypeAssumption == Type \in 0 .. 6
ASSUME MayFailAssumption == MayFail \subseteq {"currentTime", "trng"}
ASSUME BoundsAssumption ==
    /\ Times \subseteq Nat /\ Ctrnonces \subseteq 0 .. MaxCtrnonce
    /\ MaxCalls \in Nat /\ MaxStk \in Nat

VARIABLES
    ctx,   \* the context of the Server
    drawn, \* how many STKs were drawn
    calls, \* how many calls were made
    last   \* the last call's name and GID, and its reply but for the context

vars == <<ctx, drawn, calls, last>>

GroupConfig(gid, sids) ==
    [gid |-> gid, sids |-> sids, maxCtrnonceDelayMsgs |-> 1, ctrNonceUpperLimit |-> 2,
     maxSilenceIntervalMillis |-> 4,
     sessionDurationMillis |-> 12, delayBetweenRenNotificationsMillis |-> 1]

Init ==
    /\ ctx = [null |-> {}, faults |-> MayFail,
              headerType |-> Type, amountOfGroups |-> 2, amountOfClients |-> 3,
              clients |-> [sid \in 1 .. 3 |-> [sid |-> sid, ltk |-> 100 + sid]],
              groups |-> <<GroupConfig(0, 1 .. 3), GroupConfig(1, {2, 3})>>,
              states |-> [i \in 1 .. 2 |-> ServerUnsetState]]
    /\ drawn = 0
    /\ calls = 0
    /\ last = [call |-> "NONE", gid |-> 0, genuine |-> TRUE, err |-> "NONE", out |-> {}, sdu |-> {}]

\* The call named "name", which is about the Group gid, gets one of the replies.
\* Keys are drawn in the order of their numbers.
Called(name, gid, genuine, replies) ==
    /\ calls < MaxCalls
    /\ \E r \in replies :
        /\ ctx' = r.ctx
        /\ last' = [call |-> name, gid |-> gid, genuine |-> genuine,
                    err |-> r.err, out |-> r.out, sdu |-> r.sdu]
        /\ LET keys == {drawn} \cup {r.ctx.states[i].currentStk : i \in 1 .. 2}
           IN  drawn' = CHOOSE n \in keys : \A k \in keys : k <= n
    /\ calls' = calls + 1

IsInitialised == last.call # "NONE" /\ ~(last.call = "Init" /\ last.err # "OK")

\* The user calls hzl_ServerInit until it succeeds, and maybe again later.
CallInit ==
    /\ drawn + 2 <= MaxStk
    /\ \E now \in Times :
        Called("Init", 0, TRUE, ServerInit(ctx, now, [i \in 1 .. 2 |-> drawn + i]))

Received(pdu, genuine) ==
    /\ IsInitialised
    /\ drawn < MaxStk
    /\ \E rx \in Times :
        Called("ProcessReceived", HeaderUnpack(Type, pdu.header).gid, genuine,
               ServerProcessReceived(ctx, [null |-> {}, pdu |-> pdu], rx, drawn + 1))

\* A received message may be whole, lack one byte or two, or be authenticated
\* with the GID of another Group in its header.
\* If the SID or the GID is unknown already, nothing else is wrong.
DefectsOf(gid, sid) ==
    IF gid < 2 /\ sid < 3 THEN {"none", "cut", "short", "otherGid"} ELSE {"none"}

WithDefect(pdu, defect) ==
    [pdu EXCEPT !.len = @ - (CASE defect = "cut" -> 1 [] defect = "short" -> 2 [] OTHER -> 0)]

AuthenticatedHeader(h, defect) ==
    IF defect = "otherGid" THEN [h EXCEPT !.gid = 1 - h.gid] ELSE h

ReceiveRequest ==
    \E gid \in 0 .. 2, sid \in 1 .. 3, reqnonce \in 0 .. 1 :
        \E defect \in DefectsOf(gid, sid) :
        LET h == Header(gid, sid, REQ)
            tag == ReqTag(100 + sid, AuthenticatedHeader(h, defect), reqnonce)
        IN  Received([WithDefect(PduOf(Type, h, 0), defect) EXCEPT
                        !.reqnonce = reqnonce, !.tag = tag], defect = "none")

\* With one byte of user data, under a key of any Session of any Group.
ReceiveSecuredFd ==
    \E gid \in 0 .. 2, sid \in 1 .. 3, stk \in 1 .. drawn, ctrnonce \in Ctrnonces :
        \E defect \in DefectsOf(gid, sid) :
        LET h == Header(gid, sid, SADFD)
            tag == SadfdTag(stk, AuthenticatedHeader(h, defect), ctrnonce, 1)
        IN  Received([WithDefect(PduOf(Type, h, 1), defect) EXCEPT
                        !.ptlen = 1, !.ctrnonce = ctrnonce, !.tag = tag], defect = "none")

\* Anything else: from the Server itself, of another type, or too short.
ReceiveOther ==
    \E sid \in 0 .. 1, pty \in 0 .. 7, len \in {0, HeaderLen(Type), HeaderLen(Type) + 12} :
        Received(Pdu(HeaderPack(Type, Header(0, sid, pty)), len), FALSE)

Data == {[null |-> FALSE, len |-> 0], [null |-> FALSE, len |-> 64], [null |-> TRUE, len |-> 1]}

BuildSecuredFd ==
    /\ IsInitialised
    /\ \E gid \in 0 .. 2, data \in Data :
        Called("BuildSecuredFd", gid, TRUE,
               ServerBuildSecuredFd(ctx, [null |-> {}, gid |-> gid, data |-> data]))

BuildUnsecured ==
    /\ IsInitialised
    /\ \E gid \in 0 .. 2, data \in Data :
        Called("BuildUnsecured", gid, TRUE,
               ServerBuildUnsecured(ctx, [null |-> {}, gid |-> gid, data |-> data]))

ForceSessionRenewal ==
    /\ IsInitialised
    /\ drawn < MaxStk
    /\ \E gid \in 0 .. 2, now \in Times :
        Called("ForceSessionRenewal", gid, TRUE,
               ServerForceSessionRenewal(ctx, [null |-> {}, gid |-> gid], now, drawn + 1))

DeInit ==
    /\ IsInitialised
    /\ Called("DeInit", 0, TRUE, ServerDeInit(ctx))

Next ==
    \/ CallInit
    \/ ReceiveRequest
    \/ ReceiveSecuredFd
    \/ ReceiveOther
    \/ BuildSecuredFd
    \/ BuildUnsecured
    \/ ForceSessionRenewal
    \/ DeInit

Spec == Init /\ [][Next]_vars

----------------------------------------------------------------------------
(* Properties *)

\* A call is answered or refused, never a bit of both: a reception that
\* succeeds gives the user a message to send or data to read, a call that
\* builds a message gives it, and only the failure of a function of the user
\* may come with something (ServerGroup has NoUserDataOnError). The checks that
\* give a call its error and those that let it act are the same
\* (hzl_ServerProcessReceivedRequest, hzl_ServerProcessReceivedSecuredFd).
AnsweredOrRefused ==
    last.call \in {"ProcessReceived", "BuildSecuredFd", "BuildUnsecured", "ForceSessionRenewal"} =>
        /\ last.err = "OK" => last.out # {} \/ last.sdu # {}
        /\ last.err \notin {"OK", "FAILED"} => last.out = {} /\ last.sdu = {}

\* Secured data that is delivered was sent to that Group by one of its members:
\* a message that the header of another Group was put on is refused, although
\* the keys of both Groups are in the context and the SID is known.
DataIsOfAMember ==
    \A sdu \in last.sdu : sdu.wasSecured =>
        /\ last.genuine
        /\ sdu.gid = last.gid
        /\ sdu.sid \in ctx.groups[sdu.gid + 1].sids

\* A message that verifies at its receiver, a Client with the SID sid: from its
\* own header, lengths and keys (hzl_ClientProcessReceived and its branches).
\* The nonce of the Request a Response answers is the Client's, one here.
VerifiesAt(sid, pdu) ==
    LET h == HeaderUnpack(Type, pdu.header)
    IN  /\ ReceivedGenericMsgErr(Type, pdu, FALSE, sid) = "OK"
        /\ h.sid = ServerSid
        /\ h.gid = last.gid
        /\ pdu.len \in HeaderLen(Type) + MetadataLen(h.pty) .. MaxCanFdDataLen
        /\ CASE h.pty = RES -> pdu.client = sid =>
                                pdu.tag = ResTag(100 + sid, h, pdu.ctrnonce, 1, sid)
             [] h.pty = REN ->
                    pdu.tag = RenTag(ctx.states[h.gid + 1].previousStk, h, pdu.ctrnonce)
             [] h.pty = SADFD ->
                    pdu.tag = SadfdTag(ctx.states[h.gid + 1].currentStk, h, pdu.ctrnonce, pdu.ptlen)
             [] OTHER -> h.pty = UAD

\* Every message the Server builds verifies at every Client that has the keys
\* the Server has.
WhatIsSentVerifies ==
    \A pdu \in last.out : \A sid \in 1 .. 3 : VerifiesAt(sid, pdu)

\* A Session that hzl_ServerInit says it started was started in every Group,
\* under a key no other Group has or had, whatever an earlier call that failed
\* half way had left behind.
AllStarted ==
    last.call = "Init" /\ last.err = "OK" =>
        \A i \in 1 .. 2 :
            /\ ctx.states[i].currentStk # 0
            /\ ctx.states[i].currentStk > drawn - 2
            /\ ctx.states[i].previousStk = 0
            /\ ctx.states[i].sessionStartInstant = ctx.states[i].currentRxLastMessageInstant

\* Groups share nothing: a call about one leaves the keys, the counter nonces
\* and the instants of the others alone, and no two Groups have a key in common.
GroupsAreSeparate ==
    [][/\ last'.call \notin {"Init", "DeInit"} =>
            \A i \in 1 .. 2 : i # last'.gid + 1 => ctx'.states[i] = ctx.states[i]
       /\ \A stk \in 1 .. MaxStk :
            \E i \in 1 .. 2 :
                stk \notin {ctx'.states[i].currentStk, ctx'.states[i].previousStk}]_vars

\* A key of all zeros is not used: "the required arrays of bytes must be
\* not-all-zeros" (src/inc/hzl.h:423). hzl_ServerSessionRenewalPhaseEnter has
\* the current key overwritten by a draw that gives up, and only the call that
\* made it tells the user. The code does not keep this.
KeyIsNotZeros ==
    \A pdu \in last.out :
        HeaderUnpack(Type, pdu.header).pty \in {REN, SADFD} => pdu.tag.key # 0
=============================================================================
