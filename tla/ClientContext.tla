--------------------------- MODULE ClientContext ---------------------------
(***************************************************************************)
(* A Client in several Groups whose GIDs have a gap, called with anything: *)
(* what the Server built for this Client or for another one, for any Group,*)
(* whole, cut short or with the header of another Group, in time or late,  *)
(* and what the other Clients sent. The functions of the user may fail.    *)
(***************************************************************************)
EXTENDS ClientCalls, FiniteSets

CONSTANTS
    Type,       \* the header type of the bus
    MayFail,    \* the functions of the user that may fail
    Times,      \* the instants at which calls are made
    MaxCalls,   \* bound: how many calls are made
    Ctrnonces   \* the counter nonces received

ASSUME TypeAssumption == Type \in 0 .. 6
ASSUME MayFailAssumption == MayFail \subseteq {"currentTime", "trng"}
ASSUME BoundsAssumption ==
    Times \subseteq Nat /\ MaxCalls \in Nat /\ Ctrnonces \subseteq 0 .. MaxCtrnonce

VARIABLES
    ctx,   \* the context of the Client
    asked, \* how many Request nonces were drawn
    calls, \* how many calls were made
    last   \* the last call's name and GID, and its reply but for the context

vars == <<ctx, asked, calls, last>>

OwnSid == 2
OwnLtk == 102
Gids == {0, 2, 3}   \* 3 is not configured

\* The keys the Server has drawn for a Group: one Session each, and all zeros
\* when its generator gave up.
StkOf(gid) == gid + 1

StksOf(gid) == {0, StkOf(gid)}

GroupConfig(gid) ==
    [gid |-> gid, maxCtrnonceDelayMsgs |-> 1, maxSilenceIntervalMillis |-> 4,
     sessionRenewalDurationMillis |-> 8]

Init ==
    /\ ctx = [null |-> {}, faults |-> MayFail,
              headerType |-> Type, sid |-> OwnSid, ltk |-> OwnLtk,
              timeoutReqToResMillis |-> 4, amountOfGroups |-> 2,
              groups |-> <<GroupConfig(0), GroupConfig(2)>>,
              states |-> [i \in 1 .. 2 |->
                [requestNonce |-> 0, lastHandshakeEventInstant |-> 0,
                 currentRxLastMessageInstant |-> 0, previousRxLastMessageInstant |-> 0,
                 currentCtrNonce |-> 0, previousCtrNonce |-> 0, currentStk |-> 0,
                 previousStk |-> 0]]]
    /\ asked = 0
    /\ calls = 0
    /\ last = [call |-> "NONE", gid |-> 0, genuine |-> TRUE, err |-> "NONE", out |-> {}, sdu |-> {}]

\* The call named "name", which is about the Group gid, gets one of the replies.
\* Nonces are drawn in the order of their numbers.
Called(name, gid, genuine, replies) ==
    /\ calls < MaxCalls
    /\ \E r \in replies :
        /\ ctx' = r.ctx
        /\ last' = [call |-> name, gid |-> gid, genuine |-> genuine,
                    err |-> r.err, out |-> r.out, sdu |-> r.sdu]
        /\ LET nonces == {asked} \cup {r.ctx.states[i].requestNonce : i \in 1 .. 2}
           IN  asked' = CHOOSE n \in nonces : \A k \in nonces : k <= n
    /\ calls' = calls + 1

IsInitialised == last.call # "NONE" /\ ~(last.call = "Init" /\ last.err # "OK")

\* The user calls hzl_ClientInit until it succeeds, and maybe again later.
CallInit == Called("Init", 0, TRUE, ClientInit(ctx))

\* The user keeps asking for the Sessions of the Groups.
BuildRequest ==
    /\ IsInitialised
    /\ asked < MaxReqnonce
    /\ \E gid \in Gids, now \in Times :
        Called("BuildRequest", gid, TRUE,
               ClientBuildRequest(ctx, [null |-> {}, gid |-> gid], now, asked + 1))

Received(pdu, genuine) ==
    /\ IsInitialised
    /\ asked < MaxReqnonce
    /\ \E rx \in Times :
        Called("ProcessReceived", HeaderUnpack(Type, pdu.header).gid, genuine,
               ClientProcessReceived(ctx, [null |-> {}, pdu |-> pdu], rx, asked + 1))

\* A received message may be whole, lack one byte or two, or have the header
\* of another Group's message.
Defects == {"none", "cut", "short", "otherGid"}

WithDefect(pdu, defect) ==
    [pdu EXCEPT !.len = @ - (CASE defect = "cut" -> 1 [] defect = "short" -> 2 [] OTHER -> 0)]

Presented(h, defect) ==
    IF defect = "otherGid" THEN [h EXCEPT !.gid = IF @ = 0 THEN 2 ELSE 0] ELSE h

\* To any Request of any Client.
ReceiveResponse ==
    \E gid \in {0, 2}, client \in 2 .. 3, reqnonce \in 1 .. asked, ctrnonce \in Ctrnonces,
       defect \in Defects :
        LET h == Header(gid, ServerSid, RES)
            tag == ResTag(100 + client, h, ctrnonce, reqnonce, client)
        IN  \E stk \in StksOf(gid) :
            Received([WithDefect(PduOf(Type, Presented(h, defect), 0), defect) EXCEPT
                        !.client = client, !.ctrnonce = ctrnonce, !.stk = stk, !.tag = tag],
                     defect = "none")

ReceiveRenewal ==
    \E gid \in {0, 2}, ctrnonce \in Ctrnonces, defect \in Defects :
        LET h == Header(gid, ServerSid, REN)
        IN  \E stk \in StksOf(gid) :
            Received([WithDefect(PduOf(Type, Presented(h, defect), 0), defect) EXCEPT
                        !.ctrnonce = ctrnonce, !.tag = RenTag(stk, h, ctrnonce)],
                     defect = "none")

\* With one byte of user data, from the Server or another Client.
ReceiveSecuredFd ==
    \E gid \in {0, 2}, sid \in {0, 3}, ctrnonce \in Ctrnonces, defect \in Defects :
        LET h == Header(gid, sid, SADFD)
        IN  \E stk \in StksOf(gid) :
            Received([WithDefect(PduOf(Type, Presented(h, defect), 1), defect) EXCEPT
                        !.ptlen = 1, !.ctrnonce = ctrnonce, !.tag = SadfdTag(stk, h, ctrnonce, 1)],
                     defect = "none")

\* Anything else: of any type, from anybody, for any Group, or too short.
ReceiveOther ==
    \E gid \in {0, 3}, sid \in {0, 2, 3}, pty \in 0 .. 7, len \in {0, HeaderLen(Type)} :
        Received(Pdu(HeaderPack(Type, Header(gid, sid, pty)), len), FALSE)

Data == {[null |-> FALSE, len |-> 0], [null |-> FALSE, len |-> 64], [null |-> TRUE, len |-> 1]}

BuildSecuredFd ==
    /\ IsInitialised
    /\ \E gid \in Gids, data \in Data :
        Called("BuildSecuredFd", gid, TRUE,
               ClientBuildSecuredFd(ctx, [null |-> {}, gid |-> gid, data |-> data]))

BuildUnsecured ==
    /\ IsInitialised
    /\ \E gid \in Gids, data \in Data :
        Called("BuildUnsecured", gid, TRUE,
               ClientBuildUnsecured(ctx, [null |-> {}, gid |-> gid, data |-> data]))

DeInit ==
    /\ IsInitialised
    /\ Called("DeInit", 0, TRUE, ClientDeInit(ctx))

Next ==
    \/ CallInit
    \/ BuildRequest
    \/ ReceiveResponse
    \/ ReceiveRenewal
    \/ ReceiveSecuredFd
    \/ ReceiveOther
    \/ BuildSecuredFd
    \/ BuildUnsecured
    \/ DeInit

Spec == Init /\ [][Next]_vars

----------------------------------------------------------------------------
(* Properties *)

\* A call is answered or refused, never a bit of both: what is delivered or
\* built comes with success, a Response that succeeds leaves a usable key and
\* ends its handshake, and a call that says it built a message has one. The
\* checks that give a call its error and those that let it act are the same
\* (hzl_ClientProcessReceivedResponse and the other branches).
AnsweredOrRefused ==
    /\ last.err \notin {"OK", "NONE"} => last.out = {} /\ last.sdu = {}
    /\ last.err = "OK" /\ last.call \in {"BuildRequest", "BuildSecuredFd", "BuildUnsecured"} =>
        last.out # {}
    /\ last.err = "OK" /\ last.call = "ProcessReceived" /\ last.out = {} /\ last.sdu = {} =>
        \E i \in ClientFindGroup(ctx, last.gid) :
            ctx.states[i].currentStk # 0 /\ ctx.states[i].requestNonce = 0

HasSession(group, gid) == group.currentStk = StkOf(gid) /\ group.previousStk \in {0, StkOf(gid)}

HasNoSession(group) == group.currentStk = 0 /\ group.previousStk = 0

\* The keys of a Group come from Responses about that Group: one with the
\* header of another Group is refused although it answers a Request of this
\* very Client. A key of all zeros is never taken: a Group with a Session has
\* the Server's key for it, whatever it receives, until hzl_ClientInit or
\* hzl_ClientDeInit, and one without goes on waiting for the Response it asked
\* for, and has no renewal phase (hzl_ClientProcessReceivedResponse.c:109).
KeysAreOfTheGroup ==
    [][\A i \in 1 .. 2 :
        \/ HasSession(ctx'.states[i], ctx.groups[i].gid)
        \/ /\ HasNoSession(ctx'.states[i])
           /\ \/ last'.call \in {"Init", "DeInit"}
              \/ /\ HasNoSession(ctx.states[i])
                 /\ ctx.states[i].requestNonce # 0 => ctx'.states[i].requestNonce # 0]_vars

\* Secured data that is delivered was sent in that Group, and arrived whole: the
\* length field is the sender's, the length of the frame the receiver's.
DataIsGenuine == \A sdu \in last.sdu : sdu.wasSecured => last.genuine /\ sdu.gid = last.gid

\* Every message the Client builds verifies at the Server (at the other Clients,
\* for a secured message): from its own header, its lengths and the keys.
WhatIsSentVerifies ==
    \A pdu \in last.out :
        LET h == HeaderUnpack(Type, pdu.header)
        IN  /\ ReceivedGenericMsgErr(Type, pdu, FALSE, ServerSid) = "OK"
            /\ h.sid = OwnSid
            /\ h.gid = last.gid
            /\ pdu.len \in HeaderLen(Type) + MetadataLen(h.pty) .. MaxCanFdDataLen
            /\ \A i \in ClientFindGroup(ctx, h.gid) :
                /\ h.pty = REQ => /\ pdu.tag = ReqTag(OwnLtk, h, pdu.reqnonce)
                                  /\ pdu.reqnonce = ctx.states[i].requestNonce
                /\ h.pty = SADFD => pdu.tag = SadfdTag(ctx.states[i].currentStk, h,
                                                       pdu.ctrnonce, pdu.ptlen)

\* Groups share nothing: a call about one leaves the state of the others alone.
GroupsAreSeparate ==
    [][last'.call \notin {"Init", "DeInit"} =>
        \A i \in 1 .. 2 : ctx.groups[i].gid # last'.gid => ctx'.states[i] = ctx.states[i]]_vars
=============================================================================
