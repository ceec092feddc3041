---------------------------- MODULE ServerChecks ----------------------------
(***************************************************************************)
(* The checks the Server makes of its context: of the pointers, at every   *)
(* call, and of the configurations, in hzl_ServerInit.                     *)
(*                                                                         *)
(* A context is a record: which of its pointers are NULL (null), what they *)
(* point to, arrays as sequences, a bitmap as the set of SIDs of its bits. *)
(***************************************************************************)
EXTENDS Checks

ServerMaxCounterNonceUpperLimit == 16777088   \* HZL_SERVER_MAX_COUNTER_NONCE_UPPER_LIMIT
ServerMaxAmountOfClients == 32                \* HZL_SERVER_MAX_AMOUNT_OF_CLIENTS

----------------------------------------------------------------------------
\* hzl_ServerCheckCtxPointers
ServerCheckCtxPointers(ctx) ==
    FirstError(<<Check("ctx" \in ctx.null, "NULL_CTX"),
                 Check("serverConfig" \in ctx.null, "NULL_CONFIG_SERVER"),
                 Check("clientConfigs" \in ctx.null, "NULL_CONFIG_CLIENTS"),
                 Check("groupConfigs" \in ctx.null, "NULL_CONFIG_GROUPS"),
                 Check("groupStates" \in ctx.null, "NULL_STATES_GROUPS"),
                 Check("currentTime" \in ctx.null, "NULL_CURRENT_TIME_FUNC"),
                 Check("trng" \in ctx.null, "NULL_TRNG_FUNC")>>)

ServerInitCheckServerConfig(ctx) ==
    IF HeaderTypeCheck(ctx.headerType) # "OK"
    THEN HeaderTypeCheck(ctx.headerType)
    ELSE FirstError(<<
            Check(ctx.amountOfGroups = 0, "ZERO_GROUPS"),
            Check(ctx.amountOfGroups > HeaderTypeMaxGid(ctx.headerType) + 1,
                  "TOO_MANY_GROUPS_FOR_CONFIGURED_HEADER_TYPE"),
            Check(ctx.amountOfClients = 0, "ZERO_CLIENTS"),
            Check(ctx.amountOfClients > HeaderTypeMaxSid(ctx.headerType),
                  "TOO_MANY_CLIENTS_FOR_CONFIGURED_HEADER_TYPE"),
            Check(ctx.amountOfClients > ServerMaxAmountOfClients, "TOO_MANY_CLIENTS")>>)

\* Mutant: that the SIDs ascend is checked, not that they have no gap.
Mutant_ServerInitCheckClientConfigs(ctx) ==
    FirstError([i \in 1 .. ctx.amountOfClients |->
        LET client == ctx.clients[i]
        IN  FirstError(<<
                Check(client.ltk = 0, "LTK_IS_ALL_ZEROS"),
                Check(client.sid = ServerSid, "SERVER_SID_ASSIGNED_TO_CLIENT"),
                Check(i > 1 /\ ctx.clients[i - 1].sid >= client.sid,
                      "SIDS_ARE_NOT_PRESORTED_STRICTLY_ASCENDING")>>)])

\* Each Client against the one before it. The first SID may be any but 0.
ServerInitCheckClientConfigs(ctx) ==
    FirstError([i \in 1 .. ctx.amountOfClients |->
        LET client == ctx.clients[i]
        IN  FirstError(<<
                Check(client.ltk = 0, "LTK_IS_ALL_ZEROS"),
                Check(client.sid = ServerSid, "SERVER_SID_ASSIGNED_TO_CLIENT"),
                Check(i > 1 /\ ctx.clients[i - 1].sid >= client.sid,
                      "SIDS_ARE_NOT_PRESORTED_STRICTLY_ASCENDING"),
                Check(i > 1 /\ ctx.clients[i - 1].sid + 1 # client.sid, "GAP_IN_SIDS")>>)])

ServerIsValidDelayBetweenRen(group) ==
    /\ group.delayBetweenRenNotificationsMillis > 0
    /\ group.delayBetweenRenNotificationsMillis < group.sessionDurationMillis \div 6

ServerAllClients(ctx) == 1 .. ctx.amountOfClients

\* What is only checked of the Groups that are not the broadcast Group.
ServerInitCheckOtherGroup(ctx, i) ==
    LET group == ctx.groups[i]
    IN  FirstError(<<
            Check(ctx.groups[i - 1].gid >= group.gid, "GIDS_ARE_NOT_PRESORTED_STRICTLY_ASCENDING"),
            Check(ctx.groups[i - 1].gid + 1 # group.gid, "GAP_IN_GIDS"),
            Check(group.sids = {}, "CLIENTS_BITMAP_ZERO_CLIENTS"),
            Check(~(group.sids \subseteq ServerAllClients(ctx)), "CLIENTS_BITMAP_UNKNOWN_SID")>>)

ServerInitCheckGroup(ctx, i) ==
    LET group == ctx.groups[i]
    IN  FirstError(<<
            IF i > 1 THEN ServerInitCheckOtherGroup(ctx, i) ELSE "OK",
            Check(group.maxCtrnonceDelayMsgs > LargestMaxCounterNonceDelay,
                  "INVALID_MAX_CTRNONCE_DELAY"),
            Check(group.ctrNonceUpperLimit > ServerMaxCounterNonceUpperLimit,
                  "TOO_LARGE_CTRNONCE_UPPER_LIMIT"),
            Check(~ServerIsValidDelayBetweenRen(group),
                  "INVALID_DELAY_BETWEEN_REN_NOTIFICATIONS")>>)

\* The broadcast Group has all Clients, and maybe bits of others, ignored.
ServerInitCheckGroupConfigs(ctx) ==
    LET broadcast == ctx.groups[1]
    IN  FirstError(
            <<Check(broadcast.gid # BroadcastGid, "MISSING_GID_0"),
              Check(~(ServerAllClients(ctx) \subseteq broadcast.sids),
                    "CLIENTS_BITMAP_INVALID_BROADCAST_GROUP")>>
            \o [i \in 1 .. ctx.amountOfGroups |-> ServerInitCheckGroup(ctx, i)])

\* Later checks read what earlier ones made sure of.
ServerCheckCtx(ctx) ==
    IF ServerCheckCtxPointers(ctx) # "OK" THEN ServerCheckCtxPointers(ctx)
    ELSE IF ServerInitCheckServerConfig(ctx) # "OK" THEN ServerInitCheckServerConfig(ctx)
    ELSE IF ServerInitCheckClientConfigs(ctx) # "OK" THEN ServerInitCheckClientConfigs(ctx)
    ELSE ServerInitCheckGroupConfigs(ctx)

----------------------------------------------------------------------------
(* What a received message is checked against, once configured *)

\* Mutant: one Group more than there are is taken for configured.
Mutant_ServerValidateSidAndGid(ctx, gid, sid) ==
    FirstError(<<
        Check(sid >= ctx.amountOfClients, "UNKNOWN_SOURCE"),
        Check(gid > ctx.amountOfGroups, "UNKNOWN_GROUP"),
        Check(gid < Len(ctx.groups) /\ sid \notin ctx.groups[gid + 1].sids, "SECWARN_NOT_IN_GROUP")>>)

\* The Group's bitmap is read at the position of the GID.
ServerValidateSidAndGid(ctx, gid, sid) ==
    FirstError(<<
        Check(sid >= ctx.amountOfClients, "UNKNOWN_SOURCE"),
        Check(gid >= ctx.amountOfGroups, "UNKNOWN_GROUP"),
        Check(gid < Len(ctx.groups) /\ sid \notin ctx.groups[gid + 1].sids, "SECWARN_NOT_IN_GROUP")>>)

----------------------------------------------------------------------------
(* What the documentation says of the configurations *)

\* The documented constraints of a Group's configuration (hzl_Server.h:163-236).
IsDocumentedGroup(group) ==
    /\ group.maxCtrnonceDelayMsgs <= LargestMaxCounterNonceDelay
    /\ group.ctrNonceUpperLimit <= ServerMaxCounterNonceUpperLimit
    /\ 0 < group.delayBetweenRenNotificationsMillis
    /\ 6 * (group.delayBetweenRenNotificationsMillis + 1) <= group.sessionDurationMillis

\* Those of the Server (hzl_Server.h:94-135), stated of whole arrays rather
\* than of neighbours. The first SID is left free, as the code leaves it.
IsDocumentedServer(c) ==
    LET clients == 1 .. c.amountOfClients
        groups  == 1 .. c.amountOfGroups
    IN  /\ c.headerType \in 0 .. 6
        /\ clients # {} /\ c.amountOfClients <= HeaderTypeMaxSid(c.headerType)
        /\ c.amountOfClients <= ServerMaxAmountOfClients
        /\ groups # {} /\ c.amountOfGroups - 1 <= HeaderTypeMaxGid(c.headerType)
        /\ \A i \in clients : /\ c.clients[i].ltk # 0
                              /\ c.clients[i].sid = c.clients[1].sid + i - 1
                              /\ c.clients[i].sid # ServerSid
        /\ \A i \in groups : c.groups[i].gid = i - 1 /\ IsDocumentedGroup(c.groups[i])
        /\ clients \subseteq c.groups[1].sids
        /\ \A i \in groups \ {1} : c.groups[i].sids # {} /\ c.groups[i].sids \subseteq clients
=============================================================================
