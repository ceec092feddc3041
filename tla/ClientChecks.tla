---------------------------- MODULE ClientChecks ----------------------------
(***************************************************************************)
(* The checks the Client makes of its context: of the pointers, at every   *)
(* call, and of the configuration, in hzl_ClientInit. A context is a       *)
(* record, like the Server's.                                              *)
(***************************************************************************)
EXTENDS Checks

\* hzl_ClientCheckCtxPointers
ClientCheckCtxPointers(ctx) ==
    FirstError(<<Check("ctx" \in ctx.null, "NULL_CTX"),
                 Check("clientConfig" \in ctx.null, "NULL_CONFIG_CLIENT"),
                 Check("groupConfigs" \in ctx.null, "NULL_CONFIG_GROUPS"),
                 Check("groupStates" \in ctx.null, "NULL_STATES_GROUPS"),
                 Check("currentTime" \in ctx.null, "NULL_CURRENT_TIME_FUNC"),
                 Check("trng" \in ctx.null, "NULL_TRNG_FUNC")>>)

\* The limits of a header type are only looked up once the type is valid.
ClientInitCheckClientConfig(ctx) ==
    LET beforeLimits == FirstError(<<
            Check(ctx.ltk = 0, "LTK_IS_ALL_ZEROS"),
            Check(ctx.sid = ServerSid, "SERVER_SID_ASSIGNED_TO_CLIENT"),
            HeaderTypeCheck(ctx.headerType)>>)
    IN  IF beforeLimits # "OK" THEN beforeLimits
        ELSE FirstError(<<
            Check(ctx.sid > HeaderTypeMaxSid(ctx.headerType),
                  "SID_TOO_LARGE_FOR_CONFIGURED_HEADER_TYPE"),
            Check(ctx.amountOfGroups = 0, "ZERO_GROUPS"),
            Check(ctx.amountOfGroups > HeaderTypeMaxGid(ctx.headerType) + 1,
                  "TOO_MANY_GROUPS_FOR_CONFIGURED_HEADER_TYPE")>>)

\* Unlike the Server's, the GIDs of a Client may have gaps.
ClientInitCheckGroup(ctx, i) ==
    LET group == ctx.groups[i]
    IN  FirstError(<<
            Check(group.maxCtrnonceDelayMsgs > LargestMaxCounterNonceDelay,
                  "INVALID_MAX_CTRNONCE_DELAY"),
            Check(group.gid > HeaderTypeMaxGid(ctx.headerType),
                  "GID_TOO_LARGE_FOR_CONFIGURED_HEADER_TYPE"),
            Check(i > 1 /\ ctx.groups[i - 1].gid >= group.gid,
                  "GIDS_ARE_NOT_PRESORTED_STRICTLY_ASCENDING")>>)

ClientInitCheckGroupConfigs(ctx) ==
    FirstError(<<Check(ctx.groups[1].gid # BroadcastGid, "MISSING_GID_0")>>
               \o [i \in 1 .. ctx.amountOfGroups |-> ClientInitCheckGroup(ctx, i)])

\* Later checks read what earlier ones made sure of.
ClientCheckCtx(ctx) ==
    IF ClientCheckCtxPointers(ctx) # "OK" THEN ClientCheckCtxPointers(ctx)
    ELSE IF ClientInitCheckClientConfig(ctx) # "OK" THEN ClientInitCheckClientConfig(ctx)
    ELSE ClientInitCheckGroupConfigs(ctx)

\* Mutant: the Group is looked up by its position, as the Server does.
Mutant_ClientFindGroup(ctx, gid) == {gid + 1} \cap 1 .. ctx.amountOfGroups

\* Mutant: the search ends at the last Group, whether or not it is the one.
Mutant_Last_ClientFindGroup(ctx, gid) ==
    {i \in 1 .. ctx.amountOfGroups :
        /\ ctx.groups[i].gid = gid \/ i = ctx.amountOfGroups
        /\ \A j \in 1 .. i - 1 : ctx.groups[j].gid # gid}

\* The position of the first Group with that GID: none, or one.
ClientFindGroup(ctx, gid) ==
    {i \in 1 .. ctx.amountOfGroups :
        /\ ctx.groups[i].gid = gid
        /\ \A j \in 1 .. i - 1 : ctx.groups[j].gid # gid}

----------------------------------------------------------------------------
(* What the documentation says of the configuration *)

\* The documented constraints of a Client's configuration (hzl_Client.h:54-157
\* and hzl.h).
IsDocumentedClient(c) ==
    LET groups == 1 .. c.amountOfGroups
    IN  /\ c.ltk # 0
        /\ c.headerType \in 0 .. 6
        /\ c.sid \in 1 .. HeaderTypeMaxSid(c.headerType)
        /\ groups # {}
        /\ c.groups[1].gid = BroadcastGid
        /\ \A i \in groups : /\ c.groups[i].gid <= HeaderTypeMaxGid(c.headerType)
                             /\ c.groups[i].maxCtrnonceDelayMsgs <= LargestMaxCounterNonceDelay
        /\ \A i, j \in groups : i < j => c.groups[i].gid < c.groups[j].gid
=============================================================================
