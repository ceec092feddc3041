---------------------------- MODULE ServerTests ----------------------------
(***************************************************************************)
(* The tests of the Server, one definition each, named as in the source    *)
(* but for the prefix hzlServerTest_Server and, where the names of two     *)
(* files would be the same, the function they test.                        *)
(***************************************************************************)
EXTENDS ServerCalls, Scripts

\* HZL_TEST_SERVER_CORRECT_GROUP_CONFIGS
\* Bit s - 1 of the bitmap, which has the value of the GID, is of the SID s.
TestServerGroup(gid) ==
    [gid |-> gid,
     sids |-> IF gid = 0 THEN 1 .. 32 ELSE {s \in 1 .. 4 : (gid \div 2 ^ (s - 1)) % 2 = 1},
     maxCtrnonceDelayMsgs |-> 4,
     ctrNonceUpperLimit |-> \hFF0000,
     maxSilenceIntervalMillis |-> 5000,
     sessionDurationMillis |-> IF gid = 0 THEN 50000 ELSE 1200000,
     delayBetweenRenNotificationsMillis |-> 4000]

\* The context most tests start from, made of the correct configurations.
TestServerCtx ==
    [null |-> {}, faults |-> {},
     headerType |-> 0, amountOfGroups |-> 3, amountOfClients |-> 4,
     clients |-> [i \in 1 .. 4 |-> [sid |-> i, ltk |-> i]],
     groups |-> [i \in 1 .. 10 |-> TestServerGroup(i - 1)],
     states |-> [i \in 1 .. 10 |-> ServerUnsetState]]

Lacking(pointers) == With(TestServerCtx, [null |-> pointers])
OfHeaderType(type) == With(TestServerCtx, [headerType |-> type])
OfHeader6 == With(TestServerCtx, [headerType |-> 6, amountOfGroups |-> 1])

\* The SADFD from the Client 1 to the broadcast Group most tests receive.
SadfdOf1(ctrnonce, ptlen, stk) == RxSadfd(0, 0, 1, 64, ctrnonce, ptlen, stk)

\* The SADFD the Server is to build with the key stk.
BuiltSadfd(type, gid, ctrnonce, ptlen, stk) ==
    LET h == Header(gid, 0, SADFD)
    IN  [header |-> HeaderPack(type, h),
         len |-> HeaderLen(type) + 3 + 1 + ptlen + 8,
         ctrnonce |-> ctrnonce, ptlen |-> ptlen, tag |-> SadfdTag(stk, h, ctrnonce, ptlen)]

BuiltRen(gid, ctrnonce, stk) ==
    LET h == Header(gid, 0, REN)
    IN  [header |-> HeaderPack(0, h), len |-> 3 + 19, ctrnonce |-> ctrnonce,
         tag |-> RenTag(stk, h, ctrnonce)]

----------------------------------------------------------------------------
(* hzl_ServerBuildSecuredFd *)

BuildSecuredFdMsgToTxMustBeNotNull ==
    Script(Lacking({"ctx"}),
        <<Without(BuildsSecuredFd(0, Data(0), "NULL_PDU"), {"securedPdu"})>>)

BuildSecuredFdCtxMustBeNotNull ==
    Script(Lacking({"ctx"}), <<BuildsSecuredFd(0, NullData(0), "NULL_CTX")>>)

BuildSecuredFdMsgDataMustBeNotNullWhenPositiveDataLen ==
    Script(TestServerCtx,
        <<Inits("OK"),
          BuildsSecuredFd(0, NullData(1), "NULL_SDU"),
          ButNot(BuildsSecuredFd(0, NullData(0), "NULL_SDU"))>>)

BuildSecuredFdDataLenMustBeShortEnough ==
    Script(TestServerCtx,
        <<Inits("OK"), Hears(0),
          BuildsSecuredFd(0, Data(49), "OK"),
          BuildsSecuredFd(0, Data(50), "TOO_LONG_SDU")>>)

BuildSecuredFdDataLenDependsOnHeaderLen ==
    Script(OfHeader6,
        <<Inits("OK"), Hears(0),
          BuildsSecuredFd(0, Data(51), "OK"),
          BuildsSecuredFd(0, Data(52), "TOO_LONG_SDU")>>)

BuildSecuredFdCompactHeaderPreventsTooManyGroups ==
    Script(OfHeaderType(4),
        <<Inits("OK"), Hears(0),
          BuildsSecuredFd(33, Data(4), "GID_TOO_LARGE_FOR_CONFIGURED_HEADER_TYPE")>>)

BuildSecuredFdGidMustBeInConfig ==
    Script(TestServerCtx, <<Inits("OK"), BuildsSecuredFd(231, Data(4), "UNKNOWN_GROUP")>>)

BuildSecuredFdRequiresSomeClientsRequestedAlready ==
    Script(TestServerCtx,
        <<Inits("OK"), BuildsSecuredFd(0, Data(4), "NO_POTENTIAL_RECEIVER"), SentNothing,
          Hears(0), BuildsSecuredFd(0, Data(4), "OK")>>)

BuildSecuredFdHeaderIsPackedBeforePayload ==
    Script(TestServerCtx,
        <<Inits("OK"), Hears(0), Sets(0, [currentStk |-> 99, currentCtrNonce |-> \h112233]),
          BuildsSecuredFd(0, Data(4), "OK"),
          Sent([header |-> <<0, 0, 4>>, len |-> 3 + 3 + 1 + 4 + 8,
                ctrnonce |-> \h112233, ptlen |-> 4]),
          Has(0, [currentCtrNonce |-> \h112234])>>)

BuildSecuredFdHeaderPackingDependsOnType ==
    Script(OfHeaderType(4),
        <<Inits("OK"), Hears(2), Sets(2, [currentStk |-> 99, currentCtrNonce |-> \h112233]),
          BuildsSecuredFd(2, Data(4), "OK"),
          Sent([header |-> <<2 * 8 + 4>>, len |-> 1 + 3 + 1 + 4 + 8,
                ctrnonce |-> \h112233, ptlen |-> 4]),
          Has(2, [currentCtrNonce |-> \h112234])>>)

BuildSecuredFdMsgWithNoPayload ==
    Script(TestServerCtx,
        <<Inits("OK"), Hears(0), Sets(0, [currentStk |-> 99, currentCtrNonce |-> \h010203]),
          BuildsSecuredFd(0, NullData(0), "OK"),
          Sent(BuiltSadfd(0, 0, \h010203, 0, 99)),
          Has(0, [currentCtrNonce |-> \h010204])>>)

BuildSecuredFdSuccessfully ==
    Script(TestServerCtx,
        <<Inits("OK"), Hears(0), Sets(0, [currentStk |-> 99, currentCtrNonce |-> \h010203]),
          BuildsSecuredFd(0, Data(5), "OK"),
          Sent(BuiltSadfd(0, 0, \h010203, 5, 99)),
          Has(0, [currentCtrNonce |-> \h010204])>>)

BuildSecuredFdSuccessfullyUsesNewKeyDuringRenewalPhase ==
    Script(TestServerCtx,
        <<Inits("OK"), Hears(0),
          Sets(0, [currentStk |-> 99, currentCtrNonce |-> \h010203,
                   previousStk |-> 150, previousCtrNonce |-> \h111111]),
          BuildsSecuredFd(0, Data(5), "OK"),
          Sent(BuiltSadfd(0, 0, \h010203, 5, 99)),
          Has(0, [currentCtrNonce |-> \h010204])>>)

----------------------------------------------------------------------------
(* hzl_ServerBuildUnsecured *)

BuildUnsecuredMsgToTxMustBeNotNull ==
    Script(TestServerCtx, <<Without(BuildsUnsecured(0, Data(0), "NULL_PDU"), {"unsecuredPdu"})>>)

BuildUnsecuredCtxMustBeNotNull ==
    Script(Lacking({"ctx"}), <<BuildsUnsecured(0, NullData(0), "NULL_CTX")>>)

BuildUnsecuredUserDataMustBeNotNullWhenPositiveDataLen ==
    Script(TestServerCtx,
        <<Inits("OK"),
          BuildsUnsecured(0, NullData(1), "NULL_SDU"),
          BuildsUnsecured(0, NullData(0), "OK")>>)

BuildUnsecuredDataLenMustBeShortEnough ==
    Script(TestServerCtx,
        <<Inits("OK"),
          BuildsUnsecured(0, Data(61), "OK"),
          BuildsUnsecured(0, Data(62), "TOO_LONG_SDU")>>)

BuildUnsecuredDataLenDependsOnHeaderLen ==
    Script(OfHeader6,
        <<Inits("OK"),
          BuildsUnsecured(0, Data(63), "OK"),
          BuildsUnsecured(0, Data(64), "TOO_LONG_SDU")>>)

BuildUnsecuredCompactHeaderPreventsTooManyGroups ==
    Script(OfHeaderType(4),
        <<Inits("OK"), BuildsUnsecured(33, Data(4), "GID_TOO_LARGE_FOR_CONFIGURED_HEADER_TYPE")>>)

BuildUnsecuredGidsNotInConfigAreAccepted ==
    Script(TestServerCtx, <<Inits("OK"), BuildsUnsecured(231, Data(4), "OK")>>)

BuildUnsecuredHeaderIsPackedBeforePayload ==
    Script(TestServerCtx,
        <<Inits("OK"),
          BuildsUnsecured(42, Data(0), "OK"), Sent([header |-> <<42, 0, 5>>, len |-> 3]),
          BuildsUnsecured(42, Data(4), "OK"), Sent([header |-> <<42, 0, 5>>, len |-> 3 + 4])>>)

BuildUnsecuredHeaderPackingDependsOnType ==
    Script(OfHeaderType(4),
        <<Inits("OK"),
          BuildsUnsecured(2, Data(4), "OK"), Sent([header |-> <<2 * 8 + 5>>, len |-> 1 + 4])>>)

----------------------------------------------------------------------------
(* hzl_ServerDeInit *)

DeInitCtxMustNotBeNull ==
    Script(Lacking({"ctx"}), <<DeInits("NULL_CTX")>>)

DeInitServerConfigMustNotBeNull ==
    Script(Lacking({"serverConfig"}), <<DeInits("NULL_CONFIG_SERVER")>>)

DeInitGroupStatesMustNotBeNull ==
    Script(Lacking({"groupStates"}), <<DeInits("NULL_STATES_GROUPS")>>)

DeInitClearsGroupStatesOnly ==
    Script(TestServerCtx,
        <<Inits("OK"), DeInits("OK"),
          Has(0, ServerUnsetState), Has(1, ServerUnsetState), Has(2, ServerUnsetState)>>)

----------------------------------------------------------------------------
(* hzl_ServerForceSessionRenewal *)

ForceSessionRenewalMsgToTxMustBeNotNull ==
    Script(TestServerCtx, <<Inits("OK"), Without(Forces(1, "NULL_PDU"), {"renewalPdu"})>>)

ForceSessionRenewalCtxMustBeNotNull ==
    Script(Lacking({"ctx"}), <<Forces(1, "NULL_CTX")>>)

ForceSessionRenewalGidMustBeValid ==
    Script(TestServerCtx,
        <<Inits("OK"), Reads(2, "currentRxLastMessageInstant"),
          Forces(3, "UNKNOWN_GROUP"), Forces(2, "OK")>>)

ForceSessionRenewalRequiresSomeClientsRequestedAlready ==
    Script(TestServerCtx, <<Inits("OK"), Forces(1, "NO_POTENTIAL_RECEIVER")>>)

ForceSessionRenewalRenewsAndBuildsRenMsg ==
    Script(TestServerCtx,
        <<Inits("OK"), Sets(1, [currentStk |-> 99, currentCtrNonce |-> \h110022]),
          Reads(1, "currentRxLastMessageInstant"),
          Forces(1, "OK"),
          HasNot(1, [currentStk |-> 99]),
          Has(1, [previousStk |-> 99, previousCtrNonce |-> \h110023, currentCtrNonce |-> 0]),
          Sent(BuiltRen(1, \h110022, 99))>>)

\* What every further call of the next test is to leave: the same new key, and
\* one more counter nonce of the previous one used.
Renewed(ctrnonce) ==
    <<Forces(1, "OK"),
      Has(1, [currentStk |-> TestStk, previousStk |-> 99,
              previousCtrNonce |-> ctrnonce, currentCtrNonce |-> 0]),
      Sent([len |-> 3 + 19])>>

ForceSessionRenewalOnlyBuildRenMsgDuringExistingRenewal ==
    Script(TestServerCtx,
        <<Inits("OK"), Sets(1, [currentStk |-> 99, currentCtrNonce |-> \h110022]),
          Reads(1, "currentRxLastMessageInstant")>>
        \o Renewed(\h110023) \o Renewed(\h110024) \o Renewed(\h110025))

----------------------------------------------------------------------------
(* hzl_ServerInit *)

InitCtxMustBeNotNull == Script(Lacking({"ctx"}), <<Inits("NULL_CTX")>>)

InitGroupStatesMustBeNotNull ==
    Script(Lacking({"groupStates"}), <<Inits("NULL_STATES_GROUPS")>>)

InitFailingIoCurrentTime ==
    Script(With(TestServerCtx, [faults |-> {"currentTime"}]), <<Inits("FAILED")>>)

\* A generator that fails, then one that only draws zeros.
InitFailingIoTrng ==
    Script(With(TestServerCtx, [faults |-> {"trng"}]), <<Inits("FAILED"), Inits("FAILED")>>)

\* A state full of what was in memory before.
UninitialisedState == [field \in DOMAIN ServerUnsetState |-> 255]

InitCorrectCtxSucceedsInitsAllSessions ==
    LET started(g) == <<Has(g, [currentStk |-> TestStk, currentCtrNonce |-> 0,
                                previousCtrNonce |-> 0, previousStk |-> 0]),
                        IsUnheard(g)>>
    IN  Script(TestServerCtx,
            <<Sets(0, UninitialisedState), Sets(1, UninitialisedState), Sets(2, UninitialisedState),
              Waits(1), Inits("OK"), Waits(1)>> \o started(0) \o started(1) \o started(2))

InitCurrentTimeMustBeNotNull ==
    Script(Lacking({"currentTime"}), <<Inits("NULL_CURRENT_TIME_FUNC")>>)

InitTrngMustBeNotNull == Script(Lacking({"trng"}), <<Inits("NULL_TRNG_FUNC")>>)

----------------------------------------------------------------------------
(* The checks of the Server's configuration in hzl_ServerInit *)

\* Initialised with the given fields of the Server's configuration.
ConfiguredAs(fields, err) == <<Configures(fields), Inits(err)>>

InitConfigMustBeNotNull ==
    Script(Lacking({"serverConfig", "groupStates"}), <<Inits("NULL_CONFIG_SERVER")>>)

InitConfigAmountOfGroupsMustBePositive ==
    Script(TestServerCtx, ConfiguredAs([amountOfGroups |-> 0], "ZERO_GROUPS"))

InitConfigAmountOfClientsMustBePositive ==
    Script(TestServerCtx, ConfiguredAs([amountOfClients |-> 0], "ZERO_CLIENTS"))

InitConfigHeaderTypeMustBeStandard ==
    Script(TestServerCtx, ConfiguredAs([headerType |-> 99], "INVALID_HEADER_TYPE"))

InitConfigServerAmountOfGroupsMustFitForHeaderType ==
    Script(TestServerCtx,
        ConfiguredAs([headerType |-> 3, amountOfClients |-> 3, amountOfGroups |-> 9],
                     "TOO_MANY_GROUPS_FOR_CONFIGURED_HEADER_TYPE")
        \o ConfiguredAs([amountOfGroups |-> 8], "OK")
        \o ConfiguredAs([headerType |-> 5, amountOfGroups |-> 2],
                        "TOO_MANY_GROUPS_FOR_CONFIGURED_HEADER_TYPE")
        \o ConfiguredAs([amountOfGroups |-> 1], "OK"))

InitConfigServerAmountOfClientsMustFitForHeaderType ==
    Script(TestServerCtx,
        ConfiguredAs([headerType |-> 3, amountOfClients |-> 4],
                     "TOO_MANY_CLIENTS_FOR_CONFIGURED_HEADER_TYPE")
        \o ConfiguredAs([amountOfClients |-> 3], "OK"))

\* The first half of the test: in the second the Server reads 32 Clients of an
\* array of 4, the array of 32 the test has filled being left unused.
InitConfigServerAmountOfClientsMustFitInBitmap ==
    Script(TestServerCtx,
        ConfiguredAs([amountOfClients |-> ServerMaxAmountOfClients + 1], "TOO_MANY_CLIENTS"))

InitConfigServerMustHaveOnlyBroadcastWhenHeader5Or6 ==
    Script(OfHeaderType(6),
        ConfiguredAs([amountOfGroups |-> 2], "TOO_MANY_GROUPS_FOR_CONFIGURED_HEADER_TYPE")
        \o ConfiguredAs([amountOfGroups |-> 1], "OK"))

----------------------------------------------------------------------------
(* The checks of the Clients' configurations in hzl_ServerInit *)

\* The Clients of the tests, but for some fields of the one at position i of C.
ClientIs(i, fields) ==
    [clients |-> [TestServerCtx.clients EXCEPT ![i + 1] = With(@, fields)]]

InitClientConfigsMustBeNotNull ==
    Script(Lacking({"clientConfigs"}), <<Inits("NULL_CONFIG_CLIENTS")>>)

InitClientConfigsMustHaveNonZeroLtks ==
    Script(TestServerCtx, ConfiguredAs(ClientIs(1, [ltk |-> 0]), "LTK_IS_ALL_ZEROS"))

InitClientConfigsMustHaveNonZeroSid ==
    Script(TestServerCtx, ConfiguredAs(ClientIs(1, [sid |-> 0]), "SERVER_SID_ASSIGNED_TO_CLIENT"))

InitClientConfigsMustHaveSortedSidsStrictlyAscending ==
    Script(TestServerCtx,
        ConfiguredAs(ClientIs(1, [sid |-> 1]), "SIDS_ARE_NOT_PRESORTED_STRICTLY_ASCENDING")
        \o ConfiguredAs(
            [clients |-> [ClientIs(1, [sid |-> 1]).clients EXCEPT ![1].sid = 2]],
            "SIDS_ARE_NOT_PRESORTED_STRICTLY_ASCENDING"))

InitClientConfigsMustHaveSidsWithoutGaps ==
    Script(With(TestServerCtx, [amountOfClients |-> 3]),
        ConfiguredAs(ClientIs(1, [sid |-> 3]), "GAP_IN_SIDS"))

----------------------------------------------------------------------------
(* The checks of the Groups' configurations in hzl_ServerInit *)

\* The Groups of the tests, but for some fields of the one at position i of C.
GroupIs(i, fields) == [groups |-> [TestServerCtx.groups EXCEPT ![i + 1] = With(@, fields)]]

\* Initialised with the Group 1 so, which is, or is not, to be accepted.
Group1As(fields, err) == ConfiguredAs(GroupIs(1, fields), err)

InitGroupConfigsMustBeNotNull ==
    Script(Lacking({"groupConfigs"}), <<Inits("NULL_CONFIG_GROUPS")>>)

InitGroupConfigsMustHaveSortedGidsStrictlyAscending ==
    Script(TestServerCtx,
        ConfiguredAs(GroupIs(2, [gid |-> 1]), "GIDS_ARE_NOT_PRESORTED_STRICTLY_ASCENDING")
        \o ConfiguredAs(GroupIs(2, [gid |-> 0]), "GIDS_ARE_NOT_PRESORTED_STRICTLY_ASCENDING"))

InitGroupConfigsGidZeroMustExist ==
    Script(TestServerCtx, ConfiguredAs(GroupIs(0, [gid |-> 1]), "MISSING_GID_0"))

InitGroupConfigsMustHaveGidsWithoutGaps ==
    Script(TestServerCtx, Group1As([gid |-> 3], "GAP_IN_GIDS"))

InitGroupConfigsMaxCounterNonceDelayMustBeInValidRange ==
    Script(TestServerCtx,
        Group1As([maxCtrnonceDelayMsgs |-> LargestMaxCounterNonceDelay + 1],
                 "INVALID_MAX_CTRNONCE_DELAY")
        \o Group1As([maxCtrnonceDelayMsgs |-> LargestMaxCounterNonceDelay], "OK"))

InitGroupConfigsCounterNonceUpperLimitMustBeInValidRange ==
    Script(TestServerCtx,
        Group1As([ctrNonceUpperLimit |-> ServerMaxCounterNonceUpperLimit + 1],
                 "TOO_LARGE_CTRNONCE_UPPER_LIMIT")
        \o Group1As([ctrNonceUpperLimit |-> ServerMaxCounterNonceUpperLimit], "OK"))

InitGroupConfigsDelayBetweenRenMustBeInValidRange ==
    LET delay(millis, err) == Group1As([delayBetweenRenNotificationsMillis |-> millis], err)
        sixth == 1200000 \div 6
    IN  Script(TestServerCtx,
            delay(0, "INVALID_DELAY_BETWEEN_REN_NOTIFICATIONS")
            \o delay(1, "OK")
            \o delay(sixth, "INVALID_DELAY_BETWEEN_REN_NOTIFICATIONS")
            \o delay(sixth - 1, "OK"))

InitGroupConfigsBitmapMustHaveAtLeastOneClient ==
    Script(TestServerCtx,
        Group1As([sids |-> {}], "CLIENTS_BITMAP_ZERO_CLIENTS") \o Group1As([sids |-> {1}], "OK"))

InitGroupConfigsBitmapMustHaveKnownClients ==
    Script(TestServerCtx,
        Group1As([sids |-> 1 .. 32], "CLIENTS_BITMAP_UNKNOWN_SID")
        \o Group1As([sids |-> 1 .. 4], "OK"))

\* The bitmap of the 4 Clients shifted right, without its second bit, as it is,
\* and with a bit more.
InitGroupConfigsBitmapMustHaveCompleteBroadcastGroup ==
    LET broadcast(sids, err) == ConfiguredAs(GroupIs(0, [sids |-> sids]), err)
    IN  Script(TestServerCtx,
            broadcast(1 .. 3, "CLIENTS_BITMAP_INVALID_BROADCAST_GROUP")
            \o broadcast((1 .. 32) \ {2}, "CLIENTS_BITMAP_INVALID_BROADCAST_GROUP")
            \o broadcast(1 .. 4, "OK")
            \o broadcast(1 .. 5, "OK"))

----------------------------------------------------------------------------
(* hzl_ServerProcessReceived, before the payload *)

ProcessReceivedMsgToTxMustNotBeNull ==
    Script(Lacking({"ctx"}),
        <<Without(Receives(Pdu(<<>>, 0), "NULL_PDU"),
                  {"reactionPdu", "receivedUserData", "receivedPdu"})>>)

ProcessReceivedUnpackedMsgMustNotBeNull ==
    Script(Lacking({"ctx"}),
        <<Without(Receives(Pdu(<<>>, 0), "NULL_SDU"), {"receivedUserData", "receivedPdu"})>>)

ProcessReceivedCtxMustNotBeNull ==
    Script(Lacking({"ctx"}), <<Without(Receives(Pdu(<<>>, 0), "NULL_CTX"), {"receivedPdu"})>>)

ProcessReceivedRxDataMustNotBeNullWhenPositiveDataLen ==
    Script(TestServerCtx,
        <<Without(Receives(Pdu(<<>>, 1), "NULL_PDU"), {"receivedPdu"}),
          Without(ButNot(Receives(Pdu(<<>>, 0), "NULL_PDU")), {"receivedPdu"}),
          DeliveredNothing>>)

ProcessReceivedMsgMustHaveEnoughDataLenForCbsHeader0 ==
    Script(OfHeaderType(0),
        <<Inits("OK"),
          Receives(RxOther(0, 0, 42, UAD, 2), "TOO_SHORT_PDU_TO_CONTAIN_HEADER"),
          Receives(RxOther(0, 0, 42, UAD, 3), "OK"), SentNothing,
          Receives(RxOther(0, 0, 42, UAD, 4), "OK"), SentNothing>>)

ProcessReceivedMsgMustHaveEnoughDataLenForCbsHeader4 ==
    Script(OfHeaderType(4),
        <<Inits("OK"),
          Receives(RxOther(4, 0, 3, UAD, 0), "TOO_SHORT_PDU_TO_CONTAIN_HEADER"),
          Receives(RxOther(4, 0, 3, UAD, 1), "OK"), SentNothing,
          Receives(RxOther(4, 0, 3, UAD, 4), "OK"), SentNothing>>)

ProcessReceivedMsgMustHaveKnownPtyField ==
    Script(TestServerCtx,
        <<Inits("OK"),
          Receives(RxOther(0, 0, 42, 6, 4), "INVALID_PAYLOAD_TYPE"),
          Receives(RxOther(0, 0, 42, UAD, 4), "OK"), SentNothing>>)

ProcessReceivedMsgMustNotHaveServerSid ==
    Script(TestServerCtx,
        <<Inits("OK"), Receives(RxOther(0, 0, 0, UAD, 4), "SECWARN_MESSAGE_FROM_MYSELF")>>)

ProcessReceivedUadMsgSuccessfully ==
    Script(TestServerCtx,
        <<Inits("OK"), Receives(RxOther(0, 0, 42, UAD, 7), "OK"),
          Delivered(0, 42, 4, FALSE), SentNothing>>)

ProcessReceivedResponseTriggersWarning ==
    Script(TestServerCtx,
        <<Inits("OK"),
          Receives(RxOther(0, 30, 0, RES, 64), "SECWARN_MESSAGE_FROM_MYSELF"),
          Receives(RxOther(0, 30, 1, RES, 64), "SECWARN_SERVER_ONLY_MESSAGE")>>)

ProcessReceivedRenewalTriggersWarning ==
    Script(TestServerCtx,
        <<Inits("OK"),
          Receives(RxOther(0, 30, 0, REN, 64), "SECWARN_MESSAGE_FROM_MYSELF"),
          Receives(RxOther(0, 30, 1, REN, 64), "SECWARN_SERVER_ONLY_MESSAGE")>>)

----------------------------------------------------------------------------
(* Reception of a Request. The tags of most are made up. *)

ReceivesReq(gid, sid, err) == Receives(RxReq(0, gid, sid, 64, 8, 0), err)

ProcessReceivedRequestMsgMustHaveKnownGid ==
    Script(TestServerCtx,
        <<Inits("OK"),
          ReceivesReq(30, 1, "UNKNOWN_GROUP"), ReceivesReq(0, 1, "SECWARN_INVALID_TAG"),
          SentNothing>>)

ProcessReceivedRequestMsgMustNotComeFromServer ==
    Script(TestServerCtx,
        <<Inits("OK"),
          ReceivesReq(0, 0, "SECWARN_MESSAGE_FROM_MYSELF"),
          ReceivesReq(0, 1, "SECWARN_INVALID_TAG"), SentNothing>>)

ProcessReceivedRequestMsgMustBeLongEnough ==
    LET ofLen(len, err) == Receives(RxReq(0, 0, 1, len, 8, 0), err)
    IN  Script(TestServerCtx,
            <<Inits("OK"),
              ofLen(3 + 23, "TOO_SHORT_PDU_TO_CONTAIN_REQ"),
              ofLen(3 + 24, "SECWARN_INVALID_TAG"),
              ofLen(3 + 25, "SECWARN_INVALID_TAG"), SentNothing>>)

ProcessReceivedRequestMsgMustHaveNonZeroReqNonce ==
    Script(TestServerCtx,
        <<Inits("OK"),
          Receives(RxReq(0, 0, 1, 64, 0, 0), "SECWARN_RECEIVED_ZERO_REQNONCE"),
          Receives(RxReq(0, 0, 1, 64, 42, 0), "SECWARN_INVALID_TAG"), SentNothing>>)

ProcessReceivedRequestMsgSidMustBelongToGidGroup ==
    Script(TestServerCtx,
        <<Inits("OK"),
          ReceivesReq(2, 1, "SECWARN_NOT_IN_GROUP"), ReceivesReq(2, 2, "SECWARN_INVALID_TAG"),
          SentNothing>>)

ProcessReceivedRequestMsgWithValidTagSuccessfully ==
    Script(TestServerCtx,
        <<Inits("OK"), Waits(1), IsUnheard(0),
          Receives(RxReq(0, 0, 1, 64, 8, TestLtk), "OK"), DeliveredNothing, IsHeard(0)>>)

ProcessReceivedRequestMsgWithValidTagGeneratesResponse ==
    LET h == Header(0, 0, RES)
    IN  Script(TestServerCtx,
            <<Inits("OK"), Waits(1), IsUnheard(0),
              Receives(RxReq(0, 0, 1, 64, 8, TestLtk), "OK"),
              Sent([header |-> <<0, 0, 1>>, len |-> 3 + 44, client |-> 1, ctrnonce |-> 0,
                    stk |-> TestStk, tag |-> ResTag(TestLtk, h, 0, 8, 1)])>>)

----------------------------------------------------------------------------
(* Reception of a SADFD. The tags of those not accepted are made up. *)

ProcessReceivedSadfdMsgMustNotHaveTooLongPlaintextHeader0 ==
    Script(TestServerCtx,
        <<Inits("OK"), Sets(0, [currentStk |-> 99, currentCtrNonce |-> \h112233]),
          Receives(SadfdOf1(\h112233, 50, 0), "TOO_LONG_CIPHERTEXT"),
          Receives(SadfdOf1(\h112233, 49, 0), "SECWARN_INVALID_TAG"), DeliveredNothing>>)

ProcessReceivedSadfdMsgMustNotHaveTooLongPlaintextHeader6 ==
    Script(OfHeader6,
        <<Inits("OK"), Sets(0, [currentStk |-> 99, currentCtrNonce |-> \h112233]),
          Receives(RxSadfd(6, 0, 3, 64, \h112233, 52, 0), "TOO_LONG_CIPHERTEXT"),
          Receives(RxSadfd(6, 0, 3, 64, \h112233, 51, 0), "SECWARN_INVALID_TAG"),
          DeliveredNothing>>)

ProcessReceivedSadfdMsgMustHaveKnownGid ==
    Script(TestServerCtx,
        <<Inits("OK"), Receives(RxSadfd(0, 13, 1, 64, \h112233, 5, 0), "UNKNOWN_GROUP")>>)

ProcessReceivedSadfdMsgMustHaveKnownSid ==
    Script(TestServerCtx,
        <<Inits("OK"),
          Receives(RxSadfd(0, 2, 60, 64, \h112233, 5, 0), "UNKNOWN_SOURCE"),
          Receives(RxSadfd(0, 2, 1, 64, \h112233, 5, 0), "SECWARN_NOT_IN_GROUP")>>)

ProcessReceivedSadfdMsgMustBeLongEnoughForMetadata ==
    Script(TestServerCtx,
        <<Inits("OK"), Sets(0, [currentStk |-> 99, currentCtrNonce |-> 1]),
          Receives(RxSadfd(0, 0, 1, 14, \h112233, 0, 0), "TOO_SHORT_PDU_TO_CONTAIN_SADFD"),
          Receives(RxSadfd(0, 0, 1, 15, \h112233, 0, 0), "SECWARN_INVALID_TAG"),
          DeliveredNothing>>)

ProcessReceivedSadfdMsgMustHaveNonExpiredCtrnonce ==
    Script(TestServerCtx,
        <<Inits("OK"), Sets(0, [currentStk |-> 99, currentCtrNonce |-> 1]),
          Receives(SadfdOf1(\hFFFFFF, 5, 0), "SECWARN_RECEIVED_OVERFLOWN_NONCE"),
          Receives(SadfdOf1(\hFFFFFE, 5, 0), "SECWARN_INVALID_TAG"), DeliveredNothing>>)

ProcessReceivedSadfdMsgMustHaveFreshCtrnonce ==
    Script(TestServerCtx,
        <<Inits("OK"), Sets(0, [currentStk |-> 99, currentCtrNonce |-> \hFFFF]),
          Receives(SadfdOf1(\h0A, 5, 0), "SECWARN_OLD_MESSAGE")>>)

ProcessReceivedSadfdMsgWithEmptyCtextSuccessfully ==
    Script(TestServerCtx,
        <<Inits("OK"), Sets(0, [currentStk |-> 99, currentCtrNonce |-> 20]),
          Receives(SadfdOf1(\h010203, 0, 99), "OK"), Delivered(0, 1, 0, TRUE), SentNothing,
          Has(0, [currentCtrNonce |-> \h010203 + 1])>>)

ProcessReceivedSadfdMsgWithSomeCtextSuccessfully ==
    Script(TestServerCtx,
        <<Inits("OK"), Sets(0, [currentStk |-> 99, currentCtrNonce |-> 20]),
          Receives(SadfdOf1(\h010203, 5, 99), "OK"), Delivered(0, 1, 5, TRUE), SentNothing>>)

ProcessReceivedSadfdMsgMustHaveFreshCtrnonceWithinTolerance ==
    LET numbered(ctrnonce, err) == Receives(RxSadfd(0, 0, 1, 16, ctrnonce, 0, 99), err)
        reached(ctrnonce) == Has(0, [currentCtrNonce |-> ctrnonce])
    IN  Script(TestServerCtx,
            <<Inits("OK"), Sets(0, [currentStk |-> 99, currentCtrNonce |-> 8]),
              numbered(8, "OK"), SentNothing, reached(9),
              numbered(8, "OK"), SentNothing, reached(10),
              numbered(5, "SECWARN_OLD_MESSAGE"), reached(10),
              numbered(7, "OK"), SentNothing, Waits(500), reached(11),
              numbered(10, "SECWARN_OLD_MESSAGE"), reached(11),
              numbered(9, "SECWARN_OLD_MESSAGE")>>)

\* The previous and the current Session of the broadcast Group.
BothSessions(previousStk, previousCtrNonce, currentStk, currentCtrNonce) ==
    Sets(0, [previousStk |-> previousStk, previousCtrNonce |-> previousCtrNonce,
             currentStk |-> currentStk, currentCtrNonce |-> currentCtrNonce])

ProcessReceivedSadfdCurrentSessionAcceptedDuringRenewal ==
    Script(TestServerCtx,
        <<Inits("OK"), BothSessions(222, \hF11111, 99, \h010200),
          Receives(SadfdOf1(\h010203, 5, 99), "OK"), Delivered(0, 1, 5, TRUE), SentNothing>>)

ProcessReceivedSadfdPreviousSessionAcceptedDuringRenewal ==
    Script(TestServerCtx,
        <<Inits("OK"), BothSessions(99, \h010200, 100, 3),
          Receives(SadfdOf1(\h010203, 5, 99), "OK"), Delivered(0, 1, 5, TRUE), SentNothing>>)

ProcessReceivedSadfdPreviousSessionRejectedAfterTooManyMsgs ==
    Script(TestServerCtx,
        <<Inits("OK"), BothSessions(99, \h010202, 100, 3),
          Sets(0, [currentCtrNonce |-> 2 * 4 - 1]),
          Receives(SadfdOf1(\h010203, 5, 99), "OK"),
          Sets(0, [currentCtrNonce |-> 2 * 4]),
          Receives(SadfdOf1(\h010203, 5, 99), "SECWARN_INVALID_TAG"),
          Has(0, [previousCtrNonce |-> 0, previousStk |-> 0])>>)

ProcessReceivedSadfdPreviousSessionRejectedAfterTooMuchTime ==
    Script(TestServerCtx,
        <<Inits("OK"), BothSessions(99, \h010200, 100, 3),
          Receives(SadfdOf1(\h010203, 5, 99), "OK"), Waits(500),
          Receives(SadfdOf1(\h010203, 5, 99), "SECWARN_INVALID_TAG"),
          Has(0, [previousCtrNonce |-> 0, previousStk |-> 0])>>)

ProcessReceivedSadfdTriggersRenewalWhenCtrNonceHitsLimit ==
    Script(TestServerCtx,
        <<Inits("OK"), Sets(0, [currentStk |-> 99, currentCtrNonce |-> \hFF0000 - 1]),
          Receives(SadfdOf1(\hFEFFFF, 0, 99), "OK"),
          HasNot(0, [currentStk |-> 99]),
          Has(0, [previousStk |-> 99, previousCtrNonce |-> \hFF0001, currentCtrNonce |-> 0]),
          Sent(BuiltRen(0, \hFF0000, 99))>>)

ProcessReceivedSadfdTriggersRenewalWhenTooMuchTimePassed ==
    Script(TestServerCtx,
        <<Inits("OK"), Sets(0, [currentStk |-> 99, currentCtrNonce |-> \h010203]),
          Reads(0, "sessionStartInstant"),
          Receives(SadfdOf1(\h010203, 0, 99), "OK"),
          Has(0, [currentStk |-> 99, previousCtrNonce |-> 0, currentCtrNonce |-> \h010204]),
          HasNot(0, [previousStk |-> 99]),
          Waits(700),
          Receives(SadfdOf1(\h010204, 0, 99), "OK"),
          HasNot(0, [currentStk |-> 99]),
          Has(0, [previousStk |-> 99, previousCtrNonce |-> \h010206, currentCtrNonce |-> 0]),
          Sent(BuiltRen(0, \h010205, 99))>>)

----------------------------------------------------------------------------
\* All of them.
Scripts ==
    <<BuildSecuredFdMsgToTxMustBeNotNull, BuildSecuredFdCtxMustBeNotNull,
      BuildSecuredFdMsgDataMustBeNotNullWhenPositiveDataLen,
      BuildSecuredFdDataLenMustBeShortEnough, BuildSecuredFdDataLenDependsOnHeaderLen,
      BuildSecuredFdCompactHeaderPreventsTooManyGroups, BuildSecuredFdGidMustBeInConfig,
      BuildSecuredFdRequiresSomeClientsRequestedAlready,
      BuildSecuredFdHeaderIsPackedBeforePayload, BuildSecuredFdHeaderPackingDependsOnType,
      BuildSecuredFdMsgWithNoPayload, BuildSecuredFdSuccessfully,
      BuildSecuredFdSuccessfullyUsesNewKeyDuringRenewalPhase,
      BuildUnsecuredMsgToTxMustBeNotNull, BuildUnsecuredCtxMustBeNotNull,
      BuildUnsecuredUserDataMustBeNotNullWhenPositiveDataLen,
      BuildUnsecuredDataLenMustBeShortEnough, BuildUnsecuredDataLenDependsOnHeaderLen,
      BuildUnsecuredCompactHeaderPreventsTooManyGroups,
      BuildUnsecuredGidsNotInConfigAreAccepted, BuildUnsecuredHeaderIsPackedBeforePayload,
      BuildUnsecuredHeaderPackingDependsOnType, DeInitCtxMustNotBeNull,
      DeInitServerConfigMustNotBeNull, DeInitGroupStatesMustNotBeNull,
      DeInitClearsGroupStatesOnly, ForceSessionRenewalMsgToTxMustBeNotNull,
      ForceSessionRenewalCtxMustBeNotNull, ForceSessionRenewalGidMustBeValid,
      ForceSessionRenewalRequiresSomeClientsRequestedAlready,
      ForceSessionRenewalRenewsAndBuildsRenMsg,
      ForceSessionRenewalOnlyBuildRenMsgDuringExistingRenewal, InitCtxMustBeNotNull,
      InitGroupStatesMustBeNotNull, InitFailingIoCurrentTime, InitFailingIoTrng,
      InitCorrectCtxSucceedsInitsAllSessions, InitCurrentTimeMustBeNotNull,
      InitTrngMustBeNotNull, InitConfigMustBeNotNull, InitConfigAmountOfGroupsMustBePositive,
      InitConfigAmountOfClientsMustBePositive, InitConfigHeaderTypeMustBeStandard,
      InitConfigServerAmountOfGroupsMustFitForHeaderType,
      InitConfigServerAmountOfClientsMustFitForHeaderType,
      InitConfigServerAmountOfClientsMustFitInBitmap,
      InitConfigServerMustHaveOnlyBroadcastWhenHeader5Or6, InitClientConfigsMustBeNotNull,
      InitClientConfigsMustHaveNonZeroLtks, InitClientConfigsMustHaveNonZeroSid,
      InitClientConfigsMustHaveSortedSidsStrictlyAscending,
      InitClientConfigsMustHaveSidsWithoutGaps, InitGroupConfigsMustBeNotNull,
      InitGroupConfigsMustHaveSortedGidsStrictlyAscending, InitGroupConfigsGidZeroMustExist,
      InitGroupConfigsMustHaveGidsWithoutGaps,
      InitGroupConfigsMaxCounterNonceDelayMustBeInValidRange,
      InitGroupConfigsCounterNonceUpperLimitMustBeInValidRange,
      InitGroupConfigsDelayBetweenRenMustBeInValidRange,
      InitGroupConfigsBitmapMustHaveAtLeastOneClient,
      InitGroupConfigsBitmapMustHaveKnownClients,
      InitGroupConfigsBitmapMustHaveCompleteBroadcastGroup,
      ProcessReceivedMsgToTxMustNotBeNull, ProcessReceivedUnpackedMsgMustNotBeNull,
      ProcessReceivedCtxMustNotBeNull, ProcessReceivedRxDataMustNotBeNullWhenPositiveDataLen,
      ProcessReceivedMsgMustHaveEnoughDataLenForCbsHeader0,
      ProcessReceivedMsgMustHaveEnoughDataLenForCbsHeader4,
      ProcessReceivedMsgMustHaveKnownPtyField, ProcessReceivedMsgMustNotHaveServerSid,
      ProcessReceivedUadMsgSuccessfully, ProcessReceivedResponseTriggersWarning,
      ProcessReceivedRenewalTriggersWarning, ProcessReceivedRequestMsgMustHaveKnownGid,
      ProcessReceivedRequestMsgMustNotComeFromServer,
      ProcessReceivedRequestMsgMustBeLongEnough,
      ProcessReceivedRequestMsgMustHaveNonZeroReqNonce,
      ProcessReceivedRequestMsgSidMustBelongToGidGroup,
      ProcessReceivedRequestMsgWithValidTagSuccessfully,
      ProcessReceivedRequestMsgWithValidTagGeneratesResponse,
      ProcessReceivedSadfdMsgMustNotHaveTooLongPlaintextHeader0,
      ProcessReceivedSadfdMsgMustNotHaveTooLongPlaintextHeader6,
      ProcessReceivedSadfdMsgMustHaveKnownGid, ProcessReceivedSadfdMsgMustHaveKnownSid,
      ProcessReceivedSadfdMsgMustBeLongEnoughForMetadata,
      ProcessReceivedSadfdMsgMustHaveNonExpiredCtrnonce,
      ProcessReceivedSadfdMsgMustHaveFreshCtrnonce,
      ProcessReceivedSadfdMsgWithEmptyCtextSuccessfully,
      ProcessReceivedSadfdMsgWithSomeCtextSuccessfully,
      ProcessReceivedSadfdMsgMustHaveFreshCtrnonceWithinTolerance,
      ProcessReceivedSadfdCurrentSessionAcceptedDuringRenewal,
      ProcessReceivedSadfdPreviousSessionAcceptedDuringRenewal,
      ProcessReceivedSadfdPreviousSessionRejectedAfterTooManyMsgs,
      ProcessReceivedSadfdPreviousSessionRejectedAfterTooMuchTime,
      ProcessReceivedSadfdTriggersRenewalWhenCtrNonceHitsLimit,
      ProcessReceivedSadfdTriggersRenewalWhenTooMuchTimePassed>>

=============================================================================
