---------------------------- MODULE ClientTests ----------------------------
(***************************************************************************)
(* The tests of the Client, one definition each, named as in the source    *)
(* but for the prefix hzlClientTest_Client and, where the names of two     *)
(* files would be the same, the function they test.                        *)
(***************************************************************************)
EXTENDS ClientCalls, Scripts

\* The GIDs of HZL_TEST_CLIENT_CORRECT_GROUP_CONFIGS
TestGids == <<0, 2, 3, 4, 5, 6, 7, 8, 9, 250>>

TestClientGroup(gid) ==
    [gid |-> gid,
     maxCtrnonceDelayMsgs |-> IF gid = 0 THEN 4 ELSE 20,
     maxSilenceIntervalMillis |-> IF gid = 0 THEN 10000 ELSE 5000,
     sessionRenewalDurationMillis |-> IF gid = 0 THEN 4999 ELSE 5001]

ClientUnsetState ==
    [requestNonce |-> 0, lastHandshakeEventInstant |-> 0,
     currentRxLastMessageInstant |-> 0, previousRxLastMessageInstant |-> 0,
     currentCtrNonce |-> 0, previousCtrNonce |-> 0, currentStk |-> 0, previousStk |-> 0]

\* The context most tests start from, made of the correct configurations.
TestClientCtx ==
    [null |-> {}, faults |-> {},
     headerType |-> 0, sid |-> 13, ltk |-> TestLtk, timeoutReqToResMillis |-> 5000,
     amountOfGroups |-> 3,
     groups |-> [i \in 1 .. 10 |-> TestClientGroup(TestGids[i])],
     states |-> [i \in 1 .. 10 |-> ClientUnsetState]]

Lacking(pointers) == With(TestClientCtx, [null |-> pointers])
Faulty(fault) == With(TestClientCtx, [faults |-> {fault}])
OfHeader(type, sid) == With(TestClientCtx, [headerType |-> type, sid |-> sid])
OfHeader6 == With(OfHeader(6, 2), [amountOfGroups |-> 1])
OfSid(sid) == With(TestClientCtx, [sid |-> sid])

\* The current Session of the broadcast Group.
InSession(stk, ctrnonce) == Sets(0, [currentStk |-> stk, currentCtrNonce |-> ctrnonce])

----------------------------------------------------------------------------
(* hzl_ClientBuildRequest *)

\* The Request built for the Group of GID 3, whose position is 2.
BuiltReq3 ==
    LET h == Header(3, 13, REQ)
    IN  [header |-> <<3, 13, 2>>, len |-> 3 + 8 + 16, reqnonce |-> TestReqnonce,
         tag |-> ReqTag(TestLtk, h, TestReqnonce)]

BuildRequestMsgToTxMustNotBeNull ==
    Script(Lacking({"ctx"}), <<Without(BuildsRequest(199, "NULL_PDU"), {"requestPdu"})>>)

BuildRequestCtxMustNotBeNull == Script(Lacking({"ctx"}), <<BuildsRequest(199, "NULL_CTX")>>)

BuildRequestGroupMustExists ==
    Script(TestClientCtx, <<Inits("OK"), BuildsRequest(199, "UNKNOWN_GROUP")>>)

BuildRequestSuccessfully ==
    Script(TestClientCtx, <<Inits("OK"), BuildsRequest(3, "OK"), Sent(BuiltReq3)>>)

BuildRequestIsNotRetransmittedUntilResponseTimeout ==
    LET asked == [lastHandshakeEventInstant |-> FirstInstant]
    IN  Script(TestClientCtx,
            <<Inits("OK"), Has(2, [lastHandshakeEventInstant |-> 0]),
              BuildsRequest(3, "OK"), Sent([header |-> <<3, 13, 2>>]),
              IsAfter(2, "lastHandshakeEventInstant", 42), Has(2, asked),
              BuildsRequest(3, "HANDSHAKE_ONGOING"), Has(2, asked),
              Waits(500), BuildsRequest(3, "OK"),
              IsAfter(2, "lastHandshakeEventInstant", FirstInstant)>>)

BuildRequestFailingTrng ==
    Script(Faulty("trng"), <<Inits("OK"), BuildsRequest(3, "FAILED")>>)

BuildRequestFailingTrngAllZeros ==
    Script(Faulty("trng"), <<Inits("OK"), BuildsRequest(3, "FAILED")>>)

BuildRequestFailingCurrentTime ==
    Script(Faulty("currentTime"), <<Inits("OK"), BuildsRequest(3, "FAILED")>>)

----------------------------------------------------------------------------
(* hzl_ClientBuildSecuredFd *)

\* The SADFD the Client 13 is to build for the broadcast Group.
BuiltSadfd(ctrnonce, ptlen, stk) ==
    LET h == Header(0, 13, SADFD)
    IN  [header |-> <<0, 13, 4>>, len |-> 3 + 3 + 1 + ptlen + 8,
         ctrnonce |-> ctrnonce, ptlen |-> ptlen, tag |-> SadfdTag(stk, h, ctrnonce, ptlen)]

BuildSecuredFdMsgToTxMustBeNotNull ==
    Script(Lacking({"ctx"}),
        <<Without(BuildsSecuredFd(0, Data(0), "NULL_PDU"), {"securedPdu"})>>)

BuildSecuredFdCtxMustBeNotNull ==
    Script(Lacking({"ctx"}), <<BuildsSecuredFd(0, NullData(0), "NULL_CTX")>>)

BuildSecuredFdMsgDataMustBeNotNullWhenPositiveDataLen ==
    Script(TestClientCtx,
        <<Inits("OK"),
          BuildsSecuredFd(0, NullData(1), "NULL_SDU"),
          ButNot(BuildsSecuredFd(0, NullData(0), "NULL_SDU"))>>)

BuildSecuredFdDataLenMustBeShortEnough ==
    Script(TestClientCtx,
        <<Inits("OK"), InSession(99, 1),
          BuildsSecuredFd(0, Data(49), "OK"),
          BuildsSecuredFd(0, Data(50), "TOO_LONG_SDU")>>)

BuildSecuredFdDataLenDependsOnHeaderLen ==
    Script(OfHeader6,
        <<Inits("OK"), InSession(99, 1),
          BuildsSecuredFd(0, Data(51), "OK"),
          BuildsSecuredFd(0, Data(52), "TOO_LONG_SDU")>>)

BuildSecuredFdCompactHeaderPreventsTooManyGroups ==
    Script(OfHeader(4, 2),
        <<Inits("OK"), InSession(99, 1),
          BuildsSecuredFd(33, Data(4), "GID_TOO_LARGE_FOR_CONFIGURED_HEADER_TYPE")>>)

BuildSecuredFdGidMustBeInConfig ==
    Script(TestClientCtx, <<Inits("OK"), BuildsSecuredFd(231, Data(4), "UNKNOWN_GROUP")>>)

BuildSecuredFdRequiresAnEstablishedSession ==
    Script(TestClientCtx,
        <<Inits("OK"),
          BuildsSecuredFd(0, Data(4), "SESSION_NOT_ESTABLISHED"), SentNothing,
          Sets(0, [requestNonce |-> 123]),
          BuildsSecuredFd(0, Data(4), "SESSION_NOT_ESTABLISHED"), SentNothing>>)

BuildSecuredFdHeaderIsPackedBeforePayload ==
    Script(TestClientCtx,
        <<Inits("OK"), InSession(99, \h112233),
          BuildsSecuredFd(0, Data(4), "OK"),
          Sent([header |-> <<0, 13, 4>>, len |-> 3 + 3 + 1 + 4 + 8,
                ctrnonce |-> \h112233, ptlen |-> 4]),
          Has(0, [currentCtrNonce |-> \h112234])>>)

BuildSecuredFdHeaderPackingDependsOnType ==
    Script(OfHeader(4, 3),
        <<Inits("OK"), Sets(1, [currentStk |-> 99, currentCtrNonce |-> \h112233]),
          BuildsSecuredFd(2, Data(4), "OK"),
          Sent([header |-> <<3 * 32 + 2 * 8 + 4>>, len |-> 1 + 3 + 1 + 4 + 8,
                ctrnonce |-> \h112233, ptlen |-> 4]),
          Has(1, [currentCtrNonce |-> \h112234])>>)

BuildSecuredFdMaxCtrnonceRequiresHandshake ==
    Script(TestClientCtx,
        <<Inits("OK"), InSession(99, \hFFFFFF),
          BuildsSecuredFd(0, Data(4), "SESSION_NOT_ESTABLISHED")>>)

BuildSecuredFdMsgWithNoPayload ==
    Script(TestClientCtx,
        <<Inits("OK"), InSession(99, \h010203),
          BuildsSecuredFd(0, NullData(0), "OK"), Sent(BuiltSadfd(\h010203, 0, 99)),
          Has(0, [currentCtrNonce |-> \h010204])>>)

BuildSecuredFdSuccessfully ==
    Script(TestClientCtx,
        <<Inits("OK"), InSession(99, \h010203),
          BuildsSecuredFd(0, Data(5), "OK"), Sent(BuiltSadfd(\h010203, 5, 99)),
          Has(0, [currentCtrNonce |-> \h010204])>>)

BuildSecuredFdSuccessfullyUsesNewKeyDuringRenewalPhase ==
    Script(TestClientCtx,
        <<Inits("OK"), InSession(99, \h010203),
          Sets(0, [previousStk |-> 150, previousCtrNonce |-> \h111111]),
          BuildsSecuredFd(0, Data(5), "OK"), Sent(BuiltSadfd(\h010203, 5, 99)),
          Has(0, [currentCtrNonce |-> \h010204])>>)

----------------------------------------------------------------------------
(* hzl_ClientBuildUnsecured *)

BuildUnsecuredMsgToTxMustBeNotNull ==
    Script(TestClientCtx, <<Without(BuildsUnsecured(0, Data(0), "NULL_PDU"), {"unsecuredPdu"})>>)

BuildUnsecuredCtxMustBeNotNull ==
    Script(Lacking({"ctx"}), <<BuildsUnsecured(0, NullData(0), "NULL_CTX")>>)

BuildUnsecuredUserDataMustBeNotNullWhenPositiveDataLen ==
    Script(TestClientCtx,
        <<Inits("OK"),
          BuildsUnsecured(0, NullData(1), "NULL_SDU"),
          BuildsUnsecured(0, NullData(0), "OK")>>)

BuildUnsecuredDataLenMustBeShortEnough ==
    Script(TestClientCtx,
        <<Inits("OK"),
          BuildsUnsecured(0, Data(61), "OK"), BuildsUnsecured(0, Data(62), "TOO_LONG_SDU")>>)

BuildUnsecuredDataLenDependsOnHeaderLen ==
    Script(OfHeader6,
        <<Inits("OK"),
          BuildsUnsecured(0, Data(63), "OK"), BuildsUnsecured(0, Data(64), "TOO_LONG_SDU")>>)

BuildUnsecuredCompactHeaderPreventsTooManyGroups ==
    Script(OfHeader(4, 2),
        <<Inits("OK"),
          BuildsUnsecured(33, Data(4), "GID_TOO_LARGE_FOR_CONFIGURED_HEADER_TYPE")>>)

BuildUnsecuredGidsNotInConfigAreAccepted ==
    Script(TestClientCtx, <<Inits("OK"), BuildsUnsecured(231, Data(4), "OK")>>)

BuildUnsecuredHeaderIsPackedBeforePayload ==
    Script(TestClientCtx,
        <<Inits("OK"),
          BuildsUnsecured(42, Data(0), "OK"), Sent([header |-> <<42, 13, 5>>, len |-> 3]),
          BuildsUnsecured(42, Data(4), "OK"), Sent([header |-> <<42, 13, 5>>, len |-> 3 + 4])>>)

BuildUnsecuredHeaderPackingDependsOnType ==
    Script(OfHeader(4, 3),
        <<Inits("OK"), BuildsUnsecured(2, Data(4), "OK"),
          Sent([header |-> <<3 * 32 + 2 * 8 + 5>>, len |-> 1 + 4])>>)

----------------------------------------------------------------------------
(* hzl_ClientInit and hzl_ClientDeInit *)

\* A state with something of what was in memory before, at both its ends.
UsedStates ==
    <<Sets(0, [requestNonce |-> 444]), Sets(2, [previousStk |-> 3])>>

AllUnset == <<Has(0, ClientUnsetState), Has(1, ClientUnsetState), Has(2, ClientUnsetState)>>

InitCtxMustBeNotNull == Script(Lacking({"ctx"}), <<Inits("NULL_CTX")>>)

InitGroupStatesMustBeNotNull ==
    Script(Lacking({"groupStates"}), <<Inits("NULL_STATES_GROUPS")>>)

InitCorrectCtxSucceeds == Script(TestClientCtx, UsedStates \o <<Inits("OK")>> \o AllUnset)

DeInitCtxMustNotBeNull == Script(Lacking({"ctx"}), <<DeInits("NULL_CTX")>>)

DeInitClientConfigMustNotBeNull ==
    Script(Lacking({"clientConfig"}), <<DeInits("NULL_CONFIG_CLIENT")>>)

DeInitGroupStatesMustNotBeNull ==
    Script(Lacking({"groupStates"}), <<DeInits("NULL_STATES_GROUPS")>>)

DeInitClearsGroupStatesOnly ==
    Script(TestClientCtx, UsedStates \o <<DeInits("OK")>> \o AllUnset)

InitCurrentTimeMustBeNotNull ==
    Script(Lacking({"currentTime"}), <<Inits("NULL_CURRENT_TIME_FUNC")>>)

InitTrngMustBeNotNull == Script(Lacking({"trng"}), <<Inits("NULL_TRNG_FUNC")>>)

----------------------------------------------------------------------------
(* The checks of the Client's configuration in hzl_ClientInit *)

\* Initialised with the given fields of the configuration.
ConfiguredAs(fields, err) == <<Configures(fields), Inits(err)>>

InitConfigMustBeNotNull == Script(Lacking({"clientConfig"}), <<Inits("NULL_CONFIG_CLIENT")>>)

InitConfigAmountOfGroupsMustBePositive ==
    Script(TestClientCtx, ConfiguredAs([amountOfGroups |-> 0], "ZERO_GROUPS"))

InitConfigLtkMustBeNonZeros ==
    Script(TestClientCtx, ConfiguredAs([ltk |-> 0], "LTK_IS_ALL_ZEROS"))

InitConfigHeaderTypeMustBeStandard ==
    Script(TestClientCtx, ConfiguredAs([headerType |-> 99], "INVALID_HEADER_TYPE"))

InitConfigClientSidMustBeNonZero ==
    Script(TestClientCtx, ConfiguredAs([sid |-> ServerSid], "SERVER_SID_ASSIGNED_TO_CLIENT"))

InitConfigClientSidMustFitForHeaderType ==
    Script(TestClientCtx,
        ConfiguredAs([headerType |-> 4, sid |-> 8], "SID_TOO_LARGE_FOR_CONFIGURED_HEADER_TYPE")
        \o ConfiguredAs([sid |-> 7], "OK"))

\* The last GID of 8 Groups is too large for the header, that of the first not.
InitConfigClientAmountOfGroupsMustFitForHeaderType ==
    Script(OfSid(2),
        ConfiguredAs([headerType |-> 3, amountOfGroups |-> 9],
                     "TOO_MANY_GROUPS_FOR_CONFIGURED_HEADER_TYPE")
        \o ConfiguredAs([amountOfGroups |-> 8], "GID_TOO_LARGE_FOR_CONFIGURED_HEADER_TYPE")
        \o ConfiguredAs([headerType |-> 5, amountOfGroups |-> 2],
                        "TOO_MANY_GROUPS_FOR_CONFIGURED_HEADER_TYPE")
        \o ConfiguredAs([amountOfGroups |-> 1], "OK"))

InitConfigClientMustHaveOnlyBroadcastWhenHeader5Or6 ==
    Script(OfHeader(6, 13),
        ConfiguredAs([amountOfGroups |-> 2], "TOO_MANY_GROUPS_FOR_CONFIGURED_HEADER_TYPE")
        \o ConfiguredAs([amountOfGroups |-> 1], "OK"))

----------------------------------------------------------------------------
(* The checks of the Groups' configurations in hzl_ClientInit *)

\* The Groups of the tests, the first ones having other GIDs.
GidsAre(gids) ==
    [groups |-> [i \in 1 .. 10 |->
        IF i <= Len(gids) THEN With(TestClientCtx.groups[i], [gid |-> gids[i]])
        ELSE TestClientCtx.groups[i]]]

DelayIs(msgs) == [groups |-> [TestClientCtx.groups EXCEPT ![1].maxCtrnonceDelayMsgs = msgs]]

InitGroupConfigsMustBeNotNull ==
    Script(Lacking({"groupConfigs"}),
        <<Sets(0, [currentCtrNonce |-> 42]), Inits("NULL_CONFIG_GROUPS")>>)

InitGroupConfigsGidsMustNotRepeat ==
    Script(TestClientCtx,
        ConfiguredAs(GidsAre(<<0, 2, 2>>), "GIDS_ARE_NOT_PRESORTED_STRICTLY_ASCENDING"))

InitGroupConfigsGidsMustBeSortedAscending ==
    Script(TestClientCtx,
        ConfiguredAs(GidsAre(<<0, 2, 1>>), "GIDS_ARE_NOT_PRESORTED_STRICTLY_ASCENDING"))

InitGroupConfigsGidZeroMustExist ==
    Script(TestClientCtx, ConfiguredAs(GidsAre(<<1, 2, 3>>), "MISSING_GID_0"))

InitGroupConfigsMaxCounterNonceDelayMustBeInValidRange ==
    Script(TestClientCtx,
        ConfiguredAs(DelayIs(LargestMaxCounterNonceDelay + 1), "INVALID_MAX_CTRNONCE_DELAY")
        \o ConfiguredAs(DelayIs(LargestMaxCounterNonceDelay), "OK"))

InitGroupConfigsGidsMustFitForHeaderType ==
    Script(With(OfHeader(4, 1), [amountOfGroups |-> 2]),
        ConfiguredAs(GidsAre(<<0, 4>>), "GID_TOO_LARGE_FOR_CONFIGURED_HEADER_TYPE")
        \o ConfiguredAs(GidsAre(<<0, 3>>), "OK"))

----------------------------------------------------------------------------
(* hzl_ClientProcessReceived, before the payload, and what needs no Session *)

ProcessReceivedMsgToTxMustNotBeNull ==
    Script(Lacking({"ctx"}),
        <<Without(Receives(Pdu(<<>>, 0), "NULL_PDU"),
                  {"reactionPdu", "receivedUserData", "receivedPdu"})>>)

ProcessReceivedUnpackedMsgMustNotBeNull ==
    Script(Lacking({"ctx"}),
        <<Without(Receives(Pdu(<<>>, 0), "NULL_SDU"), {"receivedUserData", "receivedPdu"})>>)

ProcessReceivedCtxMustNotBeNull ==
    Script(Lacking({"ctx"}), <<Without(Receives(Pdu(<<>>, 0), "NULL_CTX"), {"receivedPdu"})>>)

ProcessReceivedRxDataMustNotBeNullWhenPositiveDataLen ==
    Script(TestClientCtx,
        <<Without(Receives(Pdu(<<>>, 1), "NULL_PDU"), {"receivedPdu"}),
          Without(ButNot(Receives(Pdu(<<>>, 0), "NULL_PDU")), {"receivedPdu"})>>)

ProcessReceivedMsgMustHaveEnoughDataLenForCbsHeader0 ==
    Script(OfHeader(0, 2),
        <<Inits("OK"),
          Receives(RxOther(0, 0, 42, UAD, 2), "TOO_SHORT_PDU_TO_CONTAIN_HEADER"),
          Receives(RxOther(0, 0, 42, UAD, 3), "OK"), SentNothing,
          Receives(RxOther(0, 0, 42, UAD, 4), "OK"), SentNothing>>)

ProcessReceivedMsgMustHaveEnoughDataLenForCbsHeader4 ==
    Script(OfHeader(4, 2),
        <<Inits("OK"),
          Receives(RxOther(4, 0, 3, UAD, 0), "TOO_SHORT_PDU_TO_CONTAIN_HEADER"),
          Receives(RxOther(4, 0, 3, UAD, 1), "OK"), SentNothing,
          Receives(RxOther(4, 0, 3, UAD, 4), "OK"), SentNothing>>)

ProcessReceivedMsgMustHaveKnownPtyField ==
    Script(TestClientCtx,
        <<Inits("OK"),
          Receives(RxOther(0, 0, 42, 6, 4), "INVALID_PAYLOAD_TYPE"),
          Receives(RxOther(0, 0, 42, UAD, 4), "OK"), SentNothing>>)

ProcessReceivedMsgMustNotHaveReceiversSid ==
    Script(TestClientCtx,
        <<Inits("OK"), Receives(RxOther(0, 0, 13, UAD, 4), "SECWARN_MESSAGE_FROM_MYSELF")>>)

ProcessReceivedUadMsgSuccessfully ==
    Script(TestClientCtx,
        <<Inits("OK"), Receives(RxOther(0, 0, 42, UAD, 7), "OK"),
          Delivered(0, 42, 4, FALSE), SentNothing>>)

ProcessReceivedMsgRequestsFromOthersAreIgnored ==
    Script(TestClientCtx,
        <<Inits("OK"), Receives(RxReq(0, 0, 55, 64, 0, 0), "MSG_IGNORED"), SentNothing>>)

ProcessReceivedMsgRequestsFromMySelfTriggersWarning ==
    Script(TestClientCtx,
        <<Inits("OK"), Receives(RxReq(0, 0, 13, 3, 0, 0), "SECWARN_MESSAGE_FROM_MYSELF")>>)

----------------------------------------------------------------------------
(* Reception of a Response. The tags and keys of most are made up. *)

\* A Request was sent just now.
Asked(reqnonce) ==
    <<Sets(0, [requestNonce |-> reqnonce]), Reads(0, "lastHandshakeEventInstant")>>

MadeUpRes(gid, sid, len, client, ctrnonce) == RxRes(0, gid, sid, len, client, ctrnonce, 8, 0, 0)
MadeUpResTo13 == MadeUpRes(0, 0, 64, 13, \h112233)

ProcessReceivedResponseMsgMustHaveKnownGid ==
    Script(TestClientCtx,
        <<Inits("OK")>> \o Asked(444)
        \o <<Receives(MadeUpRes(30, 0, 64, 13, \h112233), "UNKNOWN_GROUP"),
             Receives(MadeUpResTo13, "SECWARN_INVALID_TAG")>>)

ProcessReceivedResponseMsgMustComeFromServer ==
    Script(TestClientCtx,
        <<Inits("OK")>> \o Asked(444)
        \o <<Receives(MadeUpRes(0, 2, 64, 13, \h112233), "SECWARN_SERVER_ONLY_MESSAGE"),
             Receives(MadeUpResTo13, "SECWARN_INVALID_TAG")>>)

ProcessReceivedResponseMsgMustBeLongEnough ==
    LET ofLen(len, err) == Receives(MadeUpRes(0, 0, len, 13, \h112233), err)
    IN  Script(TestClientCtx,
            <<Inits("OK")>> \o Asked(444)
            \o <<ofLen(3 + 43, "TOO_SHORT_PDU_TO_CONTAIN_RES"),
                 ofLen(3 + 44, "SECWARN_INVALID_TAG"),
                 ofLen(3 + 45, "SECWARN_INVALID_TAG")>>)

ProcessReceivedResponseMsgNotForMeIsIgnored ==
    Script(TestClientCtx,
        <<Inits("OK")>> \o Asked(444)
        \o <<Receives(MadeUpRes(0, 0, 64, 14, \h112233), "MSG_IGNORED"),
             Receives(MadeUpResTo13, "SECWARN_INVALID_TAG")>>)

ProcessReceivedResponseMsgMustBeExpected ==
    Script(TestClientCtx,
        <<Inits("OK"), Has(0, [requestNonce |-> 0]),
          Receives(MadeUpResTo13, "SECWARN_NOT_EXPECTING_A_RESPONSE")>>)

ProcessReceivedResponseMsgMustArriveWithinTimeout ==
    Script(TestClientCtx,
        <<Inits("OK")>> \o Asked(444)
        \o <<Waits(500), Receives(MadeUpResTo13, "SECWARN_RESPONSE_TIMEOUT")>>)

ProcessReceivedResponseMsgMustHaveNonExpiredCtrnonce ==
    LET numbered(ctrnonce, err) == Receives(MadeUpRes(0, 0, 64, 13, ctrnonce), err)
    IN  Script(TestClientCtx,
            <<Inits("OK")>> \o Asked(444)
            \o <<numbered(\hFFFFFF, "SECWARN_RECEIVED_OVERFLOWN_NONCE"),
                 numbered(\hFFFFFE, "SECWARN_INVALID_TAG")>>)

ProcessReceivedResponseMsgWithValidTagSuccessfully ==
    LET sessionKey == 77
    IN  Script(TestClientCtx,
            <<Inits("OK")>> \o Asked(TestReqnonce)
            \o <<Sets(0, [currentRxLastMessageInstant |-> 33]),
                 Receives(RxRes(0, 0, 0, 64, 13, \h112233, sessionKey, TestReqnonce, TestLtk), "OK"),
                 DeliveredNothing, SentNothing,
                 Has(0, [currentCtrNonce |-> \h112233, currentStk |-> sessionKey,
                         requestNonce |-> 0]),
                 IsAfter(0, "currentRxLastMessageInstant", FirstInstant),
                 AreEqual(0, "lastHandshakeEventInstant", "currentRxLastMessageInstant")>>)

ProcessReceivedResponseMsgMustHaveNonZeroStkAfterDecryption ==
    Script(TestClientCtx,
        <<Inits("OK")>> \o Asked(TestReqnonce)
        \o <<Receives(RxRes(0, 0, 0, 64, 13, \h112233, 0, TestReqnonce, TestLtk),
                      "SECWARN_RECEIVED_ZERO_KEY")>>)

----------------------------------------------------------------------------
(* Reception of a REN. The tags of those not accepted are made up. *)

ReceivesRen(ctrnonce, stk, err) == Receives(RxRen(0, 0, 0, 64, ctrnonce, stk), err)

\* The answer to an accepted one: nothing for the user, a Request to send.
RenewalAnswered ==
    <<DeliveredNothing, Sent([header |-> <<0, 13, 2>>, len |-> 3 + 8 + 16])>>

ProcessReceivedRenewalMsgMustHaveKnownGid ==
    Script(TestClientCtx,
        <<Inits("OK"), InSession(1, 1),
          Receives(RxRen(0, 53, 0, 64, \h112233, 0), "MSG_IGNORED"),
          ReceivesRen(\h112233, 0, "SECWARN_INVALID_TAG")>>)

ProcessReceivedRenewalMsgMustComeFromServer ==
    Script(TestClientCtx,
        <<Inits("OK"), InSession(1, 1),
          Receives(RxRen(0, 0, 2, 64, \h112233, 0), "SECWARN_SERVER_ONLY_MESSAGE"),
          ReceivesRen(\h112233, 0, "SECWARN_INVALID_TAG")>>)

ProcessReceivedRenewalMsgMustBeLongEnough ==
    LET ofLen(len, err) == Receives(RxRen(0, 0, 0, len, \h112233, 0), err)
    IN  Script(TestClientCtx,
            <<Inits("OK"), InSession(1, 1),
              ofLen(3 + 18, "TOO_SHORT_PDU_TO_CONTAIN_REN"),
              ofLen(3 + 19, "SECWARN_INVALID_TAG"), ofLen(3 + 20, "SECWARN_INVALID_TAG")>>)

ProcessReceivedRenewalReceiverMustHaveNonZeroStk ==
    Script(TestClientCtx,
        <<Inits("OK"), Has(0, [currentStk |-> 0]),
          ReceivesRen(\h112233, 0, "SESSION_NOT_ESTABLISHED")>>)

ProcessReceivedRenewalReceiverMustNotBeInHandshake ==
    Script(TestClientCtx,
        <<Inits("OK"), InSession(1, 1), Sets(0, [requestNonce |-> 13]),
          ReceivesRen(\h112233, 0, "MSG_IGNORED"), SentNothing>>)

ProcessReceivedRenewalReceiverMustNotBeInRenewalPhase ==
    Script(TestClientCtx,
        <<Inits("OK"), InSession(1, 1), Sets(0, [previousCtrNonce |-> 0, previousStk |-> 111]),
          ReceivesRen(\h112233, 0, "MSG_IGNORED"), SentNothing>>)

ProcessReceivedRenewalReceiverMustNotHaveExpiredCtrNonce ==
    Script(TestClientCtx,
        <<Inits("OK"), InSession(1, \hFFFFFF),
          ReceivesRen(\h112233, 0, "SESSION_NOT_ESTABLISHED")>>)

ProcessReceivedRenewalMsgMustHaveNonExpiredCtrnonce ==
    Script(TestClientCtx,
        <<Inits("OK"), InSession(1, 1),
          ReceivesRen(\hFFFFFF, 0, "SECWARN_RECEIVED_OVERFLOWN_NONCE"),
          ReceivesRen(\hFFFEFF, 0, "SECWARN_INVALID_TAG")>>)

ProcessReceivedRenewalMsgMustHaveFreshCtrnonce ==
    Script(TestClientCtx,
        <<Inits("OK"), InSession(1, \h1000), ReceivesRen(\h0A, 0, "SECWARN_OLD_MESSAGE")>>)

ProcessReceivedRenewalMsgWithValidTagSuccessfully ==
    Script(TestClientCtx,
        <<Inits("OK"), InSession(1, 1), ReceivesRen(\h112233, 1, "OK")>>
        \o RenewalAnswered
        \o <<Has(0, [currentCtrNonce |-> \h112233 + 1]),
             IsAfter(0, "currentRxLastMessageInstant", 0),
             AreEqual(0, "previousStk", "currentStk"),
             AreEqual(0, "previousCtrNonce", "currentCtrNonce")>>)

ProcessReceivedRenewalMsgIsIgnoredIfNotFirst ==
    LET again == <<ReceivesRen(\h112233, 1, "MSG_IGNORED"), SentNothing>>
    IN  Script(TestClientCtx,
            <<Inits("OK"), InSession(1, 1), ReceivesRen(\h112233, 1, "OK")>>
            \o RenewalAnswered \o again \o again)

----------------------------------------------------------------------------
(* Reception of a SADFD. The tags of those not accepted are made up. *)

\* From the Client 42, with a tag that is made up; from the Client 13.
MadeUpSadfd(ctrnonce, ptlen) == RxSadfd(0, 0, 42, 64, ctrnonce, ptlen, 0)
SadfdOf13(ptlen) == RxSadfd(0, 0, 13, 64, \h010203, ptlen, 99)

ProcessReceivedSadfdMsgMustNotHaveTooLongPlaintextHeader0 ==
    Script(TestClientCtx,
        <<Inits("OK"), InSession(99, 1),
          Receives(MadeUpSadfd(\h112233, 50), "TOO_LONG_CIPHERTEXT"),
          Receives(MadeUpSadfd(\h112233, 49), "SECWARN_INVALID_TAG")>>)

ProcessReceivedSadfdMsgMustNotHaveTooLongPlaintextHeader6 ==
    Script(OfHeader6,
        <<Inits("OK"), InSession(99, 1),
          Receives(RxSadfd(6, 0, 3, 64, \h112233, 52, 0), "TOO_LONG_CIPHERTEXT"),
          Receives(RxSadfd(6, 0, 3, 64, \h112233, 51, 0), "SECWARN_INVALID_TAG")>>)

ProcessReceivedSadfdMsgMustHaveKnownGid ==
    Script(TestClientCtx,
        <<Inits("OK"), Receives(RxSadfd(0, 13, 42, 64, \h112233, 5, 0), "MSG_IGNORED")>>)

ProcessReceivedSadfdMsgMustBeLongEnoughForMetadata ==
    Script(TestClientCtx,
        <<Inits("OK"), InSession(99, 1),
          Receives(RxSadfd(0, 0, 42, 14, \h112233, 0, 0), "TOO_SHORT_PDU_TO_CONTAIN_SADFD"),
          Receives(RxSadfd(0, 0, 42, 15, \h112233, 0, 0), "SECWARN_INVALID_TAG")>>)

ProcessReceivedSadfdMsgMustHaveNonExpiredCtrnonce ==
    Script(TestClientCtx,
        <<Inits("OK"), InSession(99, 1),
          Receives(MadeUpSadfd(\hFFFFFF, 5), "SECWARN_RECEIVED_OVERFLOWN_NONCE"),
          Receives(MadeUpSadfd(\hFFFFFE, 5), "SECWARN_INVALID_TAG")>>)

ProcessReceivedSadfdReceiverMustHaveNonZeroStk ==
    Script(TestClientCtx,
        <<Inits("OK"), Has(0, [currentStk |-> 0]),
          Receives(MadeUpSadfd(\h112233, 5), "SESSION_NOT_ESTABLISHED")>>)

ProcessReceivedSadfdReceiverMustHaveNonExpiredCtrnonce ==
    Script(TestClientCtx,
        <<Inits("OK"), InSession(99, \hFFFFFF),
          Receives(MadeUpSadfd(\hFFFFFE, 5), "SESSION_NOT_ESTABLISHED"),
          Sets(0, [currentCtrNonce |-> \hFFFFFE]),
          Receives(MadeUpSadfd(\hFFFFFE, 5), "SECWARN_INVALID_TAG")>>)

ProcessReceivedSadfdMsgMustHaveFreshCtrnonce ==
    Script(TestClientCtx,
        <<Inits("OK"), InSession(99, \hFFFF),
          Receives(MadeUpSadfd(\h0A, 5), "SECWARN_OLD_MESSAGE")>>)

ProcessReceivedSadfdMsgWithEmptyCtextSuccessfully ==
    Script(OfSid(42),
        <<Inits("OK"), InSession(99, 20),
          Receives(SadfdOf13(0), "OK"), Delivered(0, 13, 0, TRUE), SentNothing,
          Has(0, [currentCtrNonce |-> \h010203 + 1])>>)

ProcessReceivedSadfdMsgWithSomeCtextSuccessfully ==
    Script(OfSid(42),
        <<Inits("OK"), InSession(99, 20),
          Receives(SadfdOf13(5), "OK"), Delivered(0, 13, 5, TRUE), SentNothing>>)

ProcessReceivedSadfdMsgMustHaveFreshCtrnonceWithinTolerance ==
    LET numbered(ctrnonce, err) == Receives(RxSadfd(0, 0, 20, 16, ctrnonce, 0, 99), err)
        reached(ctrnonce) == Has(0, [currentCtrNonce |-> ctrnonce])
    IN  Script(TestClientCtx,
            <<Inits("OK"), InSession(99, 8), Reads(0, "lastHandshakeEventInstant"),
              numbered(8, "OK"), SentNothing, reached(9),
              numbered(8, "OK"), SentNothing, reached(10),
              numbered(5, "SECWARN_OLD_MESSAGE"), reached(10),
              numbered(7, "OK"), SentNothing, Waits(500), reached(11),
              numbered(10, "SECWARN_OLD_MESSAGE"), reached(11),
              numbered(9, "SECWARN_OLD_MESSAGE")>>)

\* In a renewal phase that began just now.
BothSessions(previousStk, previousCtrNonce, currentStk, currentCtrNonce) ==
    <<Inits("OK"),
      Sets(0, [previousStk |-> previousStk, previousCtrNonce |-> previousCtrNonce,
               currentStk |-> currentStk, currentCtrNonce |-> currentCtrNonce,
               currentRxLastMessageInstant |-> FirstInstant]),
      Reads(0, "lastHandshakeEventInstant")>>

ProcessReceivedSadfdCurrentSessionAcceptedDuringRenewal ==
    Script(OfSid(42),
        BothSessions(222, \hF11111, 99, \h010200)
        \o <<Receives(SadfdOf13(5), "OK"), Delivered(0, 13, 5, TRUE), SentNothing>>)

ProcessReceivedSadfdPreviousSessionAcceptedDuringRenewal ==
    Script(OfSid(42),
        BothSessions(99, \h010200, 100, 3)
        \o <<Receives(SadfdOf13(5), "OK"), Delivered(0, 13, 5, TRUE), SentNothing>>)

ProcessReceivedSadfdPreviousSessionRejectedAfterTooManyMsgs ==
    Script(OfSid(42),
        BothSessions(99, \h010202, 100, 3)
        \o <<Sets(0, [currentCtrNonce |-> 2 * 4 - 1]), Receives(SadfdOf13(5), "OK"),
             Sets(0, [currentCtrNonce |-> 2 * 4]), Receives(SadfdOf13(5), "SECWARN_INVALID_TAG"),
             Has(0, [previousCtrNonce |-> 0, previousStk |-> 0])>>)

ProcessReceivedSadfdPreviousSessionRejectedAfterTooMuchTime ==
    Script(OfSid(42),
        BothSessions(99, \h010200, 100, 3)
        \o <<Receives(SadfdOf13(5), "OK"), Waits(500),
             Receives(SadfdOf13(5), "SECWARN_INVALID_TAG"),
             Has(0, [previousCtrNonce |-> 0, previousStk |-> 0])>>)

----------------------------------------------------------------------------
\* All of them.
Scripts ==
    <<BuildRequestMsgToTxMustNotBeNull, BuildRequestCtxMustNotBeNull,
      BuildRequestGroupMustExists, BuildRequestSuccessfully,
      BuildRequestIsNotRetransmittedUntilResponseTimeout, BuildRequestFailingTrng,
      BuildRequestFailingTrngAllZeros, BuildRequestFailingCurrentTime,
      BuildSecuredFdMsgToTxMustBeNotNull, BuildSecuredFdCtxMustBeNotNull,
      BuildSecuredFdMsgDataMustBeNotNullWhenPositiveDataLen,
      BuildSecuredFdDataLenMustBeShortEnough, BuildSecuredFdDataLenDependsOnHeaderLen,
      BuildSecuredFdCompactHeaderPreventsTooManyGroups, BuildSecuredFdGidMustBeInConfig,
      BuildSecuredFdRequiresAnEstablishedSession,
      BuildSecuredFdHeaderIsPackedBeforePayload, BuildSecuredFdHeaderPackingDependsOnType,
      BuildSecuredFdMaxCtrnonceRequiresHandshake, BuildSecuredFdMsgWithNoPayload,
      BuildSecuredFdSuccessfully, BuildSecuredFdSuccessfullyUsesNewKeyDuringRenewalPhase,
      BuildUnsecuredMsgToTxMustBeNotNull, BuildUnsecuredCtxMustBeNotNull,
      BuildUnsecuredUserDataMustBeNotNullWhenPositiveDataLen,
      BuildUnsecuredDataLenMustBeShortEnough, BuildUnsecuredDataLenDependsOnHeaderLen,
      BuildUnsecuredCompactHeaderPreventsTooManyGroups,
      BuildUnsecuredGidsNotInConfigAreAccepted, BuildUnsecuredHeaderIsPackedBeforePayload,
      BuildUnsecuredHeaderPackingDependsOnType, InitCtxMustBeNotNull,
      InitGroupStatesMustBeNotNull, InitCorrectCtxSucceeds, DeInitCtxMustNotBeNull,
      DeInitClientConfigMustNotBeNull, DeInitGroupStatesMustNotBeNull,
      DeInitClearsGroupStatesOnly, InitCurrentTimeMustBeNotNull, InitTrngMustBeNotNull,
      InitConfigMustBeNotNull, InitConfigAmountOfGroupsMustBePositive,
      InitConfigLtkMustBeNonZeros, InitConfigHeaderTypeMustBeStandard,
      InitConfigClientSidMustBeNonZero, InitConfigClientSidMustFitForHeaderType,
      InitConfigClientAmountOfGroupsMustFitForHeaderType,
      InitConfigClientMustHaveOnlyBroadcastWhenHeader5Or6, InitGroupConfigsMustBeNotNull,
      InitGroupConfigsGidsMustNotRepeat, InitGroupConfigsGidsMustBeSortedAscending,
      InitGroupConfigsGidZeroMustExist,
      InitGroupConfigsMaxCounterNonceDelayMustBeInValidRange,
      InitGroupConfigsGidsMustFitForHeaderType, ProcessReceivedMsgToTxMustNotBeNull,
      ProcessReceivedUnpackedMsgMustNotBeNull, ProcessReceivedCtxMustNotBeNull,
      ProcessReceivedRxDataMustNotBeNullWhenPositiveDataLen,
      ProcessReceivedMsgMustHaveEnoughDataLenForCbsHeader0,
      ProcessReceivedMsgMustHaveEnoughDataLenForCbsHeader4,
      ProcessReceivedMsgMustHaveKnownPtyField, ProcessReceivedMsgMustNotHaveReceiversSid,
      ProcessReceivedUadMsgSuccessfully, ProcessReceivedMsgRequestsFromOthersAreIgnored,
      ProcessReceivedMsgRequestsFromMySelfTriggersWarning,
      ProcessReceivedResponseMsgMustHaveKnownGid,
      ProcessReceivedResponseMsgMustComeFromServer,
      ProcessReceivedResponseMsgMustBeLongEnough,
      ProcessReceivedResponseMsgNotForMeIsIgnored,
      ProcessReceivedResponseMsgMustBeExpected,
      ProcessReceivedResponseMsgMustArriveWithinTimeout,
      ProcessReceivedResponseMsgMustHaveNonExpiredCtrnonce,
      ProcessReceivedResponseMsgWithValidTagSuccessfully,
      ProcessReceivedResponseMsgMustHaveNonZeroStkAfterDecryption,
      ProcessReceivedRenewalMsgMustHaveKnownGid,
      ProcessReceivedRenewalMsgMustComeFromServer,
      ProcessReceivedRenewalMsgMustBeLongEnough,
      ProcessReceivedRenewalReceiverMustHaveNonZeroStk,
      ProcessReceivedRenewalReceiverMustNotBeInHandshake,
      ProcessReceivedRenewalReceiverMustNotBeInRenewalPhase,
      ProcessReceivedRenewalReceiverMustNotHaveExpiredCtrNonce,
      ProcessReceivedRenewalMsgMustHaveNonExpiredCtrnonce,
      ProcessReceivedRenewalMsgMustHaveFreshCtrnonce,
      ProcessReceivedRenewalMsgWithValidTagSuccessfully,
      ProcessReceivedRenewalMsgIsIgnoredIfNotFirst,
      ProcessReceivedSadfdMsgMustNotHaveTooLongPlaintextHeader0,
      ProcessReceivedSadfdMsgMustNotHaveTooLongPlaintextHeader6,
      ProcessReceivedSadfdMsgMustHaveKnownGid,
      ProcessReceivedSadfdMsgMustBeLongEnoughForMetadata,
      ProcessReceivedSadfdMsgMustHaveNonExpiredCtrnonce,
      ProcessReceivedSadfdReceiverMustHaveNonZeroStk,
      ProcessReceivedSadfdReceiverMustHaveNonExpiredCtrnonce,
      ProcessReceivedSadfdMsgMustHaveFreshCtrnonce,
      ProcessReceivedSadfdMsgWithEmptyCtextSuccessfully,
      ProcessReceivedSadfdMsgWithSomeCtextSuccessfully,
      ProcessReceivedSadfdMsgMustHaveFreshCtrnonceWithinTolerance,
      ProcessReceivedSadfdCurrentSessionAcceptedDuringRenewal,
      ProcessReceivedSadfdPreviousSessionAcceptedDuringRenewal,
      ProcessReceivedSadfdPreviousSessionRejectedAfterTooManyMsgs,
      ProcessReceivedSadfdPreviousSessionRejectedAfterTooMuchTime>>
=============================================================================
