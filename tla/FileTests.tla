----------------------------- MODULE FileTests -----------------------------
(***************************************************************************)
(* The configuration files of the repository's tests, by their content,    *)
(* and the tests of hzl_ServerNew and hzl_ClientNew that load them. A load *)
(* names the step of Loading's at which the file ends too early, or 0.     *)
(***************************************************************************)
EXTENDS ServerCalls, Scripts

\* A step made by a party; the PDU a call builds goes to a variable.
By(party, s) == With(s, [party |-> party])
Into(pdu, call) == With(call, [into |-> pdu])

File(magic, config) == [magic |-> magic, config |-> config]

\* hzl_ServerNew or hzl_ClientNew
News(party, file, short, err) ==
    By(party, Call("New", [null |-> {}, file |-> file, short |-> short], err))

Loaded(party, file) == News(party, file, 0, "OK")

----------------------------------------------------------------------------
(* serverconfigfiles/Server.hzl and its variants *)

ServerHzlGroup(gid, sids, delay, limit, millis, renMillis, silence) ==
    [gid |-> gid, sids |-> sids, maxCtrnonceDelayMsgs |-> delay, ctrNonceUpperLimit |-> limit,
     sessionDurationMillis |-> millis, delayBetweenRenNotificationsMillis |-> renMillis,
     maxSilenceIntervalMillis |-> silence]

ServerHzl ==
    [null |-> {}, faults |-> {},
     headerType |-> 0, amountOfGroups |-> 5, amountOfClients |-> 3,
     clients |-> [i \in 1 .. 3 |-> [sid |-> i, ltk |-> i]],
     groups |->
        <<ServerHzlGroup(0, 1 .. 32, 22, \hFF0000, 36000000, 10000, 5000),
          ServerHzlGroup(1, {2, 3}, 20, 1000, 36000000, 5000, 5000),
          ServerHzlGroup(2, {1}, 33, \hFF0000, 36000000, 5000, 5001),
          ServerHzlGroup(3, {1, 2}, 44, \hFF0000, 36000000, 5000, 5002),
          ServerHzlGroup(4, {3}, 20, 16710000, 36000001, 5077, 5000)>>,
     states |-> [i \in 1 .. 5 |-> ServerUnsetState]]

NewServerFileMustHaveProperMagicNumber ==
    <<News("server", File("AAAAA", ServerHzl), 0, "INVALID_FILE_MAGIC_NUMBER")>>

\* It ends in the magic number, the Server, the last Client and the last Group.
NewServerFileMustHaveProperLength ==
    LET cut(short) == News("server", File("HZLs", ServerHzl), short, "UNEXPECTED_EOF")
    IN  <<cut(1), cut(4), cut(8), cut(14)>>

\* The last one is 0xF0000016 in the file.
NewServerFileMustHaveValidConfig ==
    LET of(config, err) == News("server", File("HZLs", config), 0, err)
    IN  <<of([ServerHzl EXCEPT !.headerType = 250], "INVALID_HEADER_TYPE"),
          of([ServerHzl EXCEPT !.clients[3].sid = 2], "SIDS_ARE_NOT_PRESORTED_STRICTLY_ASCENDING"),
          of([ServerHzl EXCEPT !.clients[2].ltk = 0], "LTK_IS_ALL_ZEROS"),
          of([ServerHzl EXCEPT !.groups[4].gid = 4], "GAP_IN_GIDS"),
          of([ServerHzl EXCEPT !.groups[1].maxCtrnonceDelayMsgs = \h70000016],
             "INVALID_MAX_CTRNONCE_DELAY")>>

\* Every Session is started, each with a key of its own.
NewServerFileValidIsAccepted ==
    LET started(g) ==
            <<By("server", HasNot(g, [currentStk |-> 0])),
              By("server", Has(g, [currentCtrNonce |-> 0, previousCtrNonce |-> 0, previousStk |-> 0])),
              By("server", IsUnheard(g)),
              By("server", HasNot(g, [sessionStartInstant |-> 0]))>>
    IN  <<Loaded("server", File("HZLs", ServerHzl))>>
        \o started(0) \o started(1) \o started(2) \o started(3) \o started(4)

----------------------------------------------------------------------------
(* clientconfigfiles/Alice.hzl, its variants, Bob.hzl and Charlie.hzl *)

ClientHzlGroup(gid, delay, silence, renewal) ==
    [gid |-> gid, maxCtrnonceDelayMsgs |-> delay, maxSilenceIntervalMillis |-> silence,
     sessionRenewalDurationMillis |-> renewal]

ClientHzl(sid, timeout, groups) ==
    [null |-> {}, faults |-> {},
     headerType |-> 0, sid |-> sid, ltk |-> sid, timeoutReqToResMillis |-> timeout,
     amountOfGroups |-> Len(groups), groups |-> groups,
     states |-> [i \in DOMAIN groups |->
        [requestNonce |-> 0, lastHandshakeEventInstant |-> 0,
         currentRxLastMessageInstant |-> 0, previousRxLastMessageInstant |-> 0,
         currentCtrNonce |-> 0, previousCtrNonce |-> 0, currentStk |-> 0, previousStk |-> 0]]]

AliceHzl ==
    ClientHzl(1, 10000, <<ClientHzlGroup(0, 22, 5000, 10000),
                          ClientHzlGroup(2, 33, 5001, 30000),
                          ClientHzlGroup(3, 44, 5002, 5000)>>)
BobHzl ==
    ClientHzl(2, 5000, <<ClientHzlGroup(0, 22, 5000, 10000),
                         ClientHzlGroup(1, 20, 5000, 5000),
                         ClientHzlGroup(3, 44, 5002, 5000)>>)
CharlieHzl ==
    ClientHzl(3, 5000, <<ClientHzlGroup(0, 22, 5000, 10000),
                         ClientHzlGroup(1, 20, 5000, 5000),
                         ClientHzlGroup(4, 20, 5000, 5000)>>)

NewClientFileMustHaveProperMagicNumber ==
    <<News("alice", File("AAAAA", AliceHzl), 0, "INVALID_FILE_MAGIC_NUMBER")>>

NewClientFileMustHaveProperLength ==
    LET cut(short) == News("alice", File("HZLc", AliceHzl), short, "UNEXPECTED_EOF")
    IN  <<cut(1), cut(4), cut(8)>>

NewClientFileMustHaveValidConfig ==
    LET of(config, err) == News("alice", File("HZLc", config), 0, err)
    IN  <<of([AliceHzl EXCEPT !.sid = 0], "SERVER_SID_ASSIGNED_TO_CLIENT"),
          of([AliceHzl EXCEPT !.groups[1].gid = 1], "MISSING_GID_0"),
          of([AliceHzl EXCEPT !.groups[1].maxCtrnonceDelayMsgs = \h400001],
             "INVALID_MAX_CTRNONCE_DELAY")>>

NewClientFileAliceIsAccepted ==
    LET unset(g) == By("alice", Has(g, AliceHzl.states[1]))
    IN  <<Loaded("alice", File("HZLc", AliceHzl)), unset(0), unset(1), unset(2)>>

NewClientBobAndCharlieAreAccepted ==
    <<Loaded("bob", File("HZLc", BobHzl)), Loaded("charlie", File("HZLc", CharlieHzl))>>

NewClientOsIoFunctionsWork ==
    LET alice(s) == By("alice", s)
    IN  <<Loaded("alice", File("HZLc", AliceHzl)),
          alice(Has(0, [lastHandshakeEventInstant |-> 0, requestNonce |-> 0])),
          alice(BuildsRequest(0, "OK")),
          alice(HasNot(0, [lastHandshakeEventInstant |-> 0])),
          alice(HasNot(0, [requestNonce |-> 0]))>>

----------------------------------------------------------------------------
\* All of them. No party has a context before.
FileScripts ==
    LET of(steps) == Script([server |-> <<>>, alice |-> <<>>, bob |-> <<>>, charlie |-> <<>>], steps)
    IN  <<of(NewServerFileMustHaveProperMagicNumber), of(NewServerFileMustHaveProperLength),
          of(NewServerFileMustHaveValidConfig), of(NewServerFileValidIsAccepted),
          of(NewClientFileMustHaveProperMagicNumber), of(NewClientFileMustHaveProperLength),
          of(NewClientFileMustHaveValidConfig), of(NewClientFileAliceIsAccepted),
          of(NewClientBobAndCharlieAreAccepted), of(NewClientOsIoFunctionsWork)>>
=============================================================================
