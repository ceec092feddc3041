--------------------------- MODULE Loading_proofs ---------------------------
(***************************************************************************)
(* Theorems about loading and releasing contexts: which configurations are *)
(* accepted, for any number of Clients and of Groups, what an accepted one *)
(* makes sure of, and that no load leaves a part of a context behind, for  *)
(* any length of the file and however often it is edited.                  *)
(***************************************************************************)
EXTENDS Loading, Common_proofs

----------------------------------------------------------------------------
(* Configurations of a Server, with any number of Clients and of Groups *)

\* What the types of the structures make sure of.
IsServerConfiguration(c) ==
    /\ c.headerType \in Nat /\ c.amountOfClients \in Nat /\ c.amountOfGroups \in Nat
    /\ \A i \in 1 .. c.amountOfClients : c.clients[i].sid \in Nat
    /\ \A i \in 1 .. c.amountOfGroups :
        /\ c.groups[i].gid \in Nat
        /\ c.groups[i].maxCtrnonceDelayMsgs \in Nat
        /\ c.groups[i].ctrNonceUpperLimit \in Nat
        /\ c.groups[i].delayBetweenRenNotificationsMillis \in Nat
        /\ c.groups[i].sessionDurationMillis \in Nat

\* A valid header type has limits.
LEMMA HeaderLimits ==
    ASSUME NEW t \in 0 .. 6
    PROVE  HeaderTypeMaxSid(t) \in Nat /\ HeaderTypeMaxGid(t) \in Nat
BY DEF HeaderTypeMaxSid, HeaderTypeMaxGid

\* The Server's own configuration; no limit is looked up of an invalid type.
LEMMA ServerAmountsAreChecked ==
    ASSUME NEW c, IsServerConfiguration(c)
    PROVE  ServerInitCheckServerConfig(c) = "OK"
              <=> /\ c.headerType \in 0 .. 6
                  /\ c.amountOfGroups \in 1 .. HeaderTypeMaxGid(c.headerType) + 1
                  /\ c.amountOfClients \in 1 .. HeaderTypeMaxSid(c.headerType)
                  /\ c.amountOfClients <= ServerMaxAmountOfClients
<1>1. CASE c.headerType \notin 0 .. 6
  BY <1>1 DEF ServerInitCheckServerConfig, HeaderTypeCheck, Check
<1>2. CASE c.headerType \in 0 .. 6
  <2> DEFINE a == Check(c.amountOfGroups = 0, "ZERO_GROUPS")
             b == Check(c.amountOfGroups > HeaderTypeMaxGid(c.headerType) + 1,
                        "TOO_MANY_GROUPS_FOR_CONFIGURED_HEADER_TYPE")
             d == Check(c.amountOfClients = 0, "ZERO_CLIENTS")
             e == Check(c.amountOfClients > HeaderTypeMaxSid(c.headerType),
                        "TOO_MANY_CLIENTS_FOR_CONFIGURED_HEADER_TYPE")
             f == Check(c.amountOfClients > ServerMaxAmountOfClients, "TOO_MANY_CLIENTS")
  <2>1. ServerInitCheckServerConfig(c) = FirstError(<<a, b, d, e, f>>)
    BY <1>2 DEF ServerInitCheckServerConfig, HeaderTypeCheck, Check
  <2>2. /\ a = "OK" <=> c.amountOfGroups # 0
        /\ b = "OK" <=> ~(c.amountOfGroups > HeaderTypeMaxGid(c.headerType) + 1)
        /\ d = "OK" <=> c.amountOfClients # 0
        /\ e = "OK" <=> ~(c.amountOfClients > HeaderTypeMaxSid(c.headerType))
        /\ f = "OK" <=> ~(c.amountOfClients > ServerMaxAmountOfClients)
    BY DEF Check
  <2>3. /\ HeaderTypeMaxSid(c.headerType) \in Nat /\ HeaderTypeMaxGid(c.headerType) \in Nat
        /\ c.amountOfClients \in Nat /\ c.amountOfGroups \in Nat
        /\ ServerMaxAmountOfClients \in Nat
    BY <1>2, HeaderLimits DEF IsServerConfiguration, ServerMaxAmountOfClients
  <2> HIDE DEF a, b, d, e, f
  <2>4. ServerInitCheckServerConfig(c) = "OK"
          <=> a = "OK" /\ b = "OK" /\ d = "OK" /\ e = "OK" /\ f = "OK"
    BY <2>1, FiveChecks
  <2> QED BY <1>2, <2>2, <2>3, <2>4
<1> QED BY <1>1, <1>2

\* Where the neighbours differ by one, so do all from the first.
LEMMA ServerClientsAreChecked ==
    ASSUME NEW c, IsServerConfiguration(c)
    PROVE  ServerInitCheckClientConfigs(c) = "OK"
              <=> \A i \in 1 .. c.amountOfClients :
                    /\ c.clients[i].ltk # 0
                    /\ c.clients[i].sid = c.clients[1].sid + i - 1
                    /\ c.clients[i].sid # ServerSid
<1> DEFINE n == c.amountOfClients
           a(i) == Check(c.clients[i].ltk = 0, "LTK_IS_ALL_ZEROS")
           b(i) == Check(c.clients[i].sid = ServerSid, "SERVER_SID_ASSIGNED_TO_CLIENT")
           d(i) == Check(i > 1 /\ c.clients[i - 1].sid >= c.clients[i].sid,
                         "SIDS_ARE_NOT_PRESORTED_STRICTLY_ASCENDING")
           e(i) == Check(i > 1 /\ c.clients[i - 1].sid + 1 # c.clients[i].sid, "GAP_IN_SIDS")
           each == [i \in 1 .. n |-> FirstError(<<a(i), b(i), d(i), e(i)>>)]
           sid == [i \in 1 .. n |-> c.clients[i].sid]
<1>1. n \in Nat /\ \A i \in 1 .. n : sid[i] \in Nat
  BY DEF IsServerConfiguration
<1>2. \A i \in 1 .. n : sid[i] = c.clients[i].sid
  OBVIOUS
<1>3. ServerInitCheckClientConfigs(c) = FirstError(each)
  BY DEF ServerInitCheckClientConfigs
<1>4. ASSUME NEW i \in 1 .. n
      PROVE  /\ a(i) = "OK" <=> c.clients[i].ltk # 0
             /\ b(i) = "OK" <=> c.clients[i].sid # ServerSid
             /\ d(i) = "OK" /\ e(i) = "OK" <=> (i \in 2 .. n => sid[i - 1] + 1 = sid[i])
  <2>1. CASE i = 1
    BY <2>1 DEF Check
  <2>2. CASE i # 1
    <3>1. i > 1 /\ i \in 2 .. n /\ i - 1 \in 1 .. n
      BY <1>1, <2>2
    <3>2. sid[i - 1] = c.clients[i - 1].sid /\ sid[i - 1] \in Nat /\ sid[i] \in Nat
      BY <1>1, <3>1
    <3>3. c.clients[i].sid = sid[i] /\ c.clients[i - 1].sid = sid[i - 1]
      BY <3>1
    <3> HIDE DEF sid
    <3> QED BY <3>1, <3>2, <3>3 DEF Check
  <2> QED BY <2>1, <2>2
<1>5. DOMAIN each = 1 .. n /\ \A i \in 1 .. n : each[i] = FirstError(<<a(i), b(i), d(i), e(i)>>)
  OBVIOUS
<1> HIDE DEF a, b, d, e, each, sid, n
<1>6. FirstError(each) = "OK" <=> \A i \in 1 .. n : each[i] = "OK"
  BY <1>1, <1>5, FirstErrorPasses
<1>7. ASSUME NEW i \in 1 .. n
      PROVE  each[i] = "OK" <=> /\ c.clients[i].ltk # 0
                                /\ c.clients[i].sid # ServerSid
                                /\ i \in 2 .. n => sid[i - 1] + 1 = sid[i]
  <2>1. each[i] = FirstError(<<a(i), b(i), d(i), e(i)>>)
    BY <1>5
  <2>2. FirstError(<<a(i), b(i), d(i), e(i)>>) = "OK"
          <=> a(i) = "OK" /\ b(i) = "OK" /\ d(i) = "OK" /\ e(i) = "OK"
    BY FourChecks
  <2> QED BY <1>4, <2>1, <2>2
<1>8. (\A i \in 2 .. n : sid[i - 1] + 1 = sid[i]) => \A i \in 1 .. n : sid[i] = sid[1] + i - 1
  BY <1>1, NoGapCounts
<1>9. ASSUME \A i \in 1 .. n : sid[i] = sid[1] + i - 1
      PROVE  \A i \in 2 .. n : sid[i - 1] + 1 = sid[i]
  <2> SUFFICES ASSUME NEW i \in 2 .. n PROVE sid[i - 1] + 1 = sid[i]
    OBVIOUS
  <2>1. i \in 1 .. n /\ i - 1 \in 1 .. n /\ 1 \in 1 .. n
    BY <1>1
  <2>2. sid[i] = sid[1] + i - 1 /\ sid[i - 1] = sid[1] + (i - 1) - 1 /\ sid[1] \in Nat
    BY <1>1, <1>9, <2>1
  <2> QED BY <2>2
<1>10. \A i \in 2 .. n : i \in 1 .. n
  BY <1>1
<1>11. (\A i \in 1 .. n : i \in 2 .. n => sid[i - 1] + 1 = sid[i])
         <=> \A i \in 1 .. n : sid[i] = sid[1] + i - 1
  BY <1>8, <1>9, <1>10
<1>12. (\A i \in 1 .. n : sid[i] = sid[1] + i - 1)
         <=> \A i \in 1 .. n : c.clients[i].sid = c.clients[1].sid + i - 1
  <2>1. CASE n = 0
    BY <2>1
  <2>2. CASE n # 0
    <3>1. 1 \in 1 .. n
      BY <1>1, <2>2
    <3>2. sid[1] = c.clients[1].sid
      BY <1>2, <3>1
    <3> QED BY <1>2, <3>2
  <2> QED BY <2>1, <2>2
<1>13. FirstError(each) = "OK"
          <=> \A i \in 1 .. n : /\ c.clients[i].ltk # 0
                                /\ c.clients[i].sid = c.clients[1].sid + i - 1
                                /\ c.clients[i].sid # ServerSid
  <2>1. FirstError(each) = "OK"
          <=> /\ \A i \in 1 .. n : c.clients[i].ltk # 0 /\ c.clients[i].sid # ServerSid
              /\ \A i \in 1 .. n : i \in 2 .. n => sid[i - 1] + 1 = sid[i]
    BY <1>6, <1>7
  <2> QED BY <2>1, <1>11, <1>12
<1> QED BY <1>3, <1>13 DEF n

\* A Group's own numbers.
LEMMA ServerGroupIsChecked ==
    ASSUME NEW c, IsServerConfiguration(c), NEW i \in 1 .. c.amountOfGroups
    PROVE  ServerInitCheckGroup(c, i) = "OK"
              <=> /\ i > 1 => ServerInitCheckOtherGroup(c, i) = "OK"
                  /\ IsDocumentedGroup(c.groups[i])
<1> DEFINE group == c.groups[i]
           a == IF i > 1 THEN ServerInitCheckOtherGroup(c, i) ELSE "OK"
           b == Check(group.maxCtrnonceDelayMsgs > LargestMaxCounterNonceDelay,
                      "INVALID_MAX_CTRNONCE_DELAY")
           d == Check(group.ctrNonceUpperLimit > ServerMaxCounterNonceUpperLimit,
                      "TOO_LARGE_CTRNONCE_UPPER_LIMIT")
           e == Check(~ServerIsValidDelayBetweenRen(group),
                      "INVALID_DELAY_BETWEEN_REN_NOTIFICATIONS")
<1>1. ServerInitCheckGroup(c, i) = FirstError(<<a, b, d, e>>)
  BY DEF ServerInitCheckGroup
<1>2. /\ group.maxCtrnonceDelayMsgs \in Nat /\ group.ctrNonceUpperLimit \in Nat
      /\ group.delayBetweenRenNotificationsMillis \in Nat
      /\ group.sessionDurationMillis \in Nat
  BY DEF IsServerConfiguration
<1>3. a = "OK" <=> (i > 1 => ServerInitCheckOtherGroup(c, i) = "OK")
  OBVIOUS
<1>4. ServerIsValidDelayBetweenRen(group)
        <=> /\ 0 < group.delayBetweenRenNotificationsMillis
            /\ 6 * (group.delayBetweenRenNotificationsMillis + 1) <= group.sessionDurationMillis
  <2> HIDE DEF group
  <2> QED BY <1>2 DEF ServerIsValidDelayBetweenRen
<1>5. b = "OK" /\ d = "OK" /\ e = "OK" <=> IsDocumentedGroup(group)
  <2> HIDE DEF group
  <2> QED BY <1>2, <1>4
          DEF IsDocumentedGroup, Check, LargestMaxCounterNonceDelay,
              ServerMaxCounterNonceUpperLimit
<1> HIDE DEF a, b, d, e
<1>6. FirstError(<<a, b, d, e>>) = "OK" <=> a = "OK" /\ b = "OK" /\ d = "OK" /\ e = "OK"
  BY FourChecks
<1> QED BY <1>1, <1>3, <1>5, <1>6

\* What is only asked of the Groups other than the broadcast Group.
LEMMA ServerOtherGroupIsChecked ==
    ASSUME NEW c, NEW i
    PROVE  ServerInitCheckOtherGroup(c, i) = "OK"
              <=> /\ ~(c.groups[i - 1].gid >= c.groups[i].gid)
                  /\ c.groups[i - 1].gid + 1 = c.groups[i].gid
                  /\ c.groups[i].sids # {}
                  /\ c.groups[i].sids \subseteq ServerAllClients(c)
<1> DEFINE a == Check(c.groups[i - 1].gid >= c.groups[i].gid,
                      "GIDS_ARE_NOT_PRESORTED_STRICTLY_ASCENDING")
           b == Check(c.groups[i - 1].gid + 1 # c.groups[i].gid, "GAP_IN_GIDS")
           d == Check(c.groups[i].sids = {}, "CLIENTS_BITMAP_ZERO_CLIENTS")
           e == Check(~(c.groups[i].sids \subseteq ServerAllClients(c)),
                      "CLIENTS_BITMAP_UNKNOWN_SID")
<1>1. ServerInitCheckOtherGroup(c, i) = FirstError(<<a, b, d, e>>)
  BY DEF ServerInitCheckOtherGroup
<1>2. /\ a = "OK" <=> ~(c.groups[i - 1].gid >= c.groups[i].gid)
      /\ b = "OK" <=> c.groups[i - 1].gid + 1 = c.groups[i].gid
      /\ d = "OK" <=> c.groups[i].sids # {}
      /\ e = "OK" <=> c.groups[i].sids \subseteq ServerAllClients(c)
  BY DEF Check
<1> HIDE DEF a, b, d, e
<1>3. FirstError(<<a, b, d, e>>) = "OK" <=> a = "OK" /\ b = "OK" /\ d = "OK" /\ e = "OK"
  BY FourChecks
<1> QED BY <1>1, <1>2, <1>3

\* Where the first GID is 0 and the neighbours differ by one, each Group is at
\* its place.
LEMMA ServerGroupsAreChecked ==
    ASSUME NEW c, IsServerConfiguration(c), c.amountOfGroups # 0
    PROVE  ServerInitCheckGroupConfigs(c) = "OK"
              <=> /\ \A i \in 1 .. c.amountOfGroups :
                        c.groups[i].gid = i - 1 /\ IsDocumentedGroup(c.groups[i])
                  /\ 1 .. c.amountOfClients \subseteq c.groups[1].sids
                  /\ \A i \in (1 .. c.amountOfGroups) \ {1} :
                        c.groups[i].sids # {} /\ c.groups[i].sids \subseteq 1 .. c.amountOfClients
<1> DEFINE n == c.amountOfGroups
           a == Check(c.groups[1].gid # BroadcastGid, "MISSING_GID_0")
           b == Check(~(ServerAllClients(c) \subseteq c.groups[1].sids),
                      "CLIENTS_BITMAP_INVALID_BROADCAST_GROUP")
           each == [i \in 1 .. n |-> ServerInitCheckGroup(c, i)]
           gid == [i \in 1 .. n |-> c.groups[i].gid]
           HasMembers(i) == /\ c.groups[i].sids # {}
                            /\ c.groups[i].sids \subseteq ServerAllClients(c)
<1>1. n \in Nat /\ 1 \in 1 .. n /\ \A i \in 1 .. n : gid[i] \in Nat
  BY DEF IsServerConfiguration
<1>2. \A i \in 1 .. n : gid[i] = c.groups[i].gid
  OBVIOUS
<1>3. ServerInitCheckGroupConfigs(c) = FirstError(<<a, b>> \o each)
  BY DEF ServerInitCheckGroupConfigs
<1>4. /\ a = "OK" <=> gid[1] = 0
      /\ b = "OK" <=> ServerAllClients(c) \subseteq c.groups[1].sids
  BY <1>1, <1>2 DEF Check, BroadcastGid
<1>5. IsArray(each, n) /\ \A i \in 1 .. n : each[i] = ServerInitCheckGroup(c, i)
  BY DEF IsArray
<1> HIDE DEF a, b, each, gid
<1>6. FirstError(<<a, b>> \o each) = "OK"
        <=> a = "OK" /\ b = "OK" /\ \A i \in 1 .. n : each[i] = "OK"
  <2> HIDE DEF n
  <2>1. n \in Nat /\ IsArray(each, n)
    BY <1>1, <1>5
  <2> QED BY <2>1, TwoThenChecks
<1>7. ASSUME NEW i \in 1 .. n
      PROVE  each[i] = "OK" <=> /\ i \in 2 .. n => gid[i - 1] + 1 = gid[i]
                                /\ i \in 2 .. n => HasMembers(i)
                                /\ IsDocumentedGroup(c.groups[i])
  <2>1. each[i] = "OK" <=> /\ i > 1 => ServerInitCheckOtherGroup(c, i) = "OK"
                           /\ IsDocumentedGroup(c.groups[i])
    BY <1>5, ServerGroupIsChecked
  <2>2. CASE i = 1
    BY <2>1, <2>2
  <2>3. CASE i # 1
    <3>1. i > 1 /\ i \in 2 .. n /\ i - 1 \in 1 .. n
      BY <1>1, <2>3
    <3>2. /\ gid[i - 1] = c.groups[i - 1].gid /\ gid[i] = c.groups[i].gid
          /\ gid[i - 1] \in Nat /\ gid[i] \in Nat
      BY <1>1, <1>2, <3>1
    <3>3. ServerInitCheckOtherGroup(c, i) = "OK"
            <=> ~(gid[i - 1] >= gid[i]) /\ gid[i - 1] + 1 = gid[i] /\ HasMembers(i)
      BY <3>2, ServerOtherGroupIsChecked
    <3> HIDE DEF HasMembers
    <3> QED BY <2>1, <3>1, <3>2, <3>3
  <2> QED BY <2>2, <2>3
<1> HIDE DEF n, HasMembers
<1>8. ASSUME gid[1] = 0, \A i \in 2 .. n : gid[i - 1] + 1 = gid[i]
      PROVE  \A i \in 1 .. n : gid[i] = i - 1
  <2>1. \A i \in 1 .. n : gid[i] = gid[1] + i - 1
    BY <1>1, <1>8, NoGapCounts
  <2> QED BY <1>1, <1>8, <2>1
<1>9. ASSUME \A i \in 1 .. n : gid[i] = i - 1
      PROVE  gid[1] = 0 /\ \A i \in 2 .. n : gid[i - 1] + 1 = gid[i]
  <2>1. gid[1] = 0
    BY <1>1, <1>9
  <2>2. ASSUME NEW i \in 2 .. n PROVE gid[i - 1] + 1 = gid[i]
    <3>1. i \in 1 .. n /\ i - 1 \in 1 .. n
      BY <1>1
    <3>2. gid[i] = i - 1 /\ gid[i - 1] = (i - 1) - 1
      BY <1>9, <3>1
    <3> QED BY <3>2
  <2> QED BY <2>1, <2>2
<1>10. \A i : i \in 2 .. n <=> i \in (1 .. n) \ {1}
  BY <1>1
<1>11. (a = "OK" /\ b = "OK" /\ \A i \in 1 .. n : each[i] = "OK")
         <=> /\ gid[1] = 0 /\ \A i \in 2 .. n : gid[i - 1] + 1 = gid[i]
             /\ ServerAllClients(c) \subseteq c.groups[1].sids
             /\ \A i \in 2 .. n : HasMembers(i)
             /\ \A i \in 1 .. n : IsDocumentedGroup(c.groups[i])
  BY <1>4, <1>7, <1>10
<1>12. (gid[1] = 0 /\ \A i \in 2 .. n : gid[i - 1] + 1 = gid[i])
         <=> \A i \in 1 .. n : c.groups[i].gid = i - 1
  BY <1>2, <1>8, <1>9
<1>13. (\A i \in 2 .. n : HasMembers(i)) <=> \A i \in (1 .. n) \ {1} : HasMembers(i)
  BY <1>10
<1>14. ServerInitCheckGroupConfigs(c) = "OK"
         <=> /\ \A i \in 1 .. n : c.groups[i].gid = i - 1
             /\ ServerAllClients(c) \subseteq c.groups[1].sids
             /\ \A i \in (1 .. n) \ {1} : HasMembers(i)
             /\ \A i \in 1 .. n : IsDocumentedGroup(c.groups[i])
  BY <1>3, <1>6, <1>11, <1>12, <1>13
<1> QED BY <1>14 DEF n, HasMembers, ServerAllClients

\* hzl_ServerInit accepts exactly the documented configurations, whatever the
\* amounts of Clients and of Groups: its loops compare neighbours, the
\* documentation speaks of whole arrays. The first SID is left free.
THEOREM ServerAcceptsTheDocumented ==
    ASSUME NEW c, IsServerConfiguration(c), c.null = {}
    PROVE  ServerCheckCtx(c) = "OK" <=> IsDocumentedServer(c)
<1>1. ServerCheckCtxPointers(c) = "OK"
  BY DEF ServerCheckCtxPointers, FirstError, Check
<1>2. ServerCheckCtx(c) = "OK" <=> /\ ServerInitCheckServerConfig(c) = "OK"
                                   /\ ServerInitCheckClientConfigs(c) = "OK"
                                   /\ ServerInitCheckGroupConfigs(c) = "OK"
  BY <1>1 DEF ServerCheckCtx
<1> DEFINE Amounts == /\ c.headerType \in 0 .. 6
                      /\ c.amountOfGroups \in 1 .. HeaderTypeMaxGid(c.headerType) + 1
                      /\ c.amountOfClients \in 1 .. HeaderTypeMaxSid(c.headerType)
                      /\ c.amountOfClients <= ServerMaxAmountOfClients
           ClientsAre == \A i \in 1 .. c.amountOfClients :
                            /\ c.clients[i].ltk # 0
                            /\ c.clients[i].sid = c.clients[1].sid + i - 1
                            /\ c.clients[i].sid # ServerSid
           GroupsAre == /\ \A i \in 1 .. c.amountOfGroups :
                              c.groups[i].gid = i - 1 /\ IsDocumentedGroup(c.groups[i])
                        /\ 1 .. c.amountOfClients \subseteq c.groups[1].sids
                        /\ \A i \in (1 .. c.amountOfGroups) \ {1} :
                              /\ c.groups[i].sids # {}
                              /\ c.groups[i].sids \subseteq 1 .. c.amountOfClients
<1>3. ServerInitCheckServerConfig(c) = "OK" <=> Amounts
  BY ServerAmountsAreChecked
<1>4. ServerInitCheckClientConfigs(c) = "OK" <=> ClientsAre
  BY ServerClientsAreChecked
<1>5. Amounts => (ServerInitCheckGroupConfigs(c) = "OK" <=> GroupsAre)
  <2>1. Amounts => c.amountOfGroups # 0
    OBVIOUS
  <2> QED BY <2>1, ServerGroupsAreChecked
<1>6. Amounts <=> /\ c.headerType \in 0 .. 6
                  /\ 1 .. c.amountOfClients # {}
                  /\ c.amountOfClients <= HeaderTypeMaxSid(c.headerType)
                  /\ c.amountOfClients <= ServerMaxAmountOfClients
                  /\ 1 .. c.amountOfGroups # {}
                  /\ c.amountOfGroups - 1 <= HeaderTypeMaxGid(c.headerType)
  <2>1. CASE c.headerType \notin 0 .. 6
    BY <2>1
  <2>2. CASE c.headerType \in 0 .. 6
    <3>1. /\ HeaderTypeMaxSid(c.headerType) \in Nat /\ HeaderTypeMaxGid(c.headerType) \in Nat
          /\ c.amountOfClients \in Nat /\ c.amountOfGroups \in Nat
      BY <2>2, HeaderLimits DEF IsServerConfiguration
    <3>2. \A m \in Nat : 1 .. m # {} <=> m >= 1
      <4> SUFFICES ASSUME NEW m \in Nat PROVE 1 .. m # {} <=> m >= 1
        OBVIOUS
      <4>1. m >= 1 => 1 \in 1 .. m
        OBVIOUS
      <4> QED BY <4>1
    <3> QED BY <2>2, <3>1, <3>2
  <2> QED BY <2>1, <2>2
<1>7. IsDocumentedServer(c) <=> Amounts /\ ClientsAre /\ GroupsAre
  <2> HIDE DEF Amounts
  <2> QED BY <1>6 DEF IsDocumentedServer
<1> HIDE DEF Amounts, ClientsAre, GroupsAre
<1> QED BY <1>2, <1>3, <1>4, <1>5, <1>7

\* With an accepted configuration no message makes the Server read beyond its
\* arrays: the Group of a message that passes is the one at its GID's place, its
\* sender one of its members. The Client's entry that the Server reads is as far
\* from the first one as the SID is from 1: the sender's own where the SIDs start
\* from 1, which hzl_ServerInit does not check, another Client's elsewhere.
THEOREM ServerKnowsTheConfigured ==
    ASSUME NEW c, IsServerConfiguration(c), c.null = {}, c.amountOfGroups <= Len(c.groups),
           ServerCheckCtx(c) = "OK", NEW gid \in Nat, NEW sid \in Nat \ {0},
           ServerValidateSidAndGid(c, gid, sid) = "OK"
    PROVE  /\ gid + 1 \in 1 .. c.amountOfGroups /\ c.groups[gid + 1].gid = gid
           /\ sid \in 1 .. c.amountOfClients /\ sid \in c.groups[gid + 1].sids
           /\ c.clients[sid].sid - sid = c.clients[1].sid - 1
           /\ c.clients[sid].sid = sid <=> c.clients[1].sid = 1
<1>1. IsDocumentedServer(c) /\ c.amountOfGroups \in Nat /\ c.amountOfClients \in Nat
  BY ServerAcceptsTheDocumented DEF IsServerConfiguration
<1>2. /\ Check(sid >= c.amountOfClients, "UNKNOWN_SOURCE") = "OK"
      /\ Check(gid >= c.amountOfGroups, "UNKNOWN_GROUP") = "OK"
      /\ Check(gid < Len(c.groups) /\ sid \notin c.groups[gid + 1].sids,
               "SECWARN_NOT_IN_GROUP") = "OK"
  BY ThreeChecks DEF ServerValidateSidAndGid
<1>3. sid < c.amountOfClients /\ gid < c.amountOfGroups /\ sid \in c.groups[gid + 1].sids
  BY <1>1, <1>2 DEF Check
<1>4. gid + 1 \in 1 .. c.amountOfGroups
  BY <1>1, <1>3
<1>5. c.groups[gid + 1].gid = (gid + 1) - 1
  BY <1>1, <1>4 DEF IsDocumentedServer
<1>6. sid \in 1 .. c.amountOfClients /\ 1 \in 1 .. c.amountOfClients
  BY <1>1, <1>3
<1>7. c.clients[sid].sid = c.clients[1].sid + sid - 1
  BY <1>1, <1>6 DEF IsDocumentedServer
<1>8. c.clients[sid].sid \in Nat /\ c.clients[1].sid \in Nat
  BY <1>6 DEF IsServerConfiguration
<1> QED BY <1>3, <1>4, <1>5, <1>6, <1>7, <1>8

----------------------------------------------------------------------------
(* Configurations of a Client, with any number of Groups *)

\* What the types of the structures make sure of.
IsClientConfiguration(c) ==
    /\ c.headerType \in Nat /\ c.sid \in Nat /\ c.amountOfGroups \in Nat
    /\ \A i \in 1 .. c.amountOfGroups :
        c.groups[i].gid \in Nat /\ c.groups[i].maxCtrnonceDelayMsgs \in Nat

\* The Client's own configuration; no limit is looked up of an invalid type.
LEMMA ClientIsChecked ==
    ASSUME NEW c, IsClientConfiguration(c)
    PROVE  ClientInitCheckClientConfig(c) = "OK"
              <=> /\ c.ltk # 0
                  /\ c.headerType \in 0 .. 6
                  /\ c.sid \in 1 .. HeaderTypeMaxSid(c.headerType)
                  /\ c.amountOfGroups \in 1 .. HeaderTypeMaxGid(c.headerType) + 1
<1> DEFINE a == Check(c.ltk = 0, "LTK_IS_ALL_ZEROS")
           b == Check(c.sid = ServerSid, "SERVER_SID_ASSIGNED_TO_CLIENT")
           d == HeaderTypeCheck(c.headerType)
           e == Check(c.sid > HeaderTypeMaxSid(c.headerType),
                      "SID_TOO_LARGE_FOR_CONFIGURED_HEADER_TYPE")
           f == Check(c.amountOfGroups = 0, "ZERO_GROUPS")
           g == Check(c.amountOfGroups > HeaderTypeMaxGid(c.headerType) + 1,
                      "TOO_MANY_GROUPS_FOR_CONFIGURED_HEADER_TYPE")
<1>1. /\ a = "OK" <=> c.ltk # 0
      /\ b = "OK" <=> c.sid # 0
      /\ d = "OK" <=> c.headerType \in 0 .. 6
      /\ e = "OK" <=> ~(c.sid > HeaderTypeMaxSid(c.headerType))
      /\ f = "OK" <=> c.amountOfGroups # 0
      /\ g = "OK" <=> ~(c.amountOfGroups > HeaderTypeMaxGid(c.headerType) + 1)
  BY DEF Check, HeaderTypeCheck, ServerSid
<1>2. ClientInitCheckClientConfig(c)
        = IF FirstError(<<a, b, d>>) # "OK" THEN FirstError(<<a, b, d>>)
          ELSE FirstError(<<e, f, g>>)
  BY DEF ClientInitCheckClientConfig
<1> HIDE DEF a, b, d, e, f, g
<1>3. FirstError(<<a, b, d>>) = "OK" <=> a = "OK" /\ b = "OK" /\ d = "OK"
  BY ThreeChecks
<1>4. FirstError(<<e, f, g>>) = "OK" <=> e = "OK" /\ f = "OK" /\ g = "OK"
  BY ThreeChecks
<1>5. ClientInitCheckClientConfig(c) = "OK"
        <=> a = "OK" /\ b = "OK" /\ d = "OK" /\ e = "OK" /\ f = "OK" /\ g = "OK"
  BY <1>2, <1>3, <1>4
<1>6. CASE c.headerType \notin 0 .. 6
  BY <1>1, <1>5, <1>6
<1>7. CASE c.headerType \in 0 .. 6
  <2>1. /\ HeaderTypeMaxSid(c.headerType) \in Nat /\ HeaderTypeMaxGid(c.headerType) \in Nat
        /\ c.sid \in Nat /\ c.amountOfGroups \in Nat
    BY <1>7 DEF HeaderTypeMaxSid, HeaderTypeMaxGid, IsClientConfiguration
  <2> QED BY <1>1, <1>5, <1>7, <2>1
<1> QED BY <1>6, <1>7

\* A Group's own numbers, and the GID before its own.
LEMMA ClientGroupIsChecked ==
    ASSUME NEW c, NEW i
    PROVE  ClientInitCheckGroup(c, i) = "OK"
              <=> /\ ~(c.groups[i].maxCtrnonceDelayMsgs > LargestMaxCounterNonceDelay)
                  /\ ~(c.groups[i].gid > HeaderTypeMaxGid(c.headerType))
                  /\ ~(i > 1 /\ c.groups[i - 1].gid >= c.groups[i].gid)
<1> DEFINE a == Check(c.groups[i].maxCtrnonceDelayMsgs > LargestMaxCounterNonceDelay,
                      "INVALID_MAX_CTRNONCE_DELAY")
           b == Check(c.groups[i].gid > HeaderTypeMaxGid(c.headerType),
                      "GID_TOO_LARGE_FOR_CONFIGURED_HEADER_TYPE")
           d == Check(i > 1 /\ c.groups[i - 1].gid >= c.groups[i].gid,
                      "GIDS_ARE_NOT_PRESORTED_STRICTLY_ASCENDING")
<1>1. ClientInitCheckGroup(c, i) = FirstError(<<a, b, d>>)
  BY DEF ClientInitCheckGroup
<1>2. /\ a = "OK" <=> ~(c.groups[i].maxCtrnonceDelayMsgs > LargestMaxCounterNonceDelay)
      /\ b = "OK" <=> ~(c.groups[i].gid > HeaderTypeMaxGid(c.headerType))
      /\ d = "OK" <=> ~(i > 1 /\ c.groups[i - 1].gid >= c.groups[i].gid)
  BY DEF Check
<1> HIDE DEF a, b, d
<1>3. FirstError(<<a, b, d>>) = "OK" <=> a = "OK" /\ b = "OK" /\ d = "OK"
  BY ThreeChecks
<1> QED BY <1>1, <1>2, <1>3

\* Where each GID is above the one before it, it is above all before.
LEMMA ClientGroupsAreChecked ==
    ASSUME NEW c, IsClientConfiguration(c), c.amountOfGroups # 0, c.headerType \in 0 .. 6
    PROVE  ClientInitCheckGroupConfigs(c) = "OK"
              <=> /\ c.groups[1].gid = BroadcastGid
                  /\ \A i \in 1 .. c.amountOfGroups :
                        /\ c.groups[i].gid <= HeaderTypeMaxGid(c.headerType)
                        /\ c.groups[i].maxCtrnonceDelayMsgs <= LargestMaxCounterNonceDelay
                  /\ \A i, j \in 1 .. c.amountOfGroups : i < j => c.groups[i].gid < c.groups[j].gid
<1> DEFINE n == c.amountOfGroups
           a == Check(c.groups[1].gid # BroadcastGid, "MISSING_GID_0")
           each == [i \in 1 .. n |-> ClientInitCheckGroup(c, i)]
           gid == [i \in 1 .. n |-> c.groups[i].gid]
           IsAllowed(i) == /\ c.groups[i].gid <= HeaderTypeMaxGid(c.headerType)
                           /\ c.groups[i].maxCtrnonceDelayMsgs <= LargestMaxCounterNonceDelay
<1>1. n \in Nat /\ 1 \in 1 .. n /\ \A i \in 1 .. n : gid[i] \in Nat
  BY DEF IsClientConfiguration
<1>2. \A i \in 1 .. n : gid[i] = c.groups[i].gid
  OBVIOUS
<1>3. ClientInitCheckGroupConfigs(c) = FirstError(<<a>> \o each)
  BY DEF ClientInitCheckGroupConfigs
<1>4. a = "OK" <=> c.groups[1].gid = BroadcastGid
  BY DEF Check
<1>5. IsArray(each, n) /\ \A i \in 1 .. n : each[i] = ClientInitCheckGroup(c, i)
  BY DEF IsArray
<1> HIDE DEF a, each, gid
<1>6. FirstError(<<a>> \o each) = "OK" <=> a = "OK" /\ \A i \in 1 .. n : each[i] = "OK"
  <2> HIDE DEF n
  <2>1. n \in Nat /\ IsArray(each, n)
    BY <1>1, <1>5
  <2> QED BY <2>1, OneThenChecks
<1>7. ASSUME NEW i \in 1 .. n
      PROVE  each[i] = "OK" <=> IsAllowed(i) /\ (i \in 2 .. n => gid[i - 1] < gid[i])
  <2>1. each[i] = "OK"
          <=> /\ ~(c.groups[i].maxCtrnonceDelayMsgs > LargestMaxCounterNonceDelay)
              /\ ~(c.groups[i].gid > HeaderTypeMaxGid(c.headerType))
              /\ ~(i > 1 /\ c.groups[i - 1].gid >= c.groups[i].gid)
    BY <1>5, ClientGroupIsChecked
  <2>2. /\ c.groups[i].gid \in Nat /\ c.groups[i].maxCtrnonceDelayMsgs \in Nat
        /\ HeaderTypeMaxGid(c.headerType) \in Nat /\ LargestMaxCounterNonceDelay \in Nat
    BY DEF IsClientConfiguration, HeaderTypeMaxGid, LargestMaxCounterNonceDelay
  <2>3. each[i] = "OK" <=> IsAllowed(i) /\ ~(i > 1 /\ c.groups[i - 1].gid >= c.groups[i].gid)
    BY <2>1, <2>2
  <2> HIDE DEF IsAllowed
  <2>4. CASE i = 1
    BY <2>3, <2>4
  <2>5. CASE i # 1
    <3>1. i > 1 /\ i \in 2 .. n /\ i - 1 \in 1 .. n
      BY <1>1, <2>5
    <3>2. /\ gid[i - 1] = c.groups[i - 1].gid /\ gid[i] = c.groups[i].gid
          /\ gid[i - 1] \in Nat /\ gid[i] \in Nat
      BY <1>1, <1>2, <3>1
    <3> QED BY <2>3, <3>1, <3>2
  <2> QED BY <2>4, <2>5
<1> HIDE DEF n, IsAllowed
<1>8. (\A i \in 2 .. n : gid[i - 1] < gid[i]) => \A i, j \in 1 .. n : i < j => gid[i] < gid[j]
  BY <1>1, NeighboursAscend
<1>9. ASSUME \A i, j \in 1 .. n : i < j => gid[i] < gid[j]
      PROVE  \A i \in 2 .. n : gid[i - 1] < gid[i]
  <2> SUFFICES ASSUME NEW i \in 2 .. n PROVE gid[i - 1] < gid[i]
    OBVIOUS
  <2>1. i \in 1 .. n /\ i - 1 \in 1 .. n /\ i - 1 < i
    BY <1>1
  <2> QED BY <1>9, <2>1
<1>10. \A i \in 2 .. n : i \in 1 .. n
  BY <1>1
<1>11. (\A i \in 1 .. n : each[i] = "OK")
         <=> (\A i \in 1 .. n : IsAllowed(i)) /\ (\A i \in 2 .. n : gid[i - 1] < gid[i])
  BY <1>7, <1>10
<1>12. (\A i \in 2 .. n : gid[i - 1] < gid[i])
         <=> \A i, j \in 1 .. n : i < j => c.groups[i].gid < c.groups[j].gid
  BY <1>2, <1>8, <1>9
<1>13. ClientInitCheckGroupConfigs(c) = "OK"
         <=> /\ c.groups[1].gid = BroadcastGid
             /\ \A i \in 1 .. n : IsAllowed(i)
             /\ \A i, j \in 1 .. n : i < j => c.groups[i].gid < c.groups[j].gid
  BY <1>3, <1>4, <1>6, <1>11, <1>12
<1> QED BY <1>13 DEF n, IsAllowed

\* hzl_ClientInit accepts exactly the documented configurations, whatever the
\* amount of Groups. That there are not too many of them for the header type,
\* which the documentation does not say, follows from what it says of the GIDs.
THEOREM ClientAcceptsTheDocumented ==
    ASSUME NEW c, IsClientConfiguration(c), c.null = {}
    PROVE  ClientCheckCtx(c) = "OK" <=> IsDocumentedClient(c)
<1>1. ClientCheckCtxPointers(c) = "OK"
  BY DEF ClientCheckCtxPointers, FirstError, Check
<1>2. ClientCheckCtx(c) = "OK" <=> /\ ClientInitCheckClientConfig(c) = "OK"
                                   /\ ClientInitCheckGroupConfigs(c) = "OK"
  BY <1>1 DEF ClientCheckCtx
<1> DEFINE n == c.amountOfGroups
           max == HeaderTypeMaxGid(c.headerType)
           Own == /\ c.ltk # 0
                  /\ c.headerType \in 0 .. 6
                  /\ c.sid \in 1 .. HeaderTypeMaxSid(c.headerType)
           Ascend == \A i, j \in 1 .. n : i < j => c.groups[i].gid < c.groups[j].gid
           GroupsAre == /\ c.groups[1].gid = BroadcastGid
                        /\ \A i \in 1 .. n :
                              /\ c.groups[i].gid <= max
                              /\ c.groups[i].maxCtrnonceDelayMsgs <= LargestMaxCounterNonceDelay
                        /\ Ascend
<1>3. ClientInitCheckClientConfig(c) = "OK" <=> Own /\ n \in 1 .. max + 1
  BY ClientIsChecked
<1>4. n \in Nat /\ (Own => max \in Nat)
  BY DEF IsClientConfiguration, HeaderTypeMaxGid
<1>5. Own /\ n \in 1 .. max + 1 => (ClientInitCheckGroupConfigs(c) = "OK" <=> GroupsAre)
  <2>1. Own /\ n \in 1 .. max + 1 => n # 0 /\ c.headerType \in 0 .. 6
    BY <1>4
  <2> QED BY <2>1, ClientGroupsAreChecked
<1>6. IsDocumentedClient(c) <=> Own /\ 1 .. n # {} /\ GroupsAre
  BY DEF IsDocumentedClient
<1>7. 1 .. n # {} <=> n >= 1
  <2>1. n >= 1 => 1 \in 1 .. n
    BY <1>4
  <2> QED BY <1>4, <2>1
<1>8. ASSUME n >= 1, Own, GroupsAre
      PROVE  n <= max + 1
  <2> DEFINE gid == [i \in 1 .. n |-> c.groups[i].gid]
  <2>1. /\ \A i \in 1 .. n : gid[i] \in Nat
        /\ \A i, j \in 1 .. n : i < j => gid[i] < gid[j]
    BY <1>8 DEF IsClientConfiguration
  <2>2. n \in 1 .. n /\ gid[n] <= max /\ gid[n] \in Nat
    BY <1>4, <1>8, <2>1
  <2> HIDE DEF gid, n, max, Own, GroupsAre
  <2>3. n - 1 <= gid[n]
    BY <1>4, <2>1, <2>2, AscendingCounts
  <2> QED BY <1>4, <1>8, <2>2, <2>3
<1>9. Own => (n \in 1 .. max + 1 <=> n >= 1 /\ n <= max + 1)
  BY <1>4
<1> HIDE DEF n, max, Own, GroupsAre
<1> QED BY <1>2, <1>3, <1>5, <1>6, <1>7, <1>8, <1>9

\* In an accepted configuration a Group is found at its own place, and no GID
\* that is not configured is found anywhere: the search stops at the first
\* Group with the GID, which is the only one.
THEOREM ClientFindsEveryGroup ==
    ASSUME NEW c, IsClientConfiguration(c), c.null = {}, ClientCheckCtx(c) = "OK", NEW gid
    PROVE  ClientFindGroup(c, gid) = {i \in 1 .. c.amountOfGroups : c.groups[i].gid = gid}
<1>1. IsDocumentedClient(c) /\ c.amountOfGroups \in Nat
  BY ClientAcceptsTheDocumented DEF IsClientConfiguration
<1>2. ASSUME NEW i \in 1 .. c.amountOfGroups, NEW j \in 1 .. i - 1
      PROVE  c.groups[j].gid # c.groups[i].gid
  <2>1. j \in 1 .. c.amountOfGroups /\ j < i
    BY <1>1
  <2>2. c.groups[j].gid < c.groups[i].gid
    BY <1>1, <2>1 DEF IsDocumentedClient
  <2>3. c.groups[j].gid \in Nat /\ c.groups[i].gid \in Nat
    BY <2>1 DEF IsClientConfiguration
  <2> QED BY <2>2, <2>3
<1> QED BY <1>2 DEF ClientFindGroup

----------------------------------------------------------------------------
(* The steps of a load *)

\* What follows the three first steps: arrays, and what is read of the file.
LaterStep ==
    {Alloc(what) : what \in Arrays}
        \cup {Read(what) : what \in {"serverConfig", "clientConfig", "client", "group"}}

\* The context first, then the configuration that tells the lengths of the
\* arrays, then anything else.
IsLoad(steps, config) ==
    /\ steps \in Seq({Read("magic"), Alloc("ctx"), Alloc(config)} \cup LaterStep)
    /\ Len(steps) >= 3
    /\ steps[1] = Read("magic") /\ steps[2] = Alloc("ctx") /\ steps[3] = Alloc(config)
    /\ \A i \in 4 .. Len(steps) : steps[i] \in LaterStep

\* A load that goes on is one.
LEMMA LoadGoesOn ==
    ASSUME NEW steps, NEW config, IsLoad(steps, config), NEW more \in Seq(LaterStep)
    PROVE  IsLoad(steps \o more, config)
<1> DEFINE S == {Read("magic"), Alloc("ctx"), Alloc(config)} \cup LaterStep
<1>1. steps \in Seq(S) /\ more \in Seq(S)
  BY DEF IsLoad
<1>2. Len(steps) \in Nat /\ Len(more) \in Nat
  BY <1>1
<1> HIDE DEF S
<1>3. /\ steps \o more \in Seq(S)
      /\ Len(steps \o more) = Len(steps) + Len(more)
  BY <1>1
<1>4. \A i \in 1 .. Len(steps) : (steps \o more)[i] = steps[i]
  BY <1>1
<1>5. ASSUME NEW i \in 4 .. Len(steps \o more)
      PROVE  (steps \o more)[i] \in LaterStep
  <2>1. CASE i <= Len(steps)
    BY <1>2, <1>4, <2>1 DEF IsLoad
  <2>2. CASE i > Len(steps)
    <3>1. (steps \o more)[i] = more[i - Len(steps)] /\ i - Len(steps) \in 1 .. Len(more)
      BY <1>1, <1>2, <1>3, <2>2
    <3>2. more[i - Len(steps)] \in LaterStep
      BY <3>1
    <3> QED BY <3>1, <3>2
  <2> QED BY <1>2, <2>1, <2>2
<1>6. Len(steps) >= 3 /\ 1 \in 1 .. Len(steps) /\ 2 \in 1 .. Len(steps) /\ 3 \in 1 .. Len(steps)
  BY <1>2 DEF IsLoad
<1> QED BY <1>2, <1>3, <1>4, <1>5, <1>6 DEF IsLoad, S

\* The entries of an array are read after it was allocated.
LEMMA ReadsAreLater ==
    ASSUME NEW n \in Nat, NEW what \in {"client", "group"}
    PROVE  Reads(n, what) \in Seq(LaterStep)
<1>1. Read(what) \in LaterStep
  BY DEF LaterStep
<1>2. Reads(n, what) \in [1 .. n -> LaterStep]
  BY <1>1 DEF Reads
<1> QED BY <1>2

LEMMA ServerNewIsALoad ==
    ASSUME NEW c, c.amountOfClients \in Nat, c.amountOfGroups \in Nat
    PROVE  IsLoad(ServerNewSteps(c), "serverConfig")
<1> DEFINE first == <<Read("magic"), Alloc("ctx"), Alloc("serverConfig"), Read("serverConfig")>>
           clients == <<Alloc("clientConfigs")>>
           groups == <<Alloc("groupConfigs")>>
           states == <<Alloc("groupStates")>>
           eachClient == Reads(c.amountOfClients, "client")
           eachGroup == Reads(c.amountOfGroups, "group")
           a == first \o clients
           b == a \o eachClient
           d == b \o groups
           e == d \o eachGroup
<1>1. IsLoad(first, "serverConfig")
  BY DEF IsLoad, LaterStep
<1>2. clients \in Seq(LaterStep) /\ groups \in Seq(LaterStep) /\ states \in Seq(LaterStep)
  BY DEF LaterStep, Arrays
<1>3. eachClient \in Seq(LaterStep) /\ eachGroup \in Seq(LaterStep)
  BY ReadsAreLater
<1>4. ServerNewSteps(c) = e \o states
  BY DEF ServerNewSteps
<1> HIDE DEF first, clients, groups, states, eachClient, eachGroup
<1>5. IsLoad(a, "serverConfig")
  BY <1>1, <1>2, LoadGoesOn
<1> HIDE DEF a
<1>6. IsLoad(b, "serverConfig")
  BY <1>3, <1>5, LoadGoesOn
<1> HIDE DEF b
<1>7. IsLoad(d, "serverConfig")
  BY <1>2, <1>6, LoadGoesOn
<1> HIDE DEF d
<1>8. IsLoad(e, "serverConfig")
  BY <1>3, <1>7, LoadGoesOn
<1> HIDE DEF e
<1> QED BY <1>2, <1>4, <1>8, LoadGoesOn

LEMMA ClientNewIsALoad ==
    ASSUME NEW c, c.amountOfGroups \in Nat
    PROVE  IsLoad(ClientNewSteps(c), "clientConfig")
<1> DEFINE first == <<Read("magic"), Alloc("ctx"), Alloc("clientConfig"), Read("clientConfig")>>
           groups == <<Alloc("groupConfigs")>>
           states == <<Alloc("groupStates")>>
           eachGroup == Reads(c.amountOfGroups, "group")
           a == first \o groups
           b == a \o eachGroup
<1>1. IsLoad(first, "clientConfig")
  BY DEF IsLoad, LaterStep
<1>2. groups \in Seq(LaterStep) /\ states \in Seq(LaterStep)
  BY DEF LaterStep, Arrays
<1>3. eachGroup \in Seq(LaterStep)
  BY ReadsAreLater
<1>4. ClientNewSteps(c) = b \o states
  BY DEF ClientNewSteps
<1> HIDE DEF first, groups, states, eachGroup
<1>5. IsLoad(a, "clientConfig")
  BY <1>1, <1>2, LoadGoesOn
<1> HIDE DEF a
<1>6. IsLoad(b, "clientConfig")
  BY <1>3, <1>5, LoadGoesOn
<1> HIDE DEF b
<1> QED BY <1>2, <1>4, <1>6, LoadGoesOn

----------------------------------------------------------------------------
(* The inductive invariant *)

ServerClientConfigs == [sid : Nat, ltk : Nat]

ServerGroupConfigs ==
    [gid : Nat, sids : SUBSET Nat, maxCtrnonceDelayMsgs : Nat, ctrNonceUpperLimit : Nat,
     sessionDurationMillis : Nat, delayBetweenRenNotificationsMillis : Nat]

ServerConfigs ==
    [null : {{}}, headerType : Nat, amountOfGroups : 0 .. 3, amountOfClients : 0 .. 3,
     clients : [1 .. 3 -> ServerClientConfigs], groups : [1 .. 3 -> ServerGroupConfigs]]

ClientGroupConfigs == [gid : Nat, maxCtrnonceDelayMsgs : Nat]

ClientConfigs ==
    [null : {{}}, headerType : Nat, amountOfGroups : 0 .. 3, sid : Nat, ltk : Nat,
     groups : [1 .. 3 -> ClientGroupConfigs]]

\* However often a file is edited, it describes a configuration of its side.
FileOK ==
    /\ role \in {"server", "client"}
    /\ file \in [magic : {"HZLs", "HZLc", "HZL"},
                 config : IF role = "server" THEN ServerConfigs ELSE ClientConfigs]

\* What the checks say of the file as it is.
CheckedErr ==
    IF role = "server" THEN ServerCheckCtx(file.config) ELSE ClientCheckCtx(file.config)

\* What the last load said of its file still holds of it.
ErrIsOfTheFile == err \notin OutsideErrors => err = CheckedErr

IInv ==
    /\ FileOK
    /\ held \in BOOLEAN
    /\ ErrIsOfTheFile
    /\ WholeOrGone

LEMMA ServerFileIsConfiguration ==
    ASSUME NEW c \in ServerConfigs
    PROVE  /\ IsServerConfiguration(c) /\ c.null = {}
           /\ c.amountOfGroups <= Len(c.groups)
<1>1. c.amountOfGroups \in 0 .. 3 /\ c.amountOfClients \in 0 .. 3
  BY DEF ServerConfigs
<1>2. \A i \in 1 .. 3 : c.clients[i] \in ServerClientConfigs /\ c.groups[i] \in ServerGroupConfigs
  BY DEF ServerConfigs
<1>3. Len(c.groups) = 3
  BY DEF ServerConfigs
<1> QED BY <1>1, <1>2, <1>3
        DEF IsServerConfiguration, ServerConfigs, ServerClientConfigs, ServerGroupConfigs

LEMMA ClientFileIsConfiguration ==
    ASSUME NEW c \in ClientConfigs
    PROVE  IsClientConfiguration(c) /\ c.null = {}
<1>1. c.amountOfGroups \in 0 .. 3
  BY DEF ClientConfigs
<1>2. \A i \in 1 .. 3 : c.groups[i] \in ClientGroupConfigs
  BY DEF ClientConfigs
<1> QED BY <1>1, <1>2 DEF IsClientConfiguration, ClientConfigs, ClientGroupConfigs

\* Both sides load their file in the order IsLoad says.
LEMMA NewIsALoad ==
    ASSUME FileOK
    PROVE  IsLoad(NewSteps, Config)
<1>1. CASE role = "server"
  <2>1. file.config \in ServerConfigs
    BY <1>1 DEF FileOK
  <2>2. file.config.amountOfClients \in Nat /\ file.config.amountOfGroups \in Nat
    BY <2>1 DEF ServerConfigs
  <2>3. IsLoad(ServerNewSteps(file.config), "serverConfig")
    BY <2>2, ServerNewIsALoad
  <2> QED BY <1>1, <2>3 DEF NewSteps, Config
<1>2. CASE role = "client"
  <2>1. file.config \in ClientConfigs
    BY <1>2 DEF FileOK
  <2>2. file.config.amountOfGroups \in Nat
    BY <2>1 DEF ClientConfigs
  <2>3. IsLoad(ClientNewSteps(file.config), "clientConfig")
    BY <2>2, ClientNewIsALoad
  <2> QED BY <1>2, <2>3 DEF NewSteps, Config
<1> QED BY <1>1, <1>2 DEF FileOK

----------------------------------------------------------------------------
(* What is allocated and what is released *)

\* Wherever a load stops, there is no array without a configuration, and no
\* configuration without a context.
LEMMA AllocatedInOrder ==
    ASSUME FileOK, NEW n \in 1 .. Len(NewSteps) + 1
    PROVE  /\ AllocatedBefore(n) \subseteq {"ctx", Config} \cup Arrays
           /\ "ctx" \in AllocatedBefore(n) \/ AllocatedBefore(n) = {}
           /\ Config \in AllocatedBefore(n) \/ AllocatedBefore(n) \cap Arrays = {}
           /\ n = Len(NewSteps) + 1 => "ctx" \in AllocatedBefore(n) /\ Config \in AllocatedBefore(n)
<1>1. IsLoad(NewSteps, Config)
  BY NewIsALoad
<1> DEFINE len == Len(NewSteps)
<1>2. len \in Nat /\ len >= 3
  BY <1>1 DEF IsLoad
<1>3. /\ ~NewSteps[1].alloc
      /\ NewSteps[2].alloc /\ NewSteps[2].what = "ctx"
      /\ NewSteps[3].alloc /\ NewSteps[3].what = Config
      /\ \A i \in 4 .. len : NewSteps[i].alloc => NewSteps[i].what \in Arrays
  BY <1>1 DEF IsLoad, LaterStep, Alloc, Read
<1>4. \A what : what \in AllocatedBefore(n)
                <=> \E i \in 1 .. n - 1 : NewSteps[i].alloc /\ NewSteps[i].what = what
  BY DEF AllocatedBefore
<1> HIDE DEF len
<1>5. ASSUME NEW what \in AllocatedBefore(n)
      PROVE  \/ what = "ctx"
             \/ what = Config /\ 2 \in 1 .. n - 1
             \/ what \in Arrays /\ 2 \in 1 .. n - 1 /\ 3 \in 1 .. n - 1
  <2>1. PICK i \in 1 .. n - 1 : NewSteps[i].alloc /\ NewSteps[i].what = what
    BY <1>4
  <2>2. n \in Nat /\ n - 1 <= len
    BY <1>2 DEF len
  <2> QED BY <1>2, <1>3, <2>1, <2>2
<1>6. 2 \in 1 .. n - 1 => "ctx" \in AllocatedBefore(n)
  BY <1>3, <1>4
<1>7. 3 \in 1 .. n - 1 => Config \in AllocatedBefore(n)
  BY <1>3, <1>4
<1>8. n = Len(NewSteps) + 1 => 2 \in 1 .. n - 1 /\ 3 \in 1 .. n - 1
  BY <1>2 DEF len
<1>9. Config \notin Arrays /\ "ctx" \notin Arrays
  BY DEF Config, Arrays
<1> QED BY <1>5, <1>6, <1>7, <1>8, <1>9

\* So a release leaves nothing of it.
LEMMA ReleasedWhole ==
    ASSUME FileOK, NEW n \in 1 .. Len(NewSteps) + 1
    PROVE  Freed(AllocatedBefore(n)) = AllocatedBefore(n)
BY AllocatedInOrder DEF Freed

\* No array is cleared after the configuration that tells its length.
LEMMA NothingUnwiped ==
    ASSUME NEW blocks
    PROVE  FreedUnwiped(blocks) = {}
<1>1. Config \notin Arrays /\ "ctx" \notin Arrays
  BY DEF Config, Arrays
<1>2. Len(FreeOrder) = 5
  BY DEF FreeOrder
<1>3. ASSUME NEW i \in 1 .. 5, FreeOrder[i] \in Arrays, NEW j \in 1 .. i - 1
      PROVE  FreeOrder[j] # Config
  <2>1. i # 4 /\ i # 5
    BY <1>1, <1>3 DEF FreeOrder
  <2>2. j \in 1 .. 2
    BY <2>1
  <2> QED BY <2>2 DEF FreeOrder, Config
<1> QED BY <1>2, <1>3 DEF FreedUnwiped

----------------------------------------------------------------------------
(* The steps *)

LEMMA InitIInv == Init => IInv
<1> SUFFICES ASSUME Init PROVE IInv
  OBVIOUS
<1>1. role \in {"server", "client"}
  BY RolesAssumption DEF Init
<1>2. CASE role = "server"
  <2>1. \A i \in 1 .. 3 : ServerFile.config.groups[i] \in ServerGroupConfigs
    BY DEF ServerFile, ServerGroup, ServerGroupConfigs
  <2>2. ServerFile.config \in ServerConfigs
    BY <2>1 DEF ServerFile, ServerConfigs, Client, ServerClientConfigs
  <2>3. FileOK
    BY <1>2, <2>2 DEF Init, FileOK, ServerFile
  <2> QED BY <2>3 DEF Init, IInv, ErrIsOfTheFile, OutsideErrors, WholeOrGone
<1>3. CASE role = "client"
  <2>1. \A i \in 1 .. 3 : ClientFile.config.groups[i] \in ClientGroupConfigs
    BY DEF ClientFile, ClientGroup, ClientGroupConfigs
  <2>2. ClientFile.config \in ClientConfigs
    BY <2>1 DEF ClientFile, ClientConfigs
  <2>3. FileOK
    BY <1>3, <2>2 DEF Init, FileOK, ClientFile
  <2> QED BY <2>3 DEF Init, IInv, ErrIsOfTheFile, OutsideErrors, WholeOrGone
<1> QED BY <1>1, <1>2, <1>3

\* An edit takes back what was said of the file; no context is held then.
LEMMA EditedStep ==
    ASSUME IInv, NEW config, Edited(config),
           config \in IF role = "server" THEN ServerConfigs ELSE ClientConfigs
    PROVE  IInv'
<1>1. FileOK'
  BY DEF IInv, FileOK, Edited
<1>2. ErrIsOfTheFile'
  BY DEF Edited, ErrIsOfTheFile, OutsideErrors
<1>3. WholeOrGone'
  BY DEF IInv, Edited, WholeOrGone
<1> QED BY <1>1, <1>2, <1>3 DEF IInv, Edited

LEMMA EditEitherStep ==
    ASSUME IInv, EditEither
    PROVE  IInv'
<1> DEFINE c == file.config
<1>1. CASE role = "server"
  <2>1. c \in ServerConfigs
    BY <1>1 DEF IInv, FileOK
  <2> HIDE DEF c
  <2>2. ASSUME NEW type \in {3, 4, 6, 7} PROVE [c EXCEPT !.headerType = type] \in ServerConfigs
    BY <2>1 DEF ServerConfigs
  <2>3. ASSUME NEW n \in 0 .. 3 PROVE [c EXCEPT !.amountOfGroups = n] \in ServerConfigs
    BY <2>1 DEF ServerConfigs
  <2>4. ASSUME NEW i \in 1 .. 3, NEW gid \in Nat
        PROVE  [c EXCEPT !.groups[i].gid = gid] \in ServerConfigs
    BY <2>1 DEF ServerConfigs, ServerGroupConfigs
  <2>5. ASSUME NEW i \in 1 .. 3, NEW n \in Nat
        PROVE  [c EXCEPT !.groups[i].maxCtrnonceDelayMsgs = n] \in ServerConfigs
    BY <2>1 DEF ServerConfigs, ServerGroupConfigs
  <2>6. LargestMaxCounterNonceDelay + 1 \in Nat
    BY DEF LargestMaxCounterNonceDelay
  <2>7. \E config \in ServerConfigs : Edited(config)
    BY <2>2, <2>3, <2>4, <2>5, <2>6 DEF EditEither, c
  <2> QED BY <1>1, <2>7, EditedStep
<1>2. CASE role = "client"
  <2>1. c \in ClientConfigs
    BY <1>2 DEF IInv, FileOK
  <2> HIDE DEF c
  <2>2. ASSUME NEW type \in {3, 4, 6, 7} PROVE [c EXCEPT !.headerType = type] \in ClientConfigs
    BY <2>1 DEF ClientConfigs
  <2>3. ASSUME NEW n \in 0 .. 3 PROVE [c EXCEPT !.amountOfGroups = n] \in ClientConfigs
    BY <2>1 DEF ClientConfigs
  <2>4. ASSUME NEW i \in 1 .. 3, NEW gid \in Nat
        PROVE  [c EXCEPT !.groups[i].gid = gid] \in ClientConfigs
    BY <2>1 DEF ClientConfigs, ClientGroupConfigs
  <2>5. ASSUME NEW i \in 1 .. 3, NEW n \in Nat
        PROVE  [c EXCEPT !.groups[i].maxCtrnonceDelayMsgs = n] \in ClientConfigs
    BY <2>1 DEF ClientConfigs, ClientGroupConfigs
  <2>6. LargestMaxCounterNonceDelay + 1 \in Nat
    BY DEF LargestMaxCounterNonceDelay
  <2>7. \E config \in ClientConfigs : Edited(config)
    BY <2>2, <2>3, <2>4, <2>5, <2>6 DEF EditEither, c
  <2> QED BY <1>2, <2>7, EditedStep
<1> QED BY <1>1, <1>2 DEF IInv, FileOK

LEMMA EditServerStep ==
    ASSUME IInv, EditServer
    PROVE  IInv'
<1> DEFINE c == file.config
           Amount(n) == [c EXCEPT !.amountOfClients = n]
           Sid(i, n) == [c EXCEPT !.clients[i].sid = n]
           Ltk(i, n) == [c EXCEPT !.clients[i].ltk = n]
           Sids(i, sids) == [c EXCEPT !.groups[i].sids = sids]
           Delay(i, n) == [c EXCEPT !.groups[i].delayBetweenRenNotificationsMillis = n]
           Limit(i, n) == [c EXCEPT !.groups[i].ctrNonceUpperLimit = n]
           tooMuch == ServerMaxCounterNonceUpperLimit + 1
           Later == [c EXCEPT !.clients = LaterClients]
<1>1. role = "server" /\ c \in ServerConfigs
  BY DEF IInv, FileOK, EditServer
<1>2. \/ \E n \in 0 .. 3 : Edited(Amount(n))
      \/ Edited(Later)
      \/ \E i \in 1 .. 3 :
            \/ \E sid \in 0 .. 4 : Edited(Sid(i, sid))
            \/ Edited(Ltk(i, 0))
            \/ \E sids \in {{}, {1}, {2, 3}, {4}, 1 .. 3} : Edited(Sids(i, sids))
            \/ \E d \in {0, 1, 100} : Edited(Delay(i, d))
            \/ Edited(Limit(i, tooMuch))
  BY DEF EditServer
<1> HIDE DEF c
<1>3. ASSUME NEW n \in 0 .. 3 PROVE Amount(n) \in ServerConfigs
  BY <1>1 DEF ServerConfigs
<1>4. ASSUME NEW i \in 1 .. 3, NEW n \in Nat
      PROVE  Sid(i, n) \in ServerConfigs /\ Ltk(i, n) \in ServerConfigs
  BY <1>1 DEF ServerConfigs, ServerClientConfigs
<1>5. ASSUME NEW i \in 1 .. 3, NEW sids \in SUBSET Nat
      PROVE  Sids(i, sids) \in ServerConfigs
  BY <1>1 DEF ServerConfigs, ServerGroupConfigs
<1>6. ASSUME NEW i \in 1 .. 3, NEW n \in Nat
      PROVE  Delay(i, n) \in ServerConfigs /\ Limit(i, n) \in ServerConfigs
  BY <1>1 DEF ServerConfigs, ServerGroupConfigs
<1>7. tooMuch \in Nat
  BY DEF ServerMaxCounterNonceUpperLimit
<1>8. {{}, {1}, {2, 3}, {4}, 1 .. 3} \subseteq SUBSET Nat
  OBVIOUS
<1>10. Later \in ServerConfigs
  <2>1. LaterClients \in [1 .. 3 -> ServerClientConfigs]
    BY DEF LaterClients, Client, ServerClientConfigs
  <2> HIDE DEF LaterClients
  <2> QED BY <1>1, <2>1 DEF ServerConfigs
<1> HIDE DEF Amount, Sid, Ltk, Sids, Delay, Limit, tooMuch, Later
<1>9. \E config \in ServerConfigs : Edited(config)
  BY <1>2, <1>3, <1>4, <1>5, <1>6, <1>7, <1>8, <1>10
<1> QED BY <1>1, <1>9, EditedStep

LEMMA EditClientStep ==
    ASSUME IInv, EditClient
    PROVE  IInv'
<1> DEFINE c == file.config
<1>1. role = "client" /\ c \in ClientConfigs
  BY DEF IInv, FileOK, EditClient
<1> HIDE DEF c
<1>2. ASSUME NEW n \in Nat
      PROVE  [c EXCEPT !.sid = n] \in ClientConfigs /\ [c EXCEPT !.ltk = n] \in ClientConfigs
  BY <1>1 DEF ClientConfigs
<1>3. \E config \in ClientConfigs : Edited(config)
  BY <1>2 DEF EditClient, c
<1> QED BY <1>1, <1>3, EditedStep

LEMMA EditMagicStep ==
    ASSUME IInv, EditMagic
    PROVE  IInv'
<1>1. FileOK'
  BY DEF IInv, FileOK, EditMagic
<1>2. ErrIsOfTheFile'
  BY DEF EditMagic, ErrIsOfTheFile, OutsideErrors
<1>3. WholeOrGone'
  BY DEF IInv, EditMagic, WholeOrGone
<1> QED BY <1>1, <1>2, <1>3 DEF IInv, EditMagic

\* What the steps of a load depend on.
LEMMA SameFile ==
    ASSUME UNCHANGED <<role, file>>
    PROVE  /\ FileOK => FileOK'
           /\ CheckedErr' = CheckedErr
           /\ NewSteps' = NewSteps
           /\ \A n : AllocatedBefore(n)' = AllocatedBefore(n)
<1>1. NewSteps' = NewSteps
  BY DEF NewSteps
<1>2. \A n : AllocatedBefore(n)' = AllocatedBefore(n)
  BY <1>1 DEF AllocatedBefore
<1>3. FileOK => FileOK'
  BY DEF FileOK
<1>4. CheckedErr' = CheckedErr
  BY DEF CheckedErr
<1> QED BY <1>1, <1>2, <1>3, <1>4

\* What a step does that leaves the context alone.
LEMMA SameContext ==
    ASSUME WholeOrGone, UNCHANGED <<role, file, held, stale>>, heap' \ {"msg"} = heap \ {"msg"}
    PROVE  WholeOrGone'
BY SameFile DEF WholeOrGone

LEMMA NewRefusedStep ==
    ASSUME IInv, NewRefused
    PROVE  IInv'
<1>1. UNCHANGED <<role, file, held, stale, heap>>
  BY DEF NewRefused
<1>2. FileOK' /\ WholeOrGone'
  BY <1>1, SameFile, SameContext DEF IInv
<1>3. ErrIsOfTheFile'
  BY DEF NewRefused, ErrIsOfTheFile, OutsideErrors
<1> QED BY <1>1, <1>2, <1>3 DEF IInv

LEMMA MsgStep ==
    ASSUME IInv, NewMsg \/ FreeMsg
    PROVE  IInv'
<1>1. UNCHANGED <<role, file, held, stale, err>> /\ heap' \ {"msg"} = heap \ {"msg"}
  BY DEF NewMsg, FreeMsg
<1>2. FileOK' /\ WholeOrGone' /\ CheckedErr' = CheckedErr
  BY <1>1, SameFile, SameContext DEF IInv
<1> QED BY <1>1, <1>2 DEF IInv, ErrIsOfTheFile

\* The step at which a load fails is one of its steps; its error is not about
\* the content of the file.
LEMMA FailedIsAStep ==
    ASSUME FileOK, NEW short \in 0 .. Len(NewSteps), NEW n \in FailedStep(short)
    PROVE  n \in 1 .. Len(NewSteps) /\ StepError(n, short) \in OutsideErrors
<1>1. IsLoad(NewSteps, Config)
  BY NewIsALoad
<1>2. Len(NewSteps) \in Nat /\ Len(NewSteps) >= 3
  BY <1>1 DEF IsLoad
<1>3. n \in 1 .. Len(NewSteps)
  BY <1>2 DEF FailedStep
<1>4. StepError(n, short) \in OutsideErrors
  BY DEF StepError, OutsideErrors
<1> QED BY <1>3, <1>4

\* A load that fails on its way leaves the heap as it found it.
LEMMA NewFailsStep ==
    ASSUME IInv, ~held, NEW short \in 0 .. Len(NewSteps), NewFails(short),
           UNCHANGED <<role, file, edits>>
    PROVE  IInv'
<1>1. PICK n \in FailedStep(short) :
        /\ err' = StepError(n, short)
        /\ heap' = heap \cup (AllocatedBefore(n) \ Freed(AllocatedBefore(n)))
        /\ stale' = stale \cup FreedUnwiped(AllocatedBefore(n))
        /\ UNCHANGED held
  BY DEF NewFails
<1>2. n \in 1 .. Len(NewSteps) /\ err' \in OutsideErrors
  BY <1>1, FailedIsAStep DEF IInv
<1>3. n \in 1 .. Len(NewSteps) + 1
  BY <1>2
<1>4. Freed(AllocatedBefore(n)) = AllocatedBefore(n)
  BY <1>3, ReleasedWhole DEF IInv
<1>5. UNCHANGED <<heap, stale>>
  BY <1>1, <1>4, NothingUnwiped
<1>6. FileOK' /\ WholeOrGone'
  BY <1>1, <1>5, SameFile, SameContext DEF IInv
<1> QED BY <1>1, <1>2, <1>6 DEF IInv, ErrIsOfTheFile

\* A context is handed out with all that was allocated for it.
LEMMA NewReturnsStep ==
    ASSUME IInv, ~held, NEW short \in 0 .. Len(NewSteps), NewReturns(short),
           UNCHANGED <<role, file, edits>>
    PROVE  IInv'
<1> DEFINE all == AllocatedBefore(Len(NewSteps) + 1)
<1>1. /\ heap' = heap \cup all /\ held' = TRUE /\ stale' = stale
      /\ \E works \in BOOLEAN : err' = InitError(works)
  BY DEF NewReturns
<1>2. Len(NewSteps) + 1 \in 1 .. Len(NewSteps) + 1
  BY NewIsALoad DEF IInv, IsLoad
<1>3. all \subseteq {"ctx", Config} \cup Arrays
  BY <1>2, AllocatedInOrder DEF IInv
<1>4. "msg" \notin all
  BY <1>3 DEF Config, Arrays
<1>5. heap \ {"msg"} = {} /\ stale = {}
  BY DEF IInv, WholeOrGone
<1>6. all' = all /\ FileOK' /\ CheckedErr' = CheckedErr
  BY SameFile DEF IInv
<1>7. heap' \ {"msg"} = all
  BY <1>1, <1>4, <1>5
<1>8. WholeOrGone'
  BY <1>1, <1>5, <1>6, <1>7 DEF WholeOrGone
<1>9. err' \in OutsideErrors \/ err' = CheckedErr
  <2>1. PICK works \in BOOLEAN : err' = InitError(works)
    BY <1>1
  <2> QED BY <2>1 DEF InitError, CheckedErr, Check, OutsideErrors, IInv, FileOK
<1>10. ErrIsOfTheFile'
  BY <1>6, <1>9 DEF ErrIsOfTheFile, OutsideErrors
<1> QED BY <1>1, <1>6, <1>8, <1>10 DEF IInv

\* A release leaves nothing of the context, and the message alone.
LEMMA FreeStep ==
    ASSUME IInv, Free
    PROVE  IInv'
<1> DEFINE all == AllocatedBefore(Len(NewSteps) + 1)
<1>1. /\ heap \ {"msg"} = all /\ stale = {}
  BY DEF IInv, WholeOrGone, Free
<1>2. Len(NewSteps) + 1 \in 1 .. Len(NewSteps) + 1
  BY NewIsALoad DEF IInv, IsLoad
<1>3. Freed(all) = all
  BY <1>2, ReleasedWhole DEF IInv
<1>4. heap' = heap \ all /\ stale' = {} /\ held' = FALSE /\ UNCHANGED <<role, file, err>>
  BY <1>1, <1>3, NothingUnwiped DEF Free
<1>5. heap' \ {"msg"} = {}
  BY <1>1, <1>4
<1>6. FileOK' /\ CheckedErr' = CheckedErr
  BY <1>4, SameFile DEF IInv
<1>7. WholeOrGone'
  BY <1>4, <1>5 DEF WholeOrGone
<1> QED BY <1>4, <1>6, <1>7 DEF IInv, ErrIsOfTheFile

LEMMA NextIInv == IInv /\ [Next]_vars => IInv'
<1> SUFFICES ASSUME IInv, [Next]_vars PROVE IInv'
  OBVIOUS
<1>1. CASE EditEither
  BY <1>1, EditEitherStep
<1>2. CASE EditServer
  BY <1>2, EditServerStep
<1>3. CASE EditClient
  BY <1>3, EditClientStep
<1>4. CASE EditMagic
  BY <1>4, EditMagicStep
<1>5. CASE NewRefused
  BY <1>5, NewRefusedStep
<1>6. CASE New
  BY <1>6, NewFailsStep, NewReturnsStep DEF New
<1>7. CASE Free
  BY <1>7, FreeStep
<1>8. CASE NewMsg \/ FreeMsg
  BY <1>8, MsgStep
<1>9. CASE UNCHANGED vars
  <2>1. UNCHANGED <<role, file, held, stale, err, heap>>
    BY <1>9 DEF vars
  <2>2. FileOK' /\ WholeOrGone' /\ CheckedErr' = CheckedErr
    BY <2>1, SameFile, SameContext DEF IInv
  <2> QED BY <2>1, <2>2 DEF IInv, ErrIsOfTheFile
<1> QED BY <1>1, <1>2, <1>3, <1>4, <1>5, <1>6, <1>7, <1>8, <1>9 DEF Next

LEMMA SpecIInv == Spec => []IInv
BY InitIInv, NextIInv, PTL DEF Spec

----------------------------------------------------------------------------
(* The theorems *)

\* Wherever a load fails, however long its file and however often the user
\* loads and releases: a context is whole and in the user's hands or nothing
\* remains of it, and no key stays in freed memory (hzl_ServerNew,
\* hzl_ClientNew, hzl_ServerFree, hzl_ClientFree).
THEOREM WholeOrGoneCorrect == Spec => []WholeOrGone
<1>1. IInv => WholeOrGone
  BY DEF IInv
<1> QED BY <1>1, SpecIInv, PTL

\* However often a file is edited, a load of it succeeds only with a
\* configuration that the documentation allows, and fails of its content only
\* with one that it does not.
THEOREM AcceptsTheDocumentedCorrect == Spec => []AcceptsTheDocumented
<1>1. IInv => AcceptsTheDocumented
  <2> SUFFICES ASSUME IInv, err \notin OutsideErrors PROVE err = "OK" <=> IsDocumented
    BY DEF AcceptsTheDocumented
  <2>1. err = CheckedErr
    BY DEF IInv, ErrIsOfTheFile
  <2>2. CASE role = "server"
    <3>1. IsServerConfiguration(file.config) /\ file.config.null = {}
      BY <2>2, ServerFileIsConfiguration DEF IInv, FileOK
    <3>2. ServerCheckCtx(file.config) = "OK" <=> IsDocumentedServer(file.config)
      BY <3>1, ServerAcceptsTheDocumented
    <3> QED BY <2>1, <2>2, <3>2 DEF CheckedErr, IsDocumented
  <2>3. CASE role = "client"
    <3>1. IsClientConfiguration(file.config) /\ file.config.null = {}
      BY <2>3, ClientFileIsConfiguration DEF IInv, FileOK
    <3>2. ClientCheckCtx(file.config) = "OK" <=> IsDocumentedClient(file.config)
      BY <3>1, ClientAcceptsTheDocumented
    <3> QED BY <2>1, <2>3, <3>2 DEF CheckedErr, IsDocumented
  <2> QED BY <2>2, <2>3 DEF IInv, FileOK
<1> QED BY <1>1, SpecIInv, PTL

\* After a Server's load that succeeds, whatever was edited before, a message
\* that passes hzl_ServerValidateSidAndGid is of a configured Group, at the
\* place where the Server looks for it, and the Client's entry that it then reads
\* is in the array, off the sender's own by what the first SID is off 1.
THEOREM KnownIsConfiguredCorrect == Spec => []KnownIsConfigured
<1>1. IInv => KnownIsConfigured
  <2> SUFFICES ASSUME IInv, role = "server", err = "OK",
                      NEW gid \in 0 .. 4, NEW sid \in 1 .. 4,
                      ServerValidateSidAndGid(file.config, gid, sid) = "OK"
               PROVE  /\ gid + 1 \in 1 .. file.config.amountOfGroups
                      /\ file.config.groups[gid + 1].gid = gid
                      /\ sid \in 1 .. file.config.amountOfClients
                      /\ file.config.clients[sid].sid - sid = file.config.clients[1].sid - 1
    BY DEF KnownIsConfigured
  <2>1. ServerCheckCtx(file.config) = "OK"
    BY DEF IInv, ErrIsOfTheFile, OutsideErrors, CheckedErr
  <2>2. /\ IsServerConfiguration(file.config) /\ file.config.null = {}
        /\ file.config.amountOfGroups <= Len(file.config.groups)
    BY ServerFileIsConfiguration DEF IInv, FileOK
  <2>3. gid \in Nat /\ sid \in Nat \ {0}
    OBVIOUS
  <2> QED BY <2>1, <2>2, <2>3, ServerKnowsTheConfigured
<1> QED BY <1>1, SpecIInv, PTL

\* After a Client's load that succeeds hzl_ClientFindGroup finds every
\* configured Group where it is, and no other.
THEOREM EveryGroupIsFoundCorrect == Spec => []EveryGroupIsFound
<1>1. IInv => EveryGroupIsFound
  <2> SUFFICES ASSUME IInv, role = "client", err = "OK",
                      NEW gid \in 0 .. HeaderTypeMaxGid(file.config.headerType)
               PROVE  ClientFindGroup(file.config, gid)
                        = {i \in 1 .. file.config.amountOfGroups : file.config.groups[i].gid = gid}
    BY DEF EveryGroupIsFound
  <2>1. ClientCheckCtx(file.config) = "OK"
    BY DEF IInv, ErrIsOfTheFile, OutsideErrors, CheckedErr
  <2>2. IsClientConfiguration(file.config) /\ file.config.null = {}
    BY ClientFileIsConfiguration DEF IInv, FileOK
  <2> QED BY <2>1, <2>2, ClientFindsEveryGroup
<1> QED BY <1>1, SpecIInv, PTL
=============================================================================
