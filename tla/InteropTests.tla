---------------------------- MODULE InteropTests ----------------------------
(***************************************************************************)
(* The repository's test of the Server and three Clients together: Alice   *)
(* and Bob share the Group SAB with the Server, Charlie does not. Every    *)
(* message is received at once by all the others, unless the test holds    *)
(* it back.                                                                *)
(***************************************************************************)
EXTENDS FileTests

\* GID_SAB
SAB == 3

\* The lengths of "hello" and of "secret", with the final zero.
Hello == Data(6)
Secret == Data(7)

\* A party receives a PDU that was built.
Receipt(party, pdu, err) == By(party, Call("Receive", [null |-> {}, from |-> pdu], err))

Refuses(party, pdu, err) ==
    <<Receipt(party, pdu, err), By(party, SentNothing), By(party, DeliveredNothing)>>

Ignores(party, pdu) == Refuses(party, pdu, "MSG_IGNORED")

Accepts(party, pdu) == Refuses(party, pdu, "OK")

Answers(party, pdu, reaction) ==
    <<Into(reaction, Receipt(party, pdu, "OK")), By(party, SentSomething),
      By(party, DeliveredNothing)>>

Gets(party, pdu, sid, data, wasSecured) ==
    <<Receipt(party, pdu, "OK"), By(party, SentNothing),
      By(party, Delivered(SAB, sid, data.len, wasSecured))>>

Builds(party, pdu, call) == <<By(party, Into(pdu, call))>>

----------------------------------------------------------------------------
BusInit ==
    <<Loaded("server", File("HZLs", ServerHzl)), Loaded("alice", File("HZLc", AliceHzl)),
      Loaded("bob", File("HZLc", BobHzl)), Loaded("charlie", File("HZLc", CharlieHzl))>>

\* Unsecured data reaches even those that are not in the Group.
UadExchange ==
    Builds("alice", "uad", BuildsUnsecured(SAB, Hello, "OK"))
    \o Gets("server", "uad", 1, Hello, FALSE)
    \o Gets("bob", "uad", 1, Hello, FALSE)
    \o Gets("charlie", "uad", 1, Hello, FALSE)

\* Alice or Bob sends a secret: the Server gets it, the other one of them gets
\* it or not, Charlie is not concerned.
SecretSent(party, sid, toOther) ==
    Builds(party, "sadfd", BuildsSecuredFd(SAB, Secret, "OK"))
    \o Gets("server", "sadfd", sid, Secret, TRUE)
    \o toOther
    \o Ignores("charlie", "sadfd")

BobGetsIt == Gets("bob", "sadfd", 1, Secret, TRUE)

\* The Server answers the Request of Alice or Bob, who takes the Response that
\* the other one and Charlie hear too.
ResponseTaken(party, other) ==
    Accepts(party, "res") \o Ignores(other, "res") \o Ignores("charlie", "res")

RequestAnswered(party, other, req) == Answers("server", req, "res") \o ResponseTaken(party, other)

RequestSent(party, other) ==
    Builds(party, "req", BuildsRequest(SAB, "OK"))
    \o Answers("server", "req", "res")
    \o Ignores(other, "req") \o Ignores("charlie", "req")
    \o ResponseTaken(party, other)

InitialisationPhase ==
    RequestSent("alice", "bob")
    \o SecretSent("alice", 1, Refuses("bob", "sadfd", "SESSION_NOT_ESTABLISHED"))
    \o RequestSent("bob", "alice")
    \o SecretSent("alice", 1, BobGetsIt)
    \o <<By("charlie", BuildsRequest(SAB, "UNKNOWN_GROUP")), By("charlie", SentNothing)>>

\* Bob is slower than Alice. His secrets are still heard, hers he cannot read.
RenewalPhase ==
    Builds("server", "ren", Forces(SAB, "OK"))
    \o Answers("alice", "ren", "reqAlice")
    \o Answers("bob", "ren", "reqBob")
    \o Ignores("charlie", "ren")
    \o RequestAnswered("alice", "bob", "reqAlice")
    \o SecretSent("alice", 1, Refuses("bob", "sadfd", "SECWARN_INVALID_TAG"))
    \o SecretSent("bob", 2, Gets("alice", "sadfd", 2, Secret, TRUE))
    \o RequestAnswered("bob", "alice", "reqBob")
    \o SecretSent("alice", 1, BobGetsIt)

\* main
Scripts ==
    <<Script([server |-> <<>>, alice |-> <<>>, bob |-> <<>>, charlie |-> <<>>],
             BusInit \o UadExchange \o InitialisationPhase \o RenewalPhase)>>
=============================================================================
