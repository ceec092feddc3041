-------------------------------- MODULE Bus --------------------------------
(***************************************************************************)
(* The Server and Clients of one Group on a bus. A message on the bus is   *)
(* received by any party, any number of times and in any order, until      *)
(* others take its place: it may be lost, repeated, delayed, overtaken. A  *)
(* party reacts with one call of its API, and its reaction goes onto the   *)
(* bus. All have the same idea of the milliseconds that pass.              *)
(***************************************************************************)
EXTENDS ServerSession, FiniteSets

CONSTANTS
    Clients,                      \* the SIDs of the Clients on the bus
    TimeoutReqToResMillis,        \* of every Client
    SessionRenewalDurationMillis, \* of every Client
    MaxReqnonce,                  \* bound: how many Requests' nonces there are
    MaxInFlight,                  \* bound: how many messages the bus holds
    Senders,                      \* which parties send application data
    Forced,                       \* whether the user forces renewals
    Restarting,                   \* which parties may restart
    ClockSteps                    \* bound: how far the clock moves between two calls

C(sid) == INSTANCE ClientSession WITH OwnSid <- sid

ASSUME ClientsAssumption == Clients \subseteq GroupSids /\ IoFaults = {}
ASSUME PartiesAssumption == Senders \cup Restarting \subseteq Clients \cup {0}
ASSUME BusAssumption == MaxInFlight \in Nat \ {0} /\ MaxReqnonce >= MaxInFlight + 2
ASSUME BusClockAssumption == ClockSteps \subseteq Nat \ {0}

VARIABLES
    now,    \* what currentTime returns, to everyone
    server, \* groupStates[gid] of the Server
    client, \* by Client: its groupStates[i] of the Group
    bus     \* the messages that can be received

vars == <<now, server, client, bus>>

----------------------------------------------------------------------------
(* The bus *)

\* The messages out are transmitted; when the bus is full others are lost.
Transmit(out) ==
    IF Cardinality(bus \cup out) <= MaxInFlight
    THEN bus' = bus \cup out
    ELSE \E kept \in SUBSET (bus \ out) :
            /\ Cardinality(kept) = MaxInFlight - Cardinality(out)
            /\ bus' = kept \cup out

ServerReturn(o) ==
    /\ server' = o.group
    /\ Transmit(o.out)
    /\ UNCHANGED <<now, client>>

ClientReturn(c, o) ==
    /\ client' = [client EXCEPT ![c] = o.group]
    /\ Transmit(o.out)
    /\ UNCHANGED <<now, server>>

\* A key never drawn before.
FreshStk == server.currentStk + 1

\* The nonce of a Client's next Request: one that nobody remembers, which
\* stands for one never drawn before.
FreshReqnonces(c) ==
    LET inUse == {client[c].requestNonce}
                 \cup {m.reqnonce : m \in {x \in bus : x.pty \in {"REQ", "RES"}}}
    IN  {n \in 1 .. MaxReqnonce : n \notin inUse /\ 1 .. n - 1 \subseteq inUse}

----------------------------------------------------------------------------
(* Actions *)

Init ==
    /\ now = 0
    /\ server = ServerStartedSession(now, 1)
    /\ client = [c \in Clients |-> C(c)!ClientClearedState]
    /\ bus = {}

Tick ==
    /\ \E d \in ClockSteps : now' = (now + d) % TimestampDomainSize
    /\ UNCHANGED <<server, client, bus>>

\* hzl_ServerDeInit and hzl_ServerInit; hzl_ClientDeInit and hzl_ClientInit.
ServerRestart ==
    /\ 0 \in Restarting
    /\ FreshStk \in Stk
    /\ server' = ServerStartedSession(now, FreshStk)
    /\ UNCHANGED <<now, client, bus>>

ClientRestart(c) ==
    /\ c \in Restarting
    /\ client' = [client EXCEPT ![c] = C(c)!ClientClearedState]
    /\ UNCHANGED <<now, server, bus>>

ServerForce ==
    /\ Forced
    /\ \E o \in ServerForceSessionRenewal(server, now, FreshStk) : ServerReturn(o)

ServerSend ==
    /\ 0 \in Senders
    /\ \E o \in ServerBuildSecuredFd(server) : ServerReturn(o)

ClientSend(c) ==
    /\ c \in Senders
    /\ \E o \in C(c)!ClientBuildSecuredFd(client[c]) : ClientReturn(c, o)

ClientAsk(c) ==
    \E n \in FreshReqnonces(c) :
        \E o \in C(c)!ClientBuildRequest(client[c], now, n) : ClientReturn(c, o)

\* hzl_ServerProcessReceived. Its own messages do not come back to it.
ServerReceive(m) ==
    \/ /\ m.pty = "REQ"
       /\ \E o \in ServerProcessReceivedRequest(server, m, TRUE, now) : ServerReturn(o)
    \/ /\ m.pty = "SADFD" /\ m.sid # 0
       /\ \E o \in ServerProcessReceivedSecuredFd(server, m, TRUE, now, FreshStk) : ServerReturn(o)

\* hzl_ClientProcessReceived. A Client ignores Requests.
ClientReceive(c, m) ==
    \/ /\ m.pty = "RES"
       /\ \E o \in C(c)!ClientProcessReceivedResponse(client[c], m, TRUE, now) : ClientReturn(c, o)
    \/ /\ m.pty = "REN"
       /\ \E n \in FreshReqnonces(c) :
            \E o \in C(c)!ClientProcessReceivedRenewal(client[c], m, TRUE, now, n) :
                ClientReturn(c, o)
    \/ /\ m.pty = "SADFD" /\ m.sid # c
       /\ \E o \in C(c)!ClientProcessReceivedSecuredFd(client[c], m, TRUE, now) : ClientReturn(c, o)

Next ==
    \/ Tick
    \/ ServerRestart
    \/ ServerForce
    \/ ServerSend
    \/ \E m \in bus : ServerReceive(m)
    \/ \E c \in Clients : ClientRestart(c) \/ ClientSend(c) \/ ClientAsk(c)
    \/ \E c \in Clients, m \in bus : ClientReceive(c, m)

Spec == Init /\ [][Next]_vars

----------------------------------------------------------------------------
(* Fairness: of the user, who keeps asking, and of the bus, which delivers *)
(* some of the answers in time. Nothing is assumed of renewals, of restarts *)
(* and of application data.                                                *)

ServerAnswers(c) ==
    \E m \in bus :
        /\ m.pty = "REQ" /\ m.sid = c
        /\ m.reqnonce = client[c].requestNonce
        /\ C(c)!ClientIsResponseAcceptable(client[c], now)
        /\ ServerReceive(m)

ClientIsAnswered(c) ==
    \E m \in bus :
        /\ m.pty = "RES"
        /\ ClientReceive(c, m)

Fairness ==
    /\ WF_vars(Tick)
    /\ \A c \in Clients : /\ SF_vars(ClientAsk(c))
                          /\ SF_vars(ServerAnswers(c))
                          /\ SF_vars(ClientIsAnswered(c))

FairSpec == Spec /\ Fairness

----------------------------------------------------------------------------
(* Properties *)

\* The Group's keys, whatever happens to messages and parties: no Client is
\* ahead of the Server or moves back; one that keeps asking always catches up.
Keys == INSTANCE GroupKeys WITH
            Members <- Clients,
            latest  <- server.currentStk,
            held    <- [c \in Clients |-> client[c].currentStk]

KeysPromise == Keys!FairSpec

\* What the Server does with the message a Client would build now.
ServerHears(c) ==
    \A b \in C(c)!ClientBuildSecuredFd(client[c]) : \A m \in b.out :
        \A o \in ServerProcessReceivedSecuredFd(server, m, TRUE, now, FreshStk) :
            o.err # "REFUSED"

\* Likewise for another Client.
ClientHears(d, c) ==
    \A b \in C(c)!ClientBuildSecuredFd(client[c]) : \A m \in b.out :
        \A o \in C(d)!ClientProcessReceivedSecuredFd(client[d], m, TRUE, now) :
            o.err = "OK"

\* A renewal phase lasts at most as many messages as 2 * MaxCtrnonceDelayMsgs.
\* If the Session before it went further than that, the average of the two
\* counter nonces tells their messages apart. A Session that expires or is
\* renewed by force earlier has no such luck, and the messages of the next one
\* are then refused for a while.
IsToldApart(group) ==
    group.previousStk \in {NoStk, group.currentStk}
        \/ group.previousCtrNonce > 2 * MaxCtrnonceDelayMsgs

\* The Server lets a Client that shares its Session, and missed none of its
\* messages, be heard: in or out of a renewal phase, a message of the current
\* Session is not mistaken for one of the previous Session.
InStepIsHeard ==
    \A c \in Clients :
        /\ IsToldApart(server)
        /\ client[c].currentStk = server.currentStk
        /\ client[c].currentCtrNonce = server.currentCtrNonce
        => ServerHears(c)

\* Until its renewal phase is over the Server hears a slow Client that missed
\* none of the messages of the Session before.
SlowIsHeard ==
    \A c \in Clients :
        /\ IsToldApart(server)
        /\ ServerPhaseIsActive(server)
        /\ ~ServerPhaseIsOver(server, now)
        /\ client[c].currentStk = server.previousStk
        /\ client[c].currentCtrNonce = server.previousCtrNonce
        => ServerHears(c)

\* Until a Client in a renewal phase has its Response both its Sessions are the
\* same one, with two counter nonces. Messages that were heard move either of
\* them on, and what is behind that one by 1 is accepted by the tolerance only,
\* of which nothing is left after a silence of MaxSilenceIntervalMillis.
IsTolerant(group) ==
    group.previousStk = group.currentStk =>
        CtrDelay(group.previousRxLastMessageInstant, now) > 0

\* Clients that hold the same key and expect the same counter nonce hear one
\* another, whichever of them is in a renewal phase.
ClientsHearEachOther ==
    \A c, d \in Clients :
        /\ c # d
        /\ IsToldApart(client[d])
        /\ IsTolerant(client[d])
        /\ client[c].currentStk = client[d].currentStk
        /\ client[c].currentCtrNonce = client[d].currentCtrNonce
        => ClientHears(d, c)

\* When the Server refuses to transmit, for it thinks that the Session has no
\* receiver, no Client has its key.
DeafMeansAlone ==
    ~ServerDidAnyClientAlreadyRequest(server) =>
        \A c \in Clients : client[c].currentStk # server.currentStk
=============================================================================
