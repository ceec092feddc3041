---------------------------- MODULE ClientGroup ----------------------------
(***************************************************************************)
(* One Group of a Client as a state machine: a clock, the Group's state,   *)
(* and one action per function of the Client's API that reads or changes   *)
(* it. The rest of the bus is its environment: a Server that opens         *)
(* Sessions and answers Requests with the one current at that moment,      *)
(* other parties that use any Session opened so far. Messages arrive in    *)
(* any order, any number of times, or never.                               *)
(***************************************************************************)
EXTENDS ClientSession, Sequences

CONSTANTS
    ClockSteps \* bound: how far the clock moves between two calls, in milliseconds

ASSUME ClockStepsAssumption == ClockSteps \subseteq Nat \ {0}

VARIABLES
    now,    \* what currentTime returns
    group,  \* groupStates[i] of the Group
    ret     \* what the last call returned: error, PDU to transmit, user data

\* History: not in the code, only in what is said about it.
VARIABLES
    issued,      \* the number of the Session the Server has open, 0 before its first
    asked,       \* for each Request built, the Session the Server had open then
    requestedAt, \* when the last Request was built
    sent,        \* the counter nonces up to the largest this Client protected a
                 \* message with since the last Response it accepted
    heard,       \* likewise for the messages it accepted under the current key
                 \* and those the Response said were used already
    answered     \* no REN was accepted since the last Response accepted

vars == <<now, group, ret, issued, asked, requestedAt, sent, heard, answered>>

Pdus == {Req(OwnSid, n) : n \in Reqnonce \ {0}}
        \cup {Sadfd(OwnSid, k, c) : k \in Stk, c \in Ctrnonce}

Sdus == {Sadfd(0, k, c) : k \in Stk, c \in Ctrnonce}

Returns == [err : {"NONE", "OK", "REFUSED", "NO_SESSION", "ONGOING", "FAILED"},
            out : SUBSET Pdus,
            sdu : SUBSET Sdus]

Nothing == [err |-> "NONE", out |-> {}, sdu |-> {}]

----------------------------------------------------------------------------
(* History *)

Requests(msgs) == {m \in msgs : m.pty = "REQ"}

\* The steps of every call: its outcome becomes the state and what it returned.
Return(o) ==
    /\ group' = o.group
    /\ ret' = [err |-> o.err, out |-> o.out, sdu |-> o.sdu]
    /\ IF Requests(o.out) = {}
       THEN UNCHANGED <<asked, requestedAt>>
       ELSE asked' = Append(asked, issued) /\ requestedAt' = now
    /\ UNCHANGED <<now, issued>>

----------------------------------------------------------------------------
(* Actions *)

Init ==
    /\ now = 0
    /\ group = ClientClearedState
    /\ ret = Nothing
    /\ issued = 1
    /\ asked = <<>>
    /\ requestedAt = 0
    /\ sent = {}
    /\ heard = {}
    /\ answered = TRUE

Tick ==
    /\ \E d \in ClockSteps : now' = (now + d) % TimestampDomainSize
    /\ ret' = Nothing
    /\ UNCHANGED <<group, issued, asked, requestedAt, sent, heard, answered>>

\* The Server opens its next Session.
ServerRenews ==
    /\ issued < MaxStk
    /\ issued' = issued + 1
    /\ ret' = Nothing
    /\ UNCHANGED <<now, group, asked, requestedAt, sent, heard, answered>>

\* hzl_ClientDeInit and hzl_ClientInit: every Session is forgotten.
Restart ==
    /\ Return(Outcome("OK", ClientClearedState, {}, {}))
    /\ sent' = {}
    /\ heard' = {}
    /\ answered' = TRUE

BuildRequest ==
    \E o \in ClientBuildRequest(group, now, Len(asked) + 1) :
        /\ Return(o)
        /\ UNCHANGED <<sent, heard, answered>>

\* A Response carries a Session the Server had open when, or after, the
\* Request was built.
ReceiveResponse ==
    \E n \in 1 .. Len(asked), client \in {OwnSid, OwnSid + 1},
       ctrnonce \in Ctrnonce, intact \in BOOLEAN :
        \E stk \in asked[n] .. issued :
            \E o \in ClientProcessReceivedResponse(
                        group, Res(client, n, stk, ctrnonce), intact, now) :
                /\ Return(o)
                /\ sent' = IF o.err = "OK" THEN {} ELSE sent
                /\ heard' = IF o.err = "OK" THEN UpTo({ctrnonce - 1}) ELSE heard
                /\ answered' = (answered \/ o.err = "OK")

\* A REN is built under a key that is not the Server's current one anymore.
ReceiveRenewal ==
    \E stk \in 1 .. issued - 1, ctrnonce \in Ctrnonce, intact \in BOOLEAN :
        \E o \in ClientProcessReceivedRenewal(
                    group, Ren(stk, ctrnonce), intact, now, Len(asked) + 1) :
            /\ Return(o)
            /\ answered' = (answered /\ o.err \in {"REFUSED", "NO_SESSION"})
            /\ UNCHANGED <<sent, heard>>

ReceiveSecuredFd ==
    \E stk \in 1 .. issued, ctrnonce \in Ctrnonce, intact \in BOOLEAN :
        \E o \in ClientProcessReceivedSecuredFd(
                    group, Sadfd(0, stk, ctrnonce), intact, now) :
            /\ Return(o)
            /\ heard' = heard \cup UpTo({m.ctrnonce : m \in {x \in o.sdu : x.stk = group.currentStk}})
            /\ UNCHANGED <<sent, answered>>

BuildSecuredFd ==
    \E o \in ClientBuildSecuredFd(group) :
        /\ Return(o)
        /\ sent' = sent \cup UpTo({m.ctrnonce : m \in o.out})
        /\ UNCHANGED <<heard, answered>>

Next ==
    \/ Tick
    \/ ServerRenews
    \/ Restart
    \/ BuildRequest
    \/ ReceiveResponse
    \/ ReceiveRenewal
    \/ ReceiveSecuredFd
    \/ BuildSecuredFd

Spec == Init /\ [][Next]_vars
----------------------------------------------------------------------------
(* Properties *)

\* Every field of the Group's state stays in the range of its C type; in
\* particular both counter nonces stop at HZL_MAX_CTRNONCE.
TypeOK ==
    /\ now \in Timestamp
    /\ group \in ClientGroupState
    /\ ret \in Returns
    /\ issued \in 1 .. MaxStk
    /\ asked \in Seq(1 .. MaxStk)
    /\ requestedAt \in Timestamp
    /\ sent \subseteq Ctrnonce
    /\ heard \subseteq Ctrnonce
    /\ answered \in BOOLEAN

\* As long as it runs a Client never goes back to the key of an earlier
\* Session, whatever the order the Responses to its Requests arrive in.
StkNeverGoesBack ==
    [][group'.currentStk = NoStk \/ group'.currentStk >= group.currentStk]_vars

\* A renewal phase whose Request was answered is a change of key: from the key
\* of an earlier Session to that of a later one.
RenewalChangesStk ==
    ClientPhaseIsActive(group) /\ answered => group.previousStk < group.currentStk

\* Between two Responses a Client never protects two messages with the same
\* counter nonce, not even when a renewal phase begins or ends in between.
NeverReusesCtrnonce ==
    [][\A m \in ret'.out : m.pty = "SADFD" => m.ctrnonce \notin sent]_vars

\* A Client has one handshake at a time: another Request leaves only when the
\* last one was answered, forgotten by a restart, or its timeout is over.
OneHandshakeAtATime ==
    [][\A m \in ret'.out : m.pty = "REQ" =>
        \/ group.requestNonce = NotExpectingAResponse
        \/ TimeDelta(requestedAt, now) > TimeoutReqToResMillis]_vars

\* A counter nonce at or below one accepted since the Response is accepted (a
\* late or repeated message) only while the Session was heard within
\* maxSilenceIntervalMillis, and only within maxCtrnonceDelayMsgs of the last
\* one. It holds as long as no Request made by a REN is left without answer.
OldOnlyWhenRecent ==
    [][\A m \in ret'.sdu : answered /\ m.stk = group.currentStk /\ m.ctrnonce \in heard =>
        /\ TimeDelta(group.currentRxLastMessageInstant, now) < MaxSilenceIntervalMillis
        /\ \A c \in heard : c - m.ctrnonce <= MaxCtrnonceDelayMsgs]_vars

----------------------------------------------------------------------------
(* What the documentation and the comments say, which the code does not do. *)

\* A REN can be processed "when the Group is not in a handshake and is not in
\* the Session renewal phase" (hzl_ClientInternal.h:152-153), a handshake being
\* "waiting for a Response but timeout was not reached yet" (114-115).
RenewalAcceptableOutsideHandshake ==
    /\ ClientIsSessionEstablishedAndValid(group)
    /\ ~ClientIsAHandshakeOngoing(group, now)
    /\ ~ClientPhaseIsActive(group)
    => ClientIsRenewalAcceptable(group)
=============================================================================
