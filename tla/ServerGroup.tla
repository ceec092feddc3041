---------------------------- MODULE ServerGroup ----------------------------
(***************************************************************************)
(* One Group of the Server as a state machine: a clock, the Group's state, *)
(* and one action per function of the Server's API that reads or changes   *)
(* it. The messages it receives are those its Clients may have built:      *)
(* protected under any key handed out so far, with any counter nonce,      *)
(* intact or not, in any order and any number of times.                    *)
(***************************************************************************)
EXTENDS ServerSession, FiniteSets

CONSTANTS
    ClockSteps \* bound: how far the clock moves between two calls, in milliseconds

ASSUME ClockStepsAssumption == ClockSteps \subseteq Nat \ {0}

VARIABLES
    now,    \* what currentTime returns
    group,  \* groupStates[gid]
    ret     \* what the last call returned: error, PDU to transmit, user data

\* History: not in the code, only in what is said about it.
VARIABLES
    issued, \* how many STKs have been drawn
    known,  \* the STKs handed out in a Response
    served, \* a Client's message has been accepted in the current Session
    used    \* by STK the Group holds: the counter nonces up to the largest the
            \* Server protected a message with or accepted one with

vars == <<now, group, ret, issued, known, served, used>>

Nonces == 0 .. 1 \* a Request's nonce: all-zeros or not; no other difference matters here

Pdus == {Res(s, n, k, c) : s \in GroupSids, n \in Nonces \ {0}, k \in Stk, c \in Ctrnonce}
        \cup {Ren(k, c) : k \in Stk, c \in Ctrnonce}
        \cup {Sadfd(0, k, c) : k \in Stk, c \in Ctrnonce}

Sdus == {Sadfd(s, k, c) : s \in GroupSids, k \in Stk, c \in Ctrnonce}

Returns == [err : {"NONE", "OK", "REFUSED", "NO_RECEIVER", "FAILED"},
            out : SUBSET Pdus,
            sdu : SUBSET Sdus]

Nothing == [err |-> "NONE", out |-> {}, sdu |-> {}]

----------------------------------------------------------------------------
(* History *)

Larger(a, b) == IF a > b THEN a ELSE b

\* The counter nonces the messages of this set use up under key k.
UsedBy(msgs, k) ==
    {m.ctrnonce : m \in {x \in msgs : x.pty \in {"REN", "SADFD"} /\ x.stk = k}}

\* The messages of an outcome use up their counter nonces; keys no longer held
\* are forgotten, as no later draw repeats them.
UsedAfter(o) ==
    [k \in 1 .. MaxStk |->
        IF k \in {o.group.currentStk, o.group.previousStk}
        THEN used[k] \cup UpTo(UsedBy(o.out \cup o.sdu, k))
        ELSE {}]

\* The steps of every call: its outcome becomes the state and what it returned.
Return(o) ==
    /\ group' = o.group
    /\ ret' = [err |-> o.err, out |-> o.out, sdu |-> o.sdu]
    /\ issued' = Larger(issued, o.group.currentStk)
    /\ known' = known \cup {m.stk : m \in {x \in o.out : x.pty = "RES"}}
    /\ used' = UsedAfter(o)
    /\ UNCHANGED now

----------------------------------------------------------------------------
(* Actions *)

Init ==
    /\ now = 0
    /\ group = ServerStartedSession(now, 1)
    /\ ret = Nothing
    /\ issued = 1
    /\ known = {}
    /\ served = FALSE
    /\ used = [k \in 1 .. MaxStk |-> {}]

Tick ==
    /\ \E d \in ClockSteps : now' = (now + d) % TimestampDomainSize
    /\ ret' = Nothing
    /\ UNCHANGED <<group, issued, known, served, used>>

\* hzl_ServerDeInit and hzl_ServerInit: a new Session, the renewal phase forgotten.
Restart ==
    /\ issued < MaxStk
    /\ Return(Outcome("OK", ServerStartedSession(now, issued + 1), {}, {}))
    /\ served' = FALSE

ReceiveRequest ==
    \E sid \in Sid \ {0}, reqnonce \in Nonces, intact \in BOOLEAN :
        \E o \in ServerProcessReceivedRequest(group, Req(sid, reqnonce), intact, now) :
            /\ Return(o)
            /\ served' = (served \/ o.err # "REFUSED")

ReceiveSecuredFd ==
    \E sid \in Sid \ {0}, stk \in known \ {NoStk}, ctrnonce \in Ctrnonce, intact \in BOOLEAN :
        LET m == Sadfd(sid, stk, ctrnonce)
        IN  \E o \in ServerProcessReceivedSecuredFd(group, m, intact, now, issued + 1) :
                /\ Return(o)
                /\ served' = /\ served \/ (o.sdu # {} /\ stk = group.currentStk)
                             /\ o.group.currentStk = group.currentStk

BuildSecuredFd ==
    \E o \in ServerBuildSecuredFd(group) :
        /\ Return(o)
        /\ UNCHANGED served

ForceSessionRenewal ==
    \E o \in ServerForceSessionRenewal(group, now, issued + 1) :
        /\ Return(o)
        /\ served' = (served /\ o.group.currentStk = group.currentStk)

Next ==
    \/ Tick
    \/ Restart
    \/ ReceiveRequest
    \/ ReceiveSecuredFd
    \/ BuildSecuredFd
    \/ ForceSessionRenewal

Spec == Init /\ [][Next]_vars
----------------------------------------------------------------------------
(* Properties *)

\* Every field of the Group's state stays in the range of its C type; in
\* particular both counter nonces stop at HZL_MAX_CTRNONCE.
TypeOK ==
    /\ now \in Timestamp
    /\ group \in ServerGroupState
    /\ ret \in Returns
    /\ issued \in 1 .. MaxStk
    /\ known \subseteq Stk
    /\ served \in BOOLEAN
    /\ used \in [1 .. MaxStk -> SUBSET Ctrnonce]

\* Whenever the Server considers that it has a receiver for secured messages,
\* some Client did have a message accepted in the current Session
\* (hzl_ServerDidAnyClientAlreadyRequest compares two instants to know it).
ReceiverIsReal == ServerDidAnyClientAlreadyRequest(group) => served

\* The Server does not forget that it has a receiver, not even when the message
\* arrived in the millisecond the Session started in, nor after a roll-around.
ReceiverNotForgotten == served => ServerDidAnyClientAlreadyRequest(group)

\* In a renewal phase the two Sessions have different keys, and the current
\* one is a key: the phase really is a change of key.
RenewalChangesStk ==
    ServerPhaseIsActive(group) => /\ group.previousStk # group.currentStk
                                  /\ group.currentStk # NoStk

\* The counter nonces stay above every one used with their key, until they
\* saturate: neither the end of a phase, nor a REN, nor a late message lowers one.
CtrnonceAhead ==
    /\ \/ group.currentStk = NoStk
       \/ CtrnonceIsExpired(group.currentCtrNonce)
       \/ group.currentCtrNonce \notin used[group.currentStk]
    /\ \/ group.previousStk = NoStk
       \/ CtrnonceIsExpired(group.previousCtrNonce)
       \/ group.previousCtrNonce \notin used[group.previousStk]

\* The Server never protects two messages with the same key and counter nonce,
\* nor with one it accepted from a Client, as long as it is not expired.
NeverReusesCtrnonce ==
    [][\A m \in ret'.out : m.pty \in {"REN", "SADFD"} /\ m.stk # NoStk =>
        \/ CtrnonceIsExpired(m.ctrnonce)
        \/ m.ctrnonce \notin used[m.stk]]_vars

LastRxInstant(stk) ==
    IF stk = group.previousStk
    THEN group.previousRxLastMessageInstant
    ELSE group.currentRxLastMessageInstant

\* A counter nonce that was used already is accepted (a late or repeated
\* message) only while its Session was heard within maxSilenceIntervalMillis,
\* and only within maxCtrnonceDelayMsgs of the local counter nonce.
OldOnlyWhenRecent ==
    [][\A m \in ret'.sdu : m.ctrnonce \in used[m.stk] =>
        /\ TimeDelta(LastRxInstant(m.stk), now) < MaxSilenceIntervalMillis
        /\ \A c \in used[m.stk] : c - m.ctrnonce <= MaxCtrnonceDelayMsgs]_vars

\* User data under the previous key is delivered only during the renewal
\* phase: 6 REN delays at most after the new Session started, and before its
\* counter nonce shows that the Group has moved on.
PreviousStkOnlyInPhase ==
    [][\A m \in ret'.sdu : m.stk # group.currentStk =>
        /\ m.stk = group.previousStk
        /\ ~ServerPhaseIsOver(group, now)]_vars

\* A new Session is opened only once the renewal phase of the last one is
\* over, so that no Client loses both keys it may hold. It needs
\* ctrNonceUpperLimit >= 2 * maxCtrnonceDelayMsgs, which hzl_ServerInit does not check.
NoRenewalWithinRenewal ==
    [][\A m \in ret'.out : m.pty = "REN" /\ m.stk = group.currentStk =>
        \/ ~ServerPhaseIsActive(group)
        \/ ServerPhaseIsOver(group, now)
        \/ \E d \in ret'.sdu : /\ d.stk = group.currentStk
                               /\ Advanced(group.currentCtrNonce, d.ctrnonce)
                                    >= 2 * MaxCtrnonceDelayMsgs]_vars

\* A REN is only ever built under a key handed out to some Client: someone
\* can verify it. It needs a working trng.
RenHasReceiver == [][\A m \in ret'.out : m.pty = "REN" => m.stk \in known]_vars

----------------------------------------------------------------------------
(* What the documentation and the comments say, which the code does not do. *)

\* "checking if the Counter Nonce has reached is maximum and it should not be
\* used anymore" (hzl_CommonInternal.h:65-66)
ExpiredCtrnonceNotUsed ==
    [][\A m \in ret'.out : m.pty = "SADFD" => ~CtrnonceIsExpired(m.ctrnonce)]_vars

\* The output struct for user data is "full of zeros in case of errors"
\* (hzl_Server.h:527-528, hzl_ServerProcessReceived)
NoUserDataOnError == ret.err = "FAILED" => ret.sdu = {}

\* "The array of Client configurations must have all SIDs from 1 to
\* amountOfClients without gaps, extremes included": each of these Clients,
\* if in the Group, has its valid Request answered.
EveryClientIsServed ==
    \A sid \in GroupSids :
        \A o \in ServerProcessReceivedRequest(group, Req(sid, 1), TRUE, now) : o.err # "REFUSED"

\* hzl_ServerForceSessionRenewal starts a renewal phase "unless one is already
\* ongoing or no Clients are currently enabled": a phase that is over is not
\* ongoing.
ForceStartsRenewal ==
    ServerDidAnyClientAlreadyRequest(group) /\ ServerPhaseIsOver(group, now) =>
        \A o \in ServerForceSessionRenewal(group, now, issued + 1) :
            o.group.currentStk # group.currentStk

\* The assumption of hzl_TimeDelta is "that the end timestamp represents an
\* instant after start" (hzl_CommonInternal.h:114-116): the last reception of
\* a Session is not later than now, so less time passed since it than since
\* the Session's start.
LastReceptionIsPast ==
    TimeDelta(group.currentRxLastMessageInstant, now) <= TimeDelta(group.sessionStartInstant, now)
=============================================================================
