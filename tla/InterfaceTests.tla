--------------------------- MODULE InterfaceTests ---------------------------
(***************************************************************************)
(* The repository's tests of the Server's and the Client's interface, and  *)
(* of both on a bus, replayed on the calls of ServerCalls and ClientCalls: *)
(* a behaviour is one test, a step of it is a step of the test's script.   *)
(* The clock and the random generator are the mockup's, or stand for the   *)
(* operating system's.                                                     *)
(*                                                                         *)
(* A test checks one line at a time what the model checker checks of every *)
(* state of the other modules: here it is the model that is checked.       *)
(***************************************************************************)
EXTENDS Scripts, Domains

CONSTANTS
    MaxReqnonce \* bound: the largest nonce of a Request

S == INSTANCE ServerTests
C == INSTANCE ClientTests
I == INSTANCE InteropTests

\* The loads of Loading, of a file by the Server or a Client.
L(side, content) ==
    INSTANCE Loading WITH
        Roles <- {"server", "client"}, MaxEdits <- 0,
        role <- side, file <- content, edits <- 0, heap <- {}, held <- FALSE,
        err <- "NONE", stale <- {}

VARIABLES
    test,  \* the suite the test is of and its number there
    steps, \* the steps of its script
    at,    \* the one that is next
    ctxs,  \* the contexts, by the name of the party
    pdus,  \* the PDUs kept, by the name of the variable
    clock, \* what the clock reads next
    last   \* what the last call returned

vars == <<test, steps, at, ctxs, pdus, clock, last>>

Suites == [server |-> S!Scripts, client |-> C!Scripts, files |-> I!FileScripts, interop |-> I!Scripts]

\* The suites that use what the operating system provides.
IsOnOs == test.suite \in {"files", "interop"}

step == steps[at]

\* The others are about one party each.
Party == IF IsOnOs THEN step.party ELSE test.suite

ctx == ctxs[Party]

----------------------------------------------------------------------------
(* The environment *)

\* A reading moves the mockup's clock by a second; the real one hardly moves.
Reading == IF IsOnOs THEN 1 ELSE MillisPerReading

\* The mockup always draws the same; the operating system never does.
FreshStk(i) == IF IsOnOs THEN 200 * i + at ELSE TestStk
FreshReqnonce == IF IsOnOs THEN at ELSE TestReqnonce

----------------------------------------------------------------------------
(* Calls *)

Calls ==
    {"New", "Init", "DeInit", "Receive", "BuildUnsecured", "BuildSecuredFd", "BuildRequest",
     "ForceSessionRenewal"}

\* The PDU received is written in the test, or was built before.
ReceiveCall ==
    IF "from" \in DOMAIN step THEN With(step, [pdu |-> pdus[step.from]]) ELSE step

\* A load that does not fail on the way ends with an initialisation.
NewReplies(side, initialised) ==
    LET failed == L(side, step.file)!FailedStep(step.short)
    IN  IF failed = {} THEN initialised
        ELSE {S!Reply(L(side, step.file)!StepError(n, step.short), ctx, {}, {}) : n \in failed}

ServerReplies ==
    LET init(c) == S!ServerInit(c, clock, [i \in DOMAIN c.states |-> FreshStk(i)])
    IN  CASE step.do = "New" -> NewReplies("server", init(step.file.config))
          [] step.do = "Init" -> init(ctx)
          [] step.do = "DeInit" -> S!ServerDeInit(ctx)
          [] step.do = "Receive" -> S!ServerProcessReceived(ctx, ReceiveCall, clock, FreshStk(0))
          [] step.do = "BuildUnsecured" -> S!ServerBuildUnsecured(ctx, step)
          [] step.do = "BuildSecuredFd" -> S!ServerBuildSecuredFd(ctx, step)
          [] step.do = "ForceSessionRenewal" ->
                S!ServerForceSessionRenewal(ctx, step, clock, FreshStk(0))

ClientReplies ==
    CASE step.do = "New" -> NewReplies("client", C!ClientInit(step.file.config))
      [] step.do = "Init" -> C!ClientInit(ctx)
      [] step.do = "DeInit" -> C!ClientDeInit(ctx)
      [] step.do = "Receive" -> C!ClientProcessReceived(ctx, ReceiveCall, clock, FreshReqnonce)
      [] step.do = "BuildUnsecured" -> C!ClientBuildUnsecured(ctx, step)
      [] step.do = "BuildSecuredFd" -> C!ClientBuildSecuredFd(ctx, step)
      [] step.do = "BuildRequest" -> C!ClientBuildRequest(ctx, step, clock, FreshReqnonce)

\* A mocked function that may fail always does: of the replies, those where it did.
Replies ==
    LET all    == IF Party = "server" THEN ServerReplies ELSE ClientReplies
        failed == {r \in all : r.err = "FAILED"}
    IN  IF failed # {} THEN failed ELSE all

\* hzl_ServerInit reads the clock once per Group; a call that reads it twice
\* is here one that reads it once.
ReadingsOfCall ==
    IF step.do = "Init" /\ Party = "server" THEN ctx.amountOfGroups
    ELSE IF step.do \in {"Receive", "BuildRequest", "ForceSessionRenewal"} THEN 1
    ELSE 0

CallStep ==
    /\ step.do \in Calls
    /\ \E r \in Replies :
        /\ ctxs' = [ctxs EXCEPT ![Party] = r.ctx]
        /\ last' = [err |-> r.err, out |-> r.out, sdu |-> r.sdu]
        /\ pdus' = IF "into" \in DOMAIN step
                   THEN With(pdus, [p \in {step.into} |-> CHOOSE pdu \in r.out : TRUE])
                   ELSE pdus
    /\ clock' = clock + Reading * ReadingsOfCall

----------------------------------------------------------------------------
(* What a test does itself *)

Writes == {"Configure", "Set", "Read", "Hear"}

WrittenFields ==
    CASE step.do = "Set" -> step.fields
      [] step.do = "Read" -> [f \in {step.field} |-> clock]
      [] step.do = "Hear" ->
            [currentRxLastMessageInstant |-> ctx.states[step.g + 1].sessionStartInstant + 1]

WriteStep ==
    /\ step.do \in Writes
    /\ ctxs' = IF step.do = "Configure"
               THEN [ctxs EXCEPT ![Party] = With(@, step.fields)]
               ELSE [ctxs EXCEPT ![Party].states[step.g + 1] = With(@, WrittenFields)]
    /\ clock' = IF step.do = "Read" THEN clock + MillisPerReading ELSE clock
    /\ UNCHANGED <<pdus, last>>

WaitStep ==
    /\ step.do = "Wait"
    /\ clock' = clock + step.n * MillisPerReading
    /\ UNCHANGED <<ctxs, pdus, last>>

AssertStep ==
    /\ step.do \notin Calls \cup Writes \cup {"Wait"}
    /\ UNCHANGED <<ctxs, pdus, clock, last>>

Step ==
    /\ at <= Len(steps)
    /\ at' = at + 1
    /\ UNCHANGED <<test, steps>>
    /\ \/ CallStep
       \/ WriteStep
       \/ WaitStep
       \/ AssertStep

\* The test is over. One that cannot go on before is a deadlock.
Over == at > Len(steps) /\ UNCHANGED vars

Next == Step \/ Over

Init ==
    /\ \E suite \in DOMAIN Suites : \E number \in DOMAIN Suites[suite] :
        LET script == Suites[suite][number]
        IN  /\ test = [suite |-> suite, number |-> number]
            /\ steps = script.steps
            /\ ctxs = IF suite \in {"files", "interop"} THEN script.ctx
                      ELSE [party \in {suite} |-> script.ctx]
    /\ at = 1
    /\ pdus = <<>>
    /\ clock = FirstInstant
    /\ last = [err |-> "NONE", out |-> {}, sdu |-> {}]

Spec == Init /\ [][Next]_vars
----------------------------------------------------------------------------
(* Properties *)

\* What an assertion says of the state of a Group, or of the last call.
Holds ==
    LET state == ctx.states[step.g + 1]
    IN  CASE step.do = "Has" -> \A f \in DOMAIN step.fields : state[f] = step.fields[f]
          [] step.do = "HasNot" -> \A f \in DOMAIN step.fields : state[f] # step.fields[f]
          [] step.do = "AreEqual" -> state[step.a] = state[step.b]
          [] step.do = "Differ" -> state[step.a] # state[step.b]
          [] step.do = "IsAfter" -> state[step.field] > step.instant
          [] step.do = "Sent" ->
                \E pdu \in last.out : \A f \in DOMAIN step.fields : pdu[f] = step.fields[f]
          [] step.do = "SentSomething" -> last.out # {}
          [] step.do = "SentNothing" -> last.out = {}
          [] step.do = "Delivered" -> last.sdu = {step.sdu}
          [] step.do = "DeliveredNothing" -> last.sdu = {}
          [] OTHER -> TRUE

\* What every test of the interface asserts is so: each call returns the error
\* it is to return, which says which of a dozen checks was the first to fail,
\* and leaves the context, the PDU and the user data as they are to be.
AsTheTestsExpect ==
    /\ at <= Len(steps) => Holds
    /\ at > 1 =>
        LET done == steps[at - 1]
        IN  done.do \in Calls => ((last.err = done.err) <=> done.is)
=============================================================================
