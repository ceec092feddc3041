# Hazelnet, verified

A TLA+ development of [Hazelnet](../src/README.md), the C library that secures
the traffic of a CAN FD bus with the CBS protocol (CAN Bus Security). TLC
checks the state machines on small instances and replays the repository's own
tests on them; TLAPS proves theorems about them for every value of the
constants. File names below are relative to `src/`.

## 1. The system

A bus has one **Server** (SID 0) and some **Clients**. They share **Groups**.
For each Group the Server keeps a **Session**: a short-term key (STK) and a
counter nonce. The library transmits nothing by itself and runs no thread:
every function is called by the user, runs to completion, and returns a PDU to
transmit and perhaps user data. So the *concurrency* is that of the parties on
the bus, of the clock, and of the messages between them, which may be lost,
repeated, delayed and reordered.

| component | code | state | operations |
|---|---|---|---|
| Server Group | `src/server/` | start of the Session, last reception, counter nonce and key of the current Session and of the previous one | answer a Request, receive and build secured messages, open the next Session when the current one is expired or when forced, restart |
| Client Group | `src/client/` | nonce of the Request awaiting a Response, instant of the last handshake event, last reception, counter nonce and key of the current and of the previous Session | build a Request, receive a Response, receive a REN, receive and build secured messages, restart |
| Calls | `hzl_*ProcessReceived*.c`, `hzl_*Build*.c`, `hzl_Common*.c` | the context: configuration and the states of all Groups | check pointers, lengths, Group and sender, in this order, then act on the Group |
| Frames | `hzl_CommonHeader.c`, `...Packing.c`, `...Unsecured.c` | none | pack and unpack the header in seven formats, check lengths |
| Time and nonces | `hzl_CommonTimeDelta.c`, `hzl_CommonCtrDelay.c`, `hzl_CommonUtils.c`, `hzl_ServerGroup.c` | none | difference of timestamps that roll around, tolerance for late counter nonces, saturating increments, keys that are not all zeros |
| Configuration | `hzl_ServerInit.c`, `hzl_ClientInit.c` | the contexts | check the configurations, open or clear all Sessions |
| Contexts | `hzl_*New.c`, `hzl_*Free.c`, `hzl_*NewMsg.c` | heap | load and release |
| Cryptography | `hzl_CommonAead.c`, `hzl_CommonHash.c` | none | wrappers of the external libascon |

**Messages.** A Client asks (REQ, with a fresh nonce, protected with its
long-term key) and the Server answers (RES) with the current Session. When the
Session has lasted too long or its counter nonce is too large, the next
accepted secured message makes the Server open a new one and announce it (REN)
under the key of the old one: both enter a *renewal phase* in which they accept
messages of both Sessions, told apart by the counter nonce alone. Secured
application data is SADFD, unsecured UAD.

**What is hard.** Counter nonces that decide at the same time freshness and
Session; timestamps that roll around and whose equality means something; phases
closed only by the messages that arrive; calls that fail half-way because the
clock or the random generator does; Requests never answered; messages of an
earlier Session, or of an earlier run, that arrive now; one context with several
Groups; loads that fail anywhere. `PROJECT.json` lists each hazard at its line,
with the properties that would catch it.

**What makes each component correct.** The Server never protects two
messages alike, accepts an old message only when it is recent enough, changes
key when it says so, and believes to have receivers exactly when it has. The
Client never goes back to an older key, accepts only the answer to its own
last Request, has one handshake at a time. Together, parties that share a
Session and missed nothing hear one another, and a Client that keeps asking
gets the current key. Frames: what is read is what was written, and it fits.
Calls: wholly answered or wholly refused, and never about another Group.
Contexts: exactly the documented configurations are accepted (the first SID
excepted, section 4); nothing is leaked.

## 2. The modules

State machines:

| module | extends | what it models |
|---|---|---|
| `Domains` | | The sizes all parties share: timestamps, counter nonces, keys. No state. |
| `HzlCommon` | `Domains` | The arithmetic of `src/common`, the messages of one Group, and what a call returns. No state. |
| `ServerSession` | `HzlCommon` | The Server's handlers for one Group as operators from the Group's state to the set of outcomes of the call: error, new state, PDU to transmit, user data. |
| `ServerGroup` | `ServerSession` | A Group of the Server with a clock, receiving anything; one action per function of the API. |
| `ClientSession`, `ClientGroup` | `HzlCommon` | The same for a Client. |
| `Bus` | `ServerSession`, `ClientSession` per Client | The composition: a Server, Clients, and a bus that loses, repeats, delays and reorders. Only messages some party really built exist. |
| `GroupKeys` | | Abstract: what the composition promises about keys. `Bus` implements it (`KeysPromise == Keys!FairSpec`). |
| `Wire` | | The bytes of a message: header formats, lengths. No state. |
| `Frame` | `Wire` | A frame on the bus: built by a party or noise, received by the others. |
| `Checks`, `ServerChecks`, `ClientChecks` | `Wire` | The checks of messages, of pointers and of configurations, each with the name of its error, in the order of the code. What tags cover. |
| `ServerCalls`, `ClientCalls` | `ServerChecks`, `ClientChecks`, `Domains` | The public functions on a whole context: checks, then the Group's `ServerSession` or `ClientSession`, instantiated with the Group's configuration. |
| `ServerContext`, `ClientContext` | the calls | A party with two Groups, called with anything. |
| `Loading` | both checks | Configuration files, `hzl_*New` and `hzl_*Free`, the heap; every allocation and every reading may fail. |

Replayed tests:

| module | what it holds |
|---|---|
| `Scripts` | How a test function is written as a sequence of steps (calls, writes to the context, waits, assertions). |
| `ServerTests`, `ClientTests`, `FileTests`, `InteropTests` | The test functions of `tst/`, one definition each, under their names. |
| `InterfaceTests` | The machine that runs a script on `ServerCalls` and `ClientCalls`. A behaviour is a test. |

Proofs: `Common_proofs` (of `HzlCommon` and `Checks`), `ServerGroup_proofs`,
`ClientGroup_proofs`, `Bus_proofs`, `Frame_proofs`, `ServerContext_proofs`,
`ClientContext_proofs`, `Loading_proofs` (section 5).

An operator bears the name of the C function it stands for, without `hzl_` and
shortened where two functions are one idea (`ServerPhaseEnter` is
`hzl_ServerSessionRenewalPhaseEnter`). An outcome set has one element when the
function is deterministic; more when it calls the clock or the random generator
and these may fail. A failure takes effect exactly where the code returns: what
was assigned before stays assigned. `ret` (or `last`) is the last call's
return: it is what many properties speak of.

*Two levels.* `ServerGroup`, `ClientGroup` and `Bus` see one Group, as a handler
touches no other: `groupStates[gid]` is its only state. That it does is not
assumed: `ServerContext` and `ClientContext` model the look-up of the Group and
check `GroupsAreSeparate`, with the same handlers.

*Data is abstract.* A key is the number of the draw that produced it, 0 the
all-zeros key the code reads as "no key". A failed draw leaves the old key, the
all-zeros one or a partly written one, which equals none drawn before. In the
modules of one Group a tag is valid iff the message is intact and carries the
key (and, in a Response, the nonce of the Request) the receiver checks it with;
in those of whole calls a tag is the record of what it was computed from.
A Request's nonce is the number of the Request. In the modules of one Group,
errors that leave the state alike and are returned from the same place are one;
in `Checks` and the calls they have the names of the code.

*Integers* keep their limits: timestamps roll around at `TimestampDomainSize`
and the counter nonce saturates at `MaxCtrnonce`. The float expression of
`hzl_CommonCtrDelay` is exact when `MaxSilenceIntervalMillis` is a power of
two, as it is in every instance; the operator computes the exact ceiling.

*The environment of one party.* In `ServerGroup` the Server receives any message
protected under a key it has handed out, with any counter nonce, in any order,
any number of times, and any Request. In `ClientGroup` the Client receives the
Responses to its Requests that carry the Session open at some moment since the
Request was built, RENs under keys that are not the Server's current one
anymore, and secured messages of any Session so far. This over-approximates
every bus, and `Bus` itself needs no such assumption.

*History variables* (`issued`, `known`, `served`, `used`; `asked`,
`requestedAt`, `sent`, `heard`, `answered`; `drawn`) record what happened and
guard nothing but the bounds. `used`, `sent` and `heard` are sets closed
downwards: what matters of the counter nonces used is the largest one.

*The bus* holds at most `MaxInFlight` messages. A message stays and can be
received again until others take its place, which is loss. A new key and a new
nonce are ones that nobody remembers.

*Replaying the tests.* The scripts are written from the tests' source. Where a
test writes into the context to get to a situation in one line, so does the
script. What is approximated: a call that reads the clock reads it once (once
per Group in `hzl_ServerInit`), a call that does not read it lets no time pass;
every draw of the mocked generator is the same key; a tag that a test makes up
is one that verifies nowhere (`NoTag`); the parties that receive one message in
the test of the bus do so in a fixed order; `0xF0000016` is written
`0x70000016`, the largest integers being smaller here; the clock of the mockup
starts at 1042, as there.

## 3. The runs

All runs are of the module itself with the constants in the `.cfg`. Deadlock is
checked except in `server_context` and `client_context`, whose behaviours end
after `MaxCalls` calls.

| run | instance | what it shows |
|---|---|---|
| `server_group` | 3 keys, counter nonces 0..4, clock of 24 ms in steps of 6, tolerance 1, silence 8 ms, Session 12 ms, 2 Clients of which one is in the Group; no failures | the ten properties of the Server below |
| `client_group` | 2 Sessions, 2 Requests, counter nonces 0..4, clock of 18 ms in steps of 6, timeout 6; clock and generator may fail | the six properties of the Client below |
| `frame` | header types 0, 3, 4, 5, 6 with boundary identifiers and lengths, and noise | what is understood is what was meant; no frame is too long; noise is read in range |
| `bus_traffic` | 2 Clients, all send data, counter nonces 0..6, a renewal, one message in flight, time stands still | parties in step hear one another |
| `bus_restarts` | 1 Client that sends, both restart, Sessions expire by age too, counter nonces 0..5, clock of 21 ms in steps of 7 | a Client in step is heard, and a slow one until the phase is over; a Server that refuses to transmit has nobody to transmit to |
| `bus_liveness` | 1 Client, 3 keys, 2 messages in flight, forced renewals, restarts of both; fairness | `Bus` implements `GroupKeys`, liveness included |
| `server_context` | 2 Groups of 3 Clients, header type 3, 4 calls, clock and generator may fail | calls are answered or refused, Groups stay apart, what is sent verifies |
| `client_context` | 2 Groups with GIDs 0 and 2, header type 4, 5 calls, clock and generator may fail | the same for a Client; keys are taken for their Group only |
| `loading` | a valid configuration edited in up to 2 places, a failure at any step of the load | exactly the documented configurations are accepted; a context is whole or gone |
| `interface_tests` | 207 tests of `tst/`, real sizes of timestamps and counter nonces | every call returns what the test expects, every assertion holds |
| `server_highest_sid`, `frame_narrow_header` | | section 4 |

**The Server.** `ReceiverIsReal` and `ReceiverNotForgotten`: two
instants differ iff a Client's message was accepted in the current Session.
`RenewalChangesStk`: a renewal phase has two different keys. `CtrnonceAhead`
and `NeverReusesCtrnonce`: a counter nonce that was used with a key, by the
Server or by a Client it heard, is not used again until the largest one is
reached. `OldOnlyWhenRecent`: a counter nonce not above those used is accepted
only within the tolerance, and only while the Session was heard recently.
`PreviousStkOnlyInPhase`: nothing is delivered under the old key once the phase
is over. `NoRenewalWithinRenewal`: no Session is opened in a phase that is not
over. `RenHasReceiver`: a REN is built under a key some Client was given.

**The Client.** `StkNeverGoesBack`: no order of Responses brings an
earlier Session's key back. `RenewalChangesStk`: a phase whose Request was
answered goes from an earlier key to a later one. `NeverReusesCtrnonce`,
`OldOnlyWhenRecent`: as above, with the exceptions their comments state (a
Response may lower the counter nonce; between a REN and its Response both
Sessions are copies of one). `OneHandshakeAtATime`: a Request leaves only after
the last one's timeout, or its answer.

**Both on a bus.** `InStepIsHeard`: a Client with the Server's key and counter
nonce is heard, in or out of a renewal phase. `SlowIsHeard`: so is one that is
still in the previous Session, until the phase is over. `ClientsHearEachOther`:
the same among Clients, whichever of them is in a phase. `DeafMeansAlone`: the
Server refuses to transmit only while nobody has its key. The first three ask for
`IsToldApart`: that the previous Session used more counter nonces than a phase
lasts. One that ends earlier, by its age or by force, breaks them (section 4).
The third asks for `IsTolerant` besides: a Client whose two Sessions are one, after
a REN, has two counter nonces for it, of which the messages heard move only one.
`KeysPromise`: no Client is ahead of the Server or moves back, and one that is
behind moves on.

**Whole calls.** `AnsweredOrRefused`: success and only success comes with a
message or data (a failing function of the user excepted, section 4).
`WhatIsSentVerifies`: what a party builds passes the checks of its receiver,
from header to tag, if that has the keys. `DataIsOfAMember`, `DataIsGenuine`: a
message that another Group's header was put on is refused. `KeysAreOfTheGroup`:
nor is a key taken with one; a Group of a Client with a Session has the key that
the Server drew for that Group and keeps it, and one without goes on waiting for
the Response it asked for, in spite of Responses with a key of all zeros, which
the code reads as no key. `AllStarted`: a Session said to be started is started
in every Group, whatever an earlier call that failed half way left. `AcceptsTheDocumented`: the
checks, which compare neighbours in loops, accept what the documentation says of
whole arrays (the first SID excepted, section 4). `KnownIsConfigured`,
`EveryGroupIsFound`: with an accepted configuration no message makes a party
read beyond its arrays, or another Group's entry. Of the Clients' array, read at
`sid - 1`, `KnownIsConfigured` says what the checks of neighbours give: the entry
read is off the sender's own by as much as the first SID is off 1, so that it is
the sender's own where the SIDs start from 1 and not elsewhere (section 4).
`WholeOrGone`: after a load or a release that fails anywhere, all of a context is held or none of it, and no
freed structure was left with its content.

**Fairness** (`bus_liveness`, and the refinement). `WF(Tick)`: time passes.
`SF(ClientAsk)`: the user of a Client calls `hzl_ClientBuildRequest` again
and again; while a handshake is ongoing the call is refused, so that it is
enabled again and again rather than continuously. `SF(ServerAnswers)`,
`SF(ClientIsAnswered)`: of the infinitely many Requests sent, and of the
Responses, some arrive in time: the bus may lose any finite number in a row,
not all. Nothing is assumed of renewals, of restarts, of application data or
of the order of messages. What is shown is *Client catches up, or a restart or
another renewal came in between*: `Follow` is fair in `GroupKeys`, and it is
disabled once the Client has the latest key.

**The bounds and why they suffice.** Three keys allow a renewal, its end, and
a renewal or a restart after it: no property relates more than two Sessions and
the draw that follows. With tolerance D = 1 a phase is over at counter nonce 2,
a Session expires at 3 and the counter nonce saturates at 4, so all these
happen, in any order, with messages behind and ahead of each. On the bus the
counter nonces reach 5 or 6 so that a renewal happens well before they end. A domain
of 24 ms (18 for the Client, 21 or 14 on the bus) makes the clock roll around within
two Sessions and meets each limit (6 REN delays of 1 ms, 8 ms of silence, 12 ms
of Session, 6 ms of timeout) from below, on it or from above. A Group with one
of two SIDs has a Client that is in it and a SID that is not. For the Client,
two Requests and two Sessions are what a Response overtaken by another takes.
Two messages in flight let one overtake the other; with application data the
bus holds one, since two parties in step need only the last. Two Clients show
what more would: properties relate pairs. In `frame` the identifiers are 0, 1
and those around every limit of the seven formats, the lengths those around the
longest user data of each kind of message. Four calls start a context twice,
or start it, make it known to a Client and renew it; five take a Client through
a handshake, a renewal and the next. Two edits of a configuration reach any two
fields that a check compares; one of them may move the SIDs of all Clients at
once, which no two edits of single fields do without a gap.

`NoRenewalWithinRenewal` needs `ctrNonceUpperLimit >= 2 * maxCtrnonceDelayMsgs`,
which `hzl_ServerInit` does not check; the instance respects it.

*What a failed renewal breaks.* A renewal whose clock or generator fails leaves
the phase active with two equal keys (`hzl_ServerRenewalPhase.c:71-82`), so that
one key has two counter nonces. With failures TLC finds `RenewalChangesStk`,
`CtrnonceAhead`, `NeverReusesCtrnonce`, `OldOnlyWhenRecent` and
`NoRenewalWithinRenewal` violated: they need a working clock and generator.
`ReceiverNotForgotten` and `RenHasReceiver` need the generator only, `TypeOK`,
`ReceiverIsReal` and `PreviousStkOnlyInPhase` neither: that is proved (section 5),
the run has no failures.

## 4. Where the code and its documentation disagree

Two are runs that TLC finds violated; `PROJECT.json` quotes both sides.

| run | disagreement |
|---|---|
| `frame_narrow_header` | Header types 1 and 2 shift by 5 where the format and the receiver shift by 3: the SID (or the GID) is lost. |
| `server_highest_sid` | The Client with SID `amountOfClients` is refused as unknown. |

The others met while modelling are not runs; where a definition states what the
documentation says, it is named here, with its comment quoting the line, and TLC
finds it violated in the instances above with the failures it speaks of.

- After a Request that was never answered, RENs are ignored although no
  handshake is ongoing (`ClientGroup!RenewalAcceptableOutsideHandshake`).
- Forcing a renewal after a phase is over builds RENs of the old one, until a
  secured message arrives (`ServerGroup!ForceStartsRenewal`).
- User data comes together with an error code when the renewal it triggers fails
  (`ServerGroup!NoUserDataOnError`).
- The Server transmits with the expired counter nonce
  (`ServerGroup!ExpiredCtrnonceNotUsed`).
- A message received in the millisecond the Session started in is recorded one
  millisecond later than now, and the difference to it rolls around
  (`ServerGroup!LastReceptionIsPast`).
- When the generator gives up during a renewal, the Group goes on with a key of
  all zeros (`ServerContext!KeyIsNotZeros`).
- When a Session ends early, by its age or by force, its counter nonce is close to
  that of the next one, and the average of the two takes messages of the new
  Session for the old one's: the Server refuses a Client that is in step until
  the phase is over. `InStepIsHeard` without `IsToldApart` is violated in
  `bus_restarts`. No line of the documentation excludes it.
- `hzl_ServerInit` accepts Clients whose SIDs start above 1, because it compares
  neighbours only (`hzl_ServerInit.c:81-91`), though all from 1 on are required
  (`inc/hzl.h:246`, `inc/hzl_Server.h:133-138`). The Server then reads another
  Client's entry, and long-term key, at `sid - 1`
  (`hzl_ServerProcessReceivedRequest.c:101,172`). `AcceptsTheDocumented` leaves the
  first SID free; the run `loading` has such a file (`LaterClients`, SIDs 2, 3
  and 4), and with `clients[sid].sid = sid` in `KnownIsConfigured` TLC finds it
  violated there.
- The magic number of a Server's file is `HZLs`, where the documentation of the
  format has `HZL` and a zero byte.
- A load whose initialisation fails hands its context out together with the
  error, where a load that fails before frees it; `WholeOrGone` counts both as
  whole.
- The second half of the test of the bitmap's size
  (`tst/server/hzlServerTest_InitCheckServerConfig.c:172-202`) has 32 Clients
  configured in an array of 4. It is not replayed.

## 5. The proofs

All theorems are about the modules as TLC checks them, for every value of the
constants that satisfies their named assumptions: any number of Clients, any
limit, any size of timestamp and counter nonce, any steps of the clock.
`PROJECT.json` lists them. Every safety and action property that a passing run
checks is proved, that of `InterfaceTests` excepted.

- **`Common_proofs`**: what the arithmetic returns. Increments saturate, the
  stored counter nonce is never less than the local one and more than the
  received one, the tolerance is bounded and vanishes after the silence. Which
  error a chain of checks returns, for any number of checks
  (`FirstErrorIsFirst`): there is a first one that fails, by the well-foundedness
  of the naturals. The same argument says what comparing neighbours tells of a
  whole array (`NoGapCounts`, `NeighboursAscend`). And `RoundTrip`: for each
  format, what `HeaderPack` accepts `HeaderUnpack` returns.
- **`ServerGroup_proofs`**, with any failures: `TypeCorrect`, `ReceiverCorrect`,
  `PreviousStkOnlyInPhaseCorrect`.
  One lemma per handler says that each of its outcomes is well formed. With
  `TypeOK` `ReceiverIsReal` is inductive; `EnterHasNoReceiver` is its heart:
  opening a Session either makes the two instants equal, or fails before it
  touched any of them, and then the key is unchanged. `PreviousStkOnlyInPhase`
  follows from the order in the handler (`AcceptedIsDelivered`): the phase is
  closed before the message is looked at.

  With a clock that may fail and a working generator:
  `ReceiverNotForgottenCorrect` and, if `CtrNonceUpperLimit >= 2 *
  MaxCtrnonceDelayMsgs`, `RenHasReceiverCorrect`. A renewal the clock undid
  leaves two copies of one key, and a message under it may be recorded as the
  previous Session's, so that the current one's instants stay equal. It is no
  receiver forgotten, as whoever has the key was heard before: the inductive
  invariant `Latest` says that no key later than the current one was handed out,
  and the current one only in answer to a Client. `RenHasReceiver` needs
  `KeysKnown` besides: a Session that was heard has a key some Client was given,
  and so has the Session before it.

  With `IoFaults = {}`: `RenewalChangesStkCorrect`. That the two keys of a phase
  differ is not inductive: a step must know that the key about to be drawn is
  neither of them. The inductive invariant is `KeysAscend`: the current key is the
  last one drawn and the previous one is older. Without `IoFaults = {}` the theorem
  is false: a renewal whose draw fails leaves two copies of one key.

  Likewise `CtrnonceAheadCorrect`, `NeverReusesCtrnonceCorrect`,
  `OldOnlyWhenRecentCorrect` and, with the same limit as above,
  `NoRenewalWithinRenewalCorrect`. The inductive invariant adds `NoncesAhead` to
  `KeysAscend`: every counter nonce used with the current key is below the current
  one (or that one is the last), every one used with the previous key below the
  previous one, and nothing is recorded as used with a key that is not held. Each action property is then a case analysis
  of what a handler did with the one counter nonce it read.
- **`ClientGroup_proofs`**, with any failures: `TypeCorrect`,
  `RenewalChangesStkCorrect`, `StkNeverGoesBackCorrect`,
  `NeverReusesCtrnonceCorrect`, `OneHandshakeAtATimeCorrect`,
  `OldOnlyWhenRecentCorrect`. The inductive invariant `Ordered` has four parts:
  the instant kept is that of the last Request as long as one is awaited
  (`HandshakeIsTimed`); a Response that can still come does not carry an earlier
  key than the Client's (`KeysAscend`); the old key of a phase is not the Server's anymore, so that
  whatever answers the phase's Request is later (`PhaseAscends`); the counter
  nonce is above all those sent, and heard, since the last Response
  (`NoncesAscend`).
- **`Frame_proofs`**: `UnderstoodAsSentCorrect` for header types other than 1 and
  2, whose shifts are wrong (section 4); `FitsTheFrameCorrect` and
  `UnderstoodInRangeCorrect` for all seven, noise included. The first rests on
  `RoundTrip` and on the invariant `Faithful`: a frame on the bus holds the bytes
  and the header of its last sender.
- **`Bus_proofs`**: `KeysPromiseSafely`, `Spec => Keys!Spec`: with any number of
  Clients, messages in flight, restarts and renewals every step of the bus is a
  step of `GroupKeys` or leaves its variables alone. The inductive invariant
  `KeysAreBehind` says that no key held or on its way is later than the
  Server's, and that a Response to a Client's *last* Request does not carry an
  earlier key than the Client's: it was built after the Client asked, and a
  Client that is waiting moves by no other message. That is why `reqnonce` must
  be fresh and must be bound to the Response. `DeafMeansAloneCorrect` adds
  `NobodyHasIt`: while the two instants are equal no Response was built in this
  Session; its heart is that recording a reception always makes them differ
  (`ReceivedIsHeard`), at the roll-around too.

  `InStepIsHeardCorrect` and `SlowIsHeardCorrect` assume that no Client has the SID
  `AmountOfClients`, which is never heard (section 4); `ClientsHearEachOtherCorrect`
  has no hypothesis. What a party accepts of one counter nonce is arithmetic: in
  a phase that is not over the current counter nonce is below twice the
  tolerance and, under `IsToldApart`, the previous one above it, so that their
  average lies above the former and not above the latter (`AverageIsBetween`), and
  each is taken for its own Session's. What must be invariant is little: types,
  and that the two keys of the Server differ (`PreviousIsEarlier`). Those of a
  Client may be one, between a REN and its Response: its messages then pass under
  either of its counter nonces, with the help of the tolerance (`IsTolerant`).
- **`ServerContext_proofs`**, with any failures and any header type:
  `AnsweredOrRefusedCorrect`, `DataIsOfAMemberCorrect`, `AllStartedCorrect`,
  `GroupsAreSeparateCorrect`; for header types other than 2
  `WhatIsSentVerifiesCorrect`. One lemma per public function says of each of its
  outcomes that the states of the other Groups are as before, that an error comes
  with nothing, and whose key and header what is built carries; the first is
  what makes the others hold of a whole context. The inductive invariant
  adds `KeysApart` to the properties: no two Groups hold one key (all zeros
  excepted), and none holds a key not drawn yet, so that a tag tells in which
  Group it was computed. It
  also says that calls are made only where the header type has room for two
  Groups: `hzl_ServerInit` has refused the others.
- **`ClientContext_proofs`**, with any failures: `AnsweredOrRefusedCorrect`,
  `KeysAreOfTheGroupCorrect`, `DataIsGenuineCorrect`, `GroupsAreSeparateCorrect`;
  for header types other than 1 and 2 `WhatIsSentVerifiesCorrect`. The inductive
  invariant (`CtxInv`) says that each Group has no Session or the key that the Server
  drew for it, and that Requests are counted by naturals, so that no nonce drawn
  is the 0 that stands for none: it is what makes a Request that is repeated a
  handshake that goes on. The steps of `KeysAreOfTheGroup` follow from it handler by
  handler (`Follows`). The invariant is kept because the tag of a Response covers
  the header: of a Response under another Group's header the header unpacked is not the one authenticated
  (`OtherGidIsSeen`), and a message that passes for whole and authentic has no
  defect.

  The user of `ClientContext` calls nothing after a `hzl_ClientInit` that
  failed, until one succeeds: with header types 5 and 6, which have one Group only,
  every `hzl_ClientInit` of two Groups fails, and the properties would speak of
  a context that its own checks refused.
- **`Loading_proofs`**, first about the checks of *configurations of any size*:
  `ServerAcceptsTheDocumented` and `ClientAcceptsTheDocumented` (neighbour by
  neighbour, whole arrays are checked), `ServerKnowsTheConfigured` (no message
  makes the Server read beyond its arrays, and the Client's entry read is the
  sender's own if and only if the SIDs start from 1) and `ClientFindsEveryGroup` (the
  search finds each Group at its place). The first showed that `IsDocumentedServer`
  had lacked the limit of 32 Clients (`hzl_Server.h:104`), which no file of the run
  `loading` reaches.

  Then the invariants of the run: `AcceptsTheDocumentedCorrect`,
  `KnownIsConfiguredCorrect`, `EveryGroupIsFoundCorrect`, `WholeOrGoneCorrect`.
  What makes them hold of any file is `IsLoad`, the shape of the steps of
  `hzl_ServerNew` and `hzl_ClientNew` whatever amounts the file declares: the
  context is allocated first, its configuration next, then nothing but arrays, so
  that `hzl_*Free`, which finds the arrays through the configuration and that
  through the context, finds all there is wherever the load stopped
  (`ReleasedWhole`). The inductive invariant says that the file stays a
  configuration of its side, and that the error of the last load, unless it came
  from memory, the file's end or the clock, is what the checks say of the file
  (`ErrIsOfTheFile`).

The theorems about old counter nonces are about the exact tolerance; the code's
float expression may differ from it by rounding when the silence interval is not
a power of two.

*Only model-checked*: the liveness part of `KeysPromise`, fairness being out of
the prover's reach; the replayed tests, which are runs of given calls.

## 6. Not modelled, and why

- The values of the cryptographic functions: libascon is external and not part
  of the sources. A forged tag is assumed not to verify.
- The content of user data, except its length; CAN identifiers: no decision
  depends on them.
- A call reads the clock up to twice, and the two readings may differ by the
  duration of the call; here they are one.
- The rounding of `hzl_CommonCtrDelay` in float (section 2).
- The bytes of the configuration files, taken as the configuration they describe;
  `hzl_OsTrng`, `hzl_OsCurrentTime`, the byte order functions: I/O and
  conversions, represented by what they may return.
- Tests that are not replayed: those of the allocation of messages and of NULL
  arguments of the loads (the former are actions of `Loading`), of functions that
  the interface does not offer, and of the constants' values.
- SADTP, which the code does not implement.
