------------------------------ MODULE Scripts ------------------------------
(***************************************************************************)
(* How the repository's test functions are written down: a script is a     *)
(* context and the steps made on it, in the order of the test's source. A  *)
(* step calls a function of the interface and states the error it is to    *)
(* return; or it writes the context, as the tests do to get to a situation *)
(* in one line; or it lets time pass; or it asserts.                       *)
(*                                                                         *)
(* Groups are named as in C, by their position counted from 0. Where an    *)
(* array of user data is passed only its length is kept. The bytes of a    *)
(* PDU are its fields; a ciphertext or a tag written out in a test is the  *)
(* one computed with the key the test says it was computed with, or NoTag. *)
(***************************************************************************)
EXTENDS Checks, TLC

\* The key the random generator of the tests draws, whose bytes are 0, 1, 2...
TestStk == 7
\* The nonce it draws.
TestReqnonce == 7

\* ltk of the tests' Client, and of the Server's first
TestLtk == 1

\* What a test first reads on the clock, which tests before it have read.
FirstInstant == 1042
\* What a reading adds to it.
MillisPerReading == 1000

\* ctx is the context, or a record of those of several parties.
Script(ctx, steps) == [ctx |-> ctx, steps |-> steps]

\* The value r but for the given fields, whose names may be computed.
With(r, fields) == fields @@ r

----------------------------------------------------------------------------
(* Calls. null: the arguments that are NULL. *)

Call(do, args, err) == args @@ [do |-> do, err |-> err, is |-> TRUE]

Inits(err) == Call("Init", [null |-> {}], err)
DeInits(err) == Call("DeInit", [null |-> {}], err)

Receives(pdu, err) == Call("Receive", [null |-> {}, pdu |-> pdu], err)
BuildsUnsecured(gid, data, err) == Call("BuildUnsecured", [null |-> {}, gid |-> gid, data |-> data], err)
BuildsSecuredFd(gid, data, err) == Call("BuildSecuredFd", [null |-> {}, gid |-> gid, data |-> data], err)
BuildsRequest(gid, err) == Call("BuildRequest", [null |-> {}, gid |-> gid], err)
Forces(gid, err) == Call("ForceSessionRenewal", [null |-> {}, gid |-> gid], err)

\* The call with NULL for some arguments, and the one that is to return any
\* error but the stated one.
Without(call, null) == [call EXCEPT !.null = null]
ButNot(call) == [call EXCEPT !.is = FALSE]

Data(len) == [null |-> FALSE, len |-> len]
NullData(len) == [null |-> TRUE, len |-> len]

----------------------------------------------------------------------------
(* Writing the context: fields of it, or of the state of a Group *)

Configures(fields) == [do |-> "Configure", fields |-> fields]
Sets(g, fields) == [do |-> "Set", g |-> g, fields |-> fields]
\* A field is set to a reading of the clock.
Reads(g, field) == [do |-> "Read", g |-> g, field |-> field]
\* currentRxLastMessageInstant = sessionStartInstant + 1
Hears(g) == [do |-> "Hear", g |-> g]
\* The clock is read n times for nothing.
Waits(n) == [do |-> "Wait", n |-> n]

----------------------------------------------------------------------------
(* Assertions *)

\* The state of a Group has the fields with their values.
Has(g, fields) == [do |-> "Has", g |-> g, fields |-> fields]
\* It has other values.
HasNot(g, fields) == [do |-> "HasNot", g |-> g, fields |-> fields]
\* Two fields of it are equal; a field is a later instant.
AreEqual(g, a, b) == [do |-> "AreEqual", g |-> g, a |-> a, b |-> b]
Differ(g, a, b) == [do |-> "Differ", g |-> g, a |-> a, b |-> b]
IsAfter(g, field, instant) == [do |-> "IsAfter", g |-> g, field |-> field, instant |-> instant]
IsUnheard(g) == AreEqual(g, "currentRxLastMessageInstant", "sessionStartInstant")
IsHeard(g) == Differ(g, "currentRxLastMessageInstant", "sessionStartInstant")
\* The last call built a PDU with these fields.
Sent(fields) == [do |-> "Sent", fields |-> fields]
SentNothing == [do |-> "SentNothing"]
SentSomething == [do |-> "SentSomething"]
\* It delivered user data.
Delivered(gid, sid, dataLen, wasSecured) ==
    [do |-> "Delivered", sdu |-> [gid |-> gid, sid |-> sid, dataLen |-> dataLen,
                                  wasSecured |-> wasSecured]]
DeliveredNothing == [do |-> "DeliveredNothing"]

----------------------------------------------------------------------------
(* Received PDUs *)

\* A SADFD of len bytes, which claims ptlen bytes of user data, protected with
\* the key stk (or with none, when stk is 0).
RxSadfd(type, gid, sid, len, ctrnonce, ptlen, stk) ==
    LET h == Header(gid, sid, SADFD)
    IN  [Pdu(HeaderPack(type, h), len) EXCEPT
            !.ctrnonce = ctrnonce, !.ptlen = ptlen,
            !.tag = IF stk = 0 THEN NoTag ELSE SadfdTag(stk, h, ctrnonce, ptlen)]

RxReq(type, gid, sid, len, reqnonce, ltk) ==
    LET h == Header(gid, sid, REQ)
    IN  [Pdu(HeaderPack(type, h), len) EXCEPT
            !.reqnonce = reqnonce, !.tag = IF ltk = 0 THEN NoTag ELSE ReqTag(ltk, h, reqnonce)]

RxRen(type, gid, sid, len, ctrnonce, stk) ==
    LET h == Header(gid, sid, REN)
    IN  [Pdu(HeaderPack(type, h), len) EXCEPT
            !.ctrnonce = ctrnonce, !.tag = IF stk = 0 THEN NoTag ELSE RenTag(stk, h, ctrnonce)]

\* A Response to the Request with the nonce reqnonce, carrying the key stk.
RxRes(type, gid, sid, len, client, ctrnonce, stk, reqnonce, ltk) ==
    LET h == Header(gid, sid, RES)
    IN  [Pdu(HeaderPack(type, h), len) EXCEPT
            !.client = client, !.ctrnonce = ctrnonce, !.stk = stk,
            !.tag = IF ltk = 0 THEN NoTag ELSE ResTag(ltk, h, ctrnonce, reqnonce, client)]

RxOther(type, gid, sid, pty, len) == Pdu(HeaderPack(type, Header(gid, sid, pty)), len)
=============================================================================
