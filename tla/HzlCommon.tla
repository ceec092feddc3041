----------------------------- MODULE HzlCommon -----------------------------
(***************************************************************************)
(* The arithmetic shared by the Server and the Client of Hazelnet:         *)
(* timestamps that roll around, counter nonces that saturate, the          *)
(* tolerance granted to late counter nonces, and what the two functions    *)
(* supplied by the user (clock and random generator) can return.           *)
(*                                                                         *)
(* Only what the code compares survives here: a timestamp is a number      *)
(* modulo TimestampDomainSize, a counter nonce a number up to MaxCtrnonce, *)
(* a key the number of the draw that produced it.                          *)
(***************************************************************************)
EXTENDS Domains

CONSTANTS
    MaxCtrnonceDelayMsgs,     \* config field maxCtrnonceDelayMsgs
    MaxSilenceIntervalMillis, \* config field maxSilenceIntervalMillis
    IoFaults                  \* which user-supplied functions may fail

ASSUME MaxCtrnonceDelayMsgsAssumption == MaxCtrnonceDelayMsgs \in Nat
ASSUME MaxSilenceIntervalMillisAssumption == MaxSilenceIntervalMillis \in Nat
ASSUME IoFaultsAssumption == IoFaults \subseteq {"currentTime", "trng"}

----------------------------------------------------------------------------
(* Timestamps *)

Timestamp == 0 .. TimestampDomainSize - 1

\* Milliseconds from start to end, assuming at most one roll-around.
TimeDelta(start, end) ==
    IF end > start
    THEN end - start
    ELSE (TimestampDomainSize - start + end) % TimestampDomainSize

----------------------------------------------------------------------------
(* Counter nonces *)

Ctrnonce == 0 .. MaxCtrnonce

CtrnonceIsExpired(ctrnonce) == ctrnonce >= MaxCtrnonce

\* Mutant: the counter nonce is incremented past its last value.
Mutant_Incremented(ctrnonce) == ctrnonce + 1

\* Incrementing stops at the value that means "expired".
Incremented(ctrnonce) == IF CtrnonceIsExpired(ctrnonce) THEN ctrnonce ELSE ctrnonce + 1

\* Mutant: the received value is stored without being incremented.
Mutant_Advanced(local, received) == IF received > local THEN received ELSE local

\* The local counter nonce after a valid message: the larger one, incremented.
Advanced(local, received) == Incremented(IF received > local THEN received ELSE local)

\* The counter nonces used up once those of the set cs are: no later message
\* is meant to have one of them.
UpTo(cs) == {c \in Ctrnonce : \E d \in cs : c <= d}

\* Ceiling of a / b.
CeilDiv(a, b) == (a + b - 1) \div b

\* How far behind the local counter nonce a received one may be: the longer
\* the silence since the last message, the less. The code computes
\* D * (1 - elapsed/S) in float; it is exact whenever S is a power of two,
\* which is how the instances choose it.
CtrDelay(lastRx, rx) ==
    LET elapsed == TimeDelta(lastRx, rx)
    IN  IF elapsed >= MaxSilenceIntervalMillis
        THEN 0
        ELSE CeilDiv(MaxCtrnonceDelayMsgs * (MaxSilenceIntervalMillis - elapsed),
                     MaxSilenceIntervalMillis)

----------------------------------------------------------------------------
(* Messages. Data fields that no decision depends on are left out. A message *)
(* is intact unless it was cut short, claims a wrong length or has a wrong  *)
(* tag; the key it is protected with is the field stk, and a nonce or a key *)
(* in a Response is only readable by the Client it is addressed to.         *)

Req(sid, reqnonce) == [pty |-> "REQ", sid |-> sid, reqnonce |-> reqnonce]

Res(client, reqnonce, stk, ctrnonce) ==
    [pty |-> "RES", client |-> client, reqnonce |-> reqnonce, stk |-> stk, ctrnonce |-> ctrnonce]

Ren(stk, ctrnonce) == [pty |-> "REN", stk |-> stk, ctrnonce |-> ctrnonce]

Sadfd(sid, stk, ctrnonce) ==
    [pty |-> "SADFD", sid |-> sid, stk |-> stk, ctrnonce |-> ctrnonce]

----------------------------------------------------------------------------
(* What a call returns: the error, the new state of the Group, the PDU built *)
(* (out) and the user data delivered (sdu). Errors that leave the state as   *)
(* the same early return would are one: REFUSED (the message is not          *)
(* acceptable), NO_RECEIVER, ONGOING (a handshake), NO_SESSION, FAILED (a    *)
(* function supplied by the user failed).                                    *)

Outcome(err, group, out, sdu) == [err |-> err, group |-> group, out |-> out, sdu |-> sdu]

----------------------------------------------------------------------------
(* Session keys. 0 is the all-zeros key, which the code reads as "no key". *)

NoStk == 0
Stk == 0 .. MaxStk

\* What hzl_NonZeroTrng leaves in a key buffer that held "old". It succeeds
\* with a key never drawn before; it may give up after too many all-zeros
\* draws; or trng itself fails, having written nothing, or some bytes.
\* Past the bound MaxStk there is no draw: the caller's step is not taken.
NonZeroTrng(old, fresh) ==
    {r \in [ok : BOOLEAN, stk : {old, NoStk, fresh}] :
        /\ fresh \in Stk
        /\ r.ok => r.stk = fresh
        /\ ~r.ok => "trng" \in IoFaults}
=============================================================================
