---------------------------- MODULE Common_proofs --------------------------
(***************************************************************************)
(* Facts that the proofs of several modules rest on, for every size of the *)
(* numbers: about the checks and the headers of both parties (which error  *)
(* is returned, for any number of checks, what a check of neighbours says  *)
(* of the whole array, what becomes of a header on its way from one party  *)
(* to the other), and about the arithmetic of timestamps and of counter    *)
(* nonces.                                                                 *)
(***************************************************************************)
EXTENDS HzlCommon, Checks, WellFoundedInduction, TLAPS

----------------------------------------------------------------------------
(* The first error *)

\* A set of numbers has a least one.
LEMMA LeastNat ==
    ASSUME NEW S, S \subseteq Nat, S # {}
    PROVE  \E x \in S : \A y \in S : x <= y
<1>1. PICK x \in S : \A y \in S : ~(<<y, x>> \in OpToRel(<, Nat))
  BY NatLessThanWellFounded, WFMin
<1>2. \A y \in S : ~(y < x)
  BY <1>1 DEF OpToRel
<1> QED BY <1>2

\* A check fails with its error or passes.
LEMMA CheckPasses ==
    ASSUME NEW bad \in BOOLEAN, NEW err, err # "OK"
    PROVE  /\ Check(bad, err) = "OK" <=> ~bad
           /\ Check(bad, err) \in {"OK", err}
BY DEF Check

\* However many checks there are, their first error is that of one of them
\* that fails after all others before it passed; none passes for an error.
LEMMA FirstErrorIsFirst ==
    ASSUME NEW n \in Nat, NEW errs, DOMAIN errs = 1 .. n, ~\A i \in 1 .. n : errs[i] = "OK"
    PROVE  \E i \in 1 .. n : /\ FirstError(errs) = errs[i]
                            /\ errs[i] # "OK"
                            /\ \A j \in 1 .. n : j < i => errs[j] = "OK"
<1> DEFINE IsFirst(i) == /\ errs[i] # "OK"
                         /\ \A j \in DOMAIN errs : j < i => errs[j] = "OK"
           first == CHOOSE i \in DOMAIN errs : IsFirst(i)
           failed == {i \in 1 .. n : errs[i] # "OK"}
<1>1. PICK i \in failed : \A j \in failed : i <= j
  <2>1. failed \subseteq Nat /\ failed # {}
    OBVIOUS
  <2> QED BY <2>1, LeastNat
<1>2. i \in DOMAIN errs /\ IsFirst(i)
  BY <1>1
<1>3. first \in DOMAIN errs /\ IsFirst(first)
  BY <1>2
<1>4. FirstError(errs) = errs[first]
  BY DEF FirstError
<1> HIDE DEF first
<1> QED BY <1>3, <1>4

LEMMA FirstErrorPasses ==
    ASSUME NEW n \in Nat, NEW errs, DOMAIN errs = 1 .. n
    PROVE  FirstError(errs) = "OK" <=> \A i \in 1 .. n : errs[i] = "OK"
<1>1. (\A i \in 1 .. n : errs[i] = "OK") => FirstError(errs) = "OK"
  BY DEF FirstError
<1> QED BY <1>1, FirstErrorIsFirst

\* The numbers of checks that calls make.
LEMMA ThreeChecks ==
    ASSUME NEW a, NEW b, NEW c
    PROVE  /\ FirstError(<<a, b, c>>) = "OK" <=> a = "OK" /\ b = "OK" /\ c = "OK"
           /\ FirstError(<<a, b, c>>) \in {"OK", a, b, c}
<1> DEFINE errs == <<a, b, c>>
<1>1. DOMAIN errs = 1 .. 3 /\ errs[1] = a /\ errs[2] = b /\ errs[3] = c
  OBVIOUS
<1> HIDE DEF errs
<1>2. FirstError(errs) = "OK" <=> \A i \in 1 .. 3 : errs[i] = "OK"
  BY <1>1, FirstErrorPasses
<1>3. FirstError(errs) # "OK" => \E i \in 1 .. 3 : FirstError(errs) = errs[i]
  BY <1>1, <1>2, FirstErrorIsFirst
<1> QED BY <1>1, <1>2, <1>3 DEF errs

LEMMA FourChecks ==
    ASSUME NEW a, NEW b, NEW c, NEW d
    PROVE  FirstError(<<a, b, c, d>>) = "OK"
              <=> a = "OK" /\ b = "OK" /\ c = "OK" /\ d = "OK"
<1> DEFINE errs == <<a, b, c, d>>
<1>1. DOMAIN errs = 1 .. 4 /\ errs[1] = a /\ errs[2] = b /\ errs[3] = c /\ errs[4] = d
  OBVIOUS
<1> HIDE DEF errs
<1>2. FirstError(errs) = "OK" <=> \A i \in 1 .. 4 : errs[i] = "OK"
  BY <1>1, FirstErrorPasses
<1> QED BY <1>1, <1>2 DEF errs

LEMMA FiveChecks ==
    ASSUME NEW a, NEW b, NEW c, NEW d, NEW e
    PROVE  FirstError(<<a, b, c, d, e>>) = "OK"
              <=> a = "OK" /\ b = "OK" /\ c = "OK" /\ d = "OK" /\ e = "OK"
<1> DEFINE errs == <<a, b, c, d, e>>
<1>1. DOMAIN errs = 1 .. 5 /\ errs[1] = a /\ errs[2] = b /\ errs[3] = c /\ errs[4] = d /\ errs[5] = e
  OBVIOUS
<1> HIDE DEF errs
<1>2. FirstError(errs) = "OK" <=> \A i \in 1 .. 5 : errs[i] = "OK"
  BY <1>1, FirstErrorPasses
<1> QED BY <1>1, <1>2 DEF errs

\* The elements of an array of n.
IsArray(f, n) == f = [i \in 1 .. n |-> f[i]]

\* Some checks, then one of each element of an array.
LEMMA OneThenChecks ==
    ASSUME NEW a, NEW n \in Nat, NEW each, IsArray(each, n)
    PROVE  FirstError(<<a>> \o each) = "OK"
              <=> a = "OK" /\ \A i \in 1 .. n : each[i] = "OK"
<1> DEFINE errs == <<a>> \o each
<1>1. DOMAIN errs = 1 .. 1 + n
  BY DEF IsArray
<1>2. errs[1] = a
  OBVIOUS
<1>3. \A i \in 1 .. n : errs[1 + i] = each[i]
  BY DEF IsArray
<1> HIDE DEF errs
<1>4. FirstError(errs) = "OK" <=> \A i \in 1 .. 1 + n : errs[i] = "OK"
  BY <1>1, FirstErrorPasses
<1>5. ASSUME \A i \in 1 .. 1 + n : errs[i] = "OK"
      PROVE  a = "OK" /\ \A i \in 1 .. n : each[i] = "OK"
  BY <1>2, <1>3, <1>5
<1>6. ASSUME a = "OK", \A i \in 1 .. n : each[i] = "OK"
      PROVE  \A i \in 1 .. 1 + n : errs[i] = "OK"
  <2> SUFFICES ASSUME NEW i \in 1 .. 1 + n PROVE errs[i] = "OK"
    OBVIOUS
  <2>1. CASE i = 1
    BY <1>2, <1>6, <2>1
  <2>2. CASE i # 1
    <3>1. i - 1 \in 1 .. n /\ i = 1 + (i - 1)
      BY <2>2
    <3> QED BY <1>3, <1>6, <3>1
  <2> QED BY <2>1, <2>2
<1>7. (\A i \in 1 .. 1 + n : errs[i] = "OK") <=> (a = "OK" /\ \A i \in 1 .. n : each[i] = "OK")
  BY <1>5, <1>6
<1>8. FirstError(errs) = "OK" <=> (a = "OK" /\ \A i \in 1 .. n : each[i] = "OK")
  BY <1>4, <1>7
<1> QED BY <1>8 DEF errs

LEMMA TwoThenChecks ==
    ASSUME NEW a, NEW b, NEW n \in Nat, NEW each, IsArray(each, n)
    PROVE  FirstError(<<a, b>> \o each) = "OK"
              <=> a = "OK" /\ b = "OK" /\ \A i \in 1 .. n : each[i] = "OK"
<1> DEFINE errs == <<a, b>> \o each
<1>1. DOMAIN errs = 1 .. 2 + n
  BY DEF IsArray
<1>2. errs[1] = a /\ errs[2] = b
  OBVIOUS
<1>3. \A i \in 1 .. n : errs[2 + i] = each[i]
  BY DEF IsArray
<1> HIDE DEF errs
<1>4. FirstError(errs) = "OK" <=> \A i \in 1 .. 2 + n : errs[i] = "OK"
  BY <1>1, FirstErrorPasses
<1>5. ASSUME \A i \in 1 .. 2 + n : errs[i] = "OK"
      PROVE  a = "OK" /\ b = "OK" /\ \A i \in 1 .. n : each[i] = "OK"
  BY <1>2, <1>3, <1>5
<1>6. ASSUME a = "OK", b = "OK", \A i \in 1 .. n : each[i] = "OK"
      PROVE  \A i \in 1 .. 2 + n : errs[i] = "OK"
  <2> SUFFICES ASSUME NEW i \in 1 .. 2 + n PROVE errs[i] = "OK"
    OBVIOUS
  <2>1. CASE i \in 1 .. 2
    BY <1>2, <1>6, <2>1
  <2>2. CASE i \notin 1 .. 2
    <3>1. i - 2 \in 1 .. n /\ i = 2 + (i - 2)
      BY <2>2
    <3> QED BY <1>3, <1>6, <3>1
  <2> QED BY <2>1, <2>2
<1>7. (\A i \in 1 .. 2 + n : errs[i] = "OK")
        <=> (a = "OK" /\ b = "OK" /\ \A i \in 1 .. n : each[i] = "OK")
  BY <1>5, <1>6
<1>8. FirstError(errs) = "OK" <=> (a = "OK" /\ b = "OK" /\ \A i \in 1 .. n : each[i] = "OK")
  BY <1>4, <1>7
<1> QED BY <1>8 DEF errs

----------------------------------------------------------------------------
(* Ascending numbers *)

\* What holds of neighbours holds of the whole array: numbers without a gap
\* count from the first one on.
LEMMA NoGapCounts ==
    ASSUME NEW n \in Nat, NEW f, \A i \in 1 .. n : f[i] \in Nat,
           \A i \in 2 .. n : f[i - 1] + 1 = f[i]
    PROVE  \A i \in 1 .. n : f[i] = f[1] + i - 1
<1> DEFINE wrong == {i \in 1 .. n : f[i] # f[1] + i - 1}
<1> SUFFICES ASSUME wrong # {} PROVE FALSE
  OBVIOUS
<1>1. wrong \subseteq Nat
  OBVIOUS
<1>2. PICK i \in wrong : \A j \in wrong : i <= j
  BY <1>1, LeastNat
<1>3. i \in 1 .. n /\ i # 1
  OBVIOUS
<1>4. i - 1 \in 1 .. n /\ i - 1 \notin wrong
  BY <1>2, <1>3
<1>5. f[i - 1] = f[1] + (i - 1) - 1 /\ f[i - 1] + 1 = f[i]
  BY <1>3, <1>4
<1> QED BY <1>3, <1>4, <1>5

\* Each larger than the one before: larger than all before, and not smaller
\* than its position.
LEMMA NeighboursAscend ==
    ASSUME NEW n \in Nat, NEW f, \A i \in 1 .. n : f[i] \in Nat,
           \A i \in 2 .. n : f[i - 1] < f[i]
    PROVE  \A i, j \in 1 .. n : i < j => f[i] < f[j]
<1> SUFFICES ASSUME NEW i \in 1 .. n, NEW k \in 1 .. n, i < k, ~(f[i] < f[k]) PROVE FALSE
  OBVIOUS
<1> DEFINE wrong == {j \in 1 .. n : i < j /\ ~(f[i] < f[j])}
<1>1. wrong \subseteq Nat /\ wrong # {}
  OBVIOUS
<1>2. PICK j \in wrong : \A l \in wrong : j <= l
  BY <1>1, LeastNat
<1>3. j \in 2 .. n /\ j - 1 \in 1 .. n /\ j - 1 \notin wrong
  BY <1>2
<1>4. f[j - 1] < f[j] /\ f[j - 1] \in Nat /\ f[j] \in Nat /\ f[i] \in Nat
  BY <1>3
<1>5. CASE j - 1 = i
  BY <1>4, <1>5
<1>6. CASE j - 1 # i
  <2>1. f[i] < f[j - 1]
    BY <1>3, <1>6
  <2> QED BY <1>4, <2>1
<1> QED BY <1>5, <1>6

LEMMA AscendingCounts ==
    ASSUME NEW n \in Nat, NEW f, \A i \in 1 .. n : f[i] \in Nat,
           \A i, j \in 1 .. n : i < j => f[i] < f[j]
    PROVE  \A i \in 1 .. n : i - 1 <= f[i]
<1> DEFINE wrong == {i \in 1 .. n : ~(i - 1 <= f[i])}
<1> SUFFICES ASSUME wrong # {} PROVE FALSE
  OBVIOUS
<1>1. wrong \subseteq Nat
  OBVIOUS
<1>2. PICK i \in wrong : \A j \in wrong : i <= j
  BY <1>1, LeastNat
<1>3. i \in 1 .. n /\ i # 1
  OBVIOUS
<1>4. i - 1 \in 1 .. n /\ i - 1 \notin wrong
  BY <1>2, <1>3
<1>5. f[i - 1] < f[i] /\ (i - 1) - 1 <= f[i - 1]
  BY <1>3, <1>4
<1>6. f[i] \in Nat /\ f[i - 1] \in Nat
  BY <1>3, <1>4
<1> QED BY <1>3, <1>4, <1>5, <1>6

----------------------------------------------------------------------------
(* Headers *)

\* The header types whose formats are packed as they are unpacked.
SoundTypes == {0, 3, 4, 5, 6}

Ptys == {REN, RES, REQ, SADFD, UAD}

\* Three bits and what is above them are told apart again.
LEMMA LowBits ==
    ASSUME NEW a \in Nat, NEW b \in 0 .. 7
    PROVE  (a * 8 + b) % 8 = b /\ (a * 8 + b) \div 8 = a
OBVIOUS

\* So are the fields of a byte of 3, 2 and 3 bits.
LEMMA ThreeFields ==
    ASSUME NEW a \in 0 .. 7, NEW b \in 0 .. 3, NEW c \in 0 .. 7
    PROVE  LET x == a * 32 + b * 8 + c
           IN  x % 8 = c /\ (x \div 8) % 4 = b /\ x \div 32 = a
OBVIOUS

\* What the formats of a single byte are unpacked to.
LEMMA UnpackByte ==
    ASSUME NEW x
    PROVE  /\ HeaderUnpack(3, <<x>>) = Header(x \div 32, (x \div 8) % 4, x % 8)
           /\ HeaderUnpack(4, <<x>>) = Header((x \div 8) % 4, x \div 32, x % 8)
           /\ HeaderUnpack(6, <<x>>) = Header(0, x \div 8, x % 8)
BY DEF HeaderUnpack

\* Unpacking undoes packing for every header a party may build.
LEMMA RoundTrip ==
    ASSUME NEW t \in SoundTypes, NEW gid \in 0 .. HeaderTypeMaxGid(t),
           NEW sid \in 0 .. HeaderTypeMaxSid(t), NEW pty \in Ptys
    PROVE  HeaderUnpack(t, HeaderPack(t, Header(gid, sid, pty))) = Header(gid, sid, pty)
<1> DEFINE h == Header(gid, sid, pty)
<1>1. h.gid = gid /\ h.sid = sid /\ h.pty = pty
  BY DEF Header
<1>2. pty \in 0 .. 7 /\ pty % 8 = pty
  BY DEF Ptys, REN, RES, REQ, SADFD, UAD
<1>3. CASE t = 0
  <2>1. HeaderPack(t, h) = <<gid, sid, pty>>
    BY <1>1, <1>3 DEF HeaderPack
  <2> QED BY <1>3, <2>1 DEF HeaderUnpack
<1>4. CASE t = 3
  <2>1. gid \in 0 .. 7 /\ sid \in 0 .. 3
    BY <1>4 DEF HeaderTypeMaxGid, HeaderTypeMaxSid
  <2>2. gid % 8 = gid /\ sid % 4 = sid
    BY <2>1
  <2>3. HeaderPack(t, h) = <<gid * 32 + sid * 8 + pty>>
    BY <1>1, <1>2, <1>4, <2>2 DEF HeaderPack
  <2> DEFINE x == gid * 32 + sid * 8 + pty
  <2>4. x \div 32 = gid /\ (x \div 8) % 4 = sid /\ x % 8 = pty
    BY <1>2, <2>1, ThreeFields
  <2> QED BY <1>4, <2>3, <2>4, UnpackByte
<1>5. CASE t = 4
  <2>1. gid \in 0 .. 3 /\ sid \in 0 .. 7
    BY <1>5 DEF HeaderTypeMaxGid, HeaderTypeMaxSid
  <2>2. gid % 4 = gid /\ sid % 8 = sid
    BY <2>1
  <2>3. HeaderPack(t, h) = <<sid * 32 + gid * 8 + pty>>
    BY <1>1, <1>2, <1>5, <2>2 DEF HeaderPack
  <2> DEFINE x == sid * 32 + gid * 8 + pty
  <2>4. x \div 32 = sid /\ (x \div 8) % 4 = gid /\ x % 8 = pty
    BY <1>2, <2>1, ThreeFields
  <2> QED BY <1>5, <2>3, <2>4, UnpackByte
<1>6. CASE t = 5
  <2>1. gid = 0
    BY <1>6 DEF HeaderTypeMaxGid
  <2>2. HeaderPack(t, h) = <<sid, pty>>
    BY <1>1, <1>2, <1>6 DEF HeaderPack
  <2> QED BY <1>2, <1>6, <2>1, <2>2 DEF HeaderUnpack
<1>7. CASE t = 6
  <2>1. gid = 0 /\ sid \in 0 .. 31
    BY <1>7 DEF HeaderTypeMaxGid, HeaderTypeMaxSid
  <2>2. sid % 32 = sid
    BY <2>1
  <2>3. HeaderPack(t, h) = <<sid * 8 + pty>>
    BY <1>1, <1>2, <1>7, <2>2 DEF HeaderPack
  <2> DEFINE x == sid * 8 + pty
  <2>4. x \div 8 = sid /\ x % 8 = pty
    BY <1>2, <2>1, LowBits
  <2> QED BY <1>7, <2>1, <2>3, <2>4, UnpackByte
<1> QED BY <1>3, <1>4, <1>5, <1>6, <1>7 DEF SoundTypes

----------------------------------------------------------------------------
(* Timestamps, counter nonces and the tolerance for late ones *)

\* The clock rolls around within its domain.
LEMMA LaterIsTimestamp ==
    ASSUME NEW t \in Nat
    PROVE  t % TimestampDomainSize \in Timestamp
BY TimestampDomainSizeAssumption DEF Timestamp

\* Zero is a timestamp, a counter nonce and the absence of a key.
LEMMA Zeros == 0 \in Timestamp /\ 0 \in Ctrnonce /\ 0 \in Stk /\ 1 \in Stk
BY TimestampDomainSizeAssumption, MaxCtrnonceAssumption, MaxStkAssumption
   DEF Timestamp, Ctrnonce, Stk

\* Counter nonces saturate instead of overflowing.
LEMMA IncrementedType ==
    ASSUME NEW c \in Ctrnonce
    PROVE  Incremented(c) \in Ctrnonce
BY MaxCtrnonceAssumption DEF Incremented, CtrnonceIsExpired, Ctrnonce

\* The counter nonce stored after a message is one.
LEMMA AdvancedType ==
    ASSUME NEW c \in Ctrnonce, NEW d \in Ctrnonce
    PROVE  Advanced(c, d) \in Ctrnonce
BY IncrementedType DEF Advanced

\* It is never less than the local one, and more than the received one unless
\* that one is expired.
LEMMA AdvancedIsLater ==
    ASSUME NEW c \in Ctrnonce, NEW d \in Ctrnonce, ~CtrnonceIsExpired(d)
    PROVE  Advanced(c, d) >= c /\ Advanced(c, d) > d
BY MaxCtrnonceAssumption DEF Advanced, Incremented, CtrnonceIsExpired, Ctrnonce

\* The time between two instants, also across the roll-around.
LEMMA TimeDeltaType ==
    ASSUME NEW s \in Timestamp, NEW e \in Timestamp
    PROVE  TimeDelta(s, e) \in Nat
BY TimestampDomainSizeAssumption DEF TimeDelta, Timestamp

\* A ceiling of a / b when a is at most d * b is at most d.
LEMMA CeilDivBounded ==
    ASSUME NEW a \in Nat, NEW b \in Nat \ {0}, NEW d \in Nat, a <= d * b
    PROVE  CeilDiv(a, b) \in Nat /\ CeilDiv(a, b) <= d
<1> DEFINE n == a + b - 1
           q == n \div b
<1>1. n \in Nat
  OBVIOUS
<1>2. q \in Nat /\ n = b * q + (n % b) /\ n % b \in 0 .. b - 1
  BY <1>1
<1>3. b * q <= a + b - 1
  BY <1>2, <1>1
<1>4. ASSUME q > d PROVE FALSE
  <2>1. q >= d + 1
    BY <1>4, <1>2
  <2>2. b * q >= b * (d + 1)
    BY <2>1, <1>2
  <2>3. b * (d + 1) = d * b + b
    OBVIOUS
  <2>4. d * b \in Nat /\ b * q \in Nat
    BY <1>2
  <2> HIDE DEF q, n
  <2> QED BY <2>2, <2>3, <2>4, <1>3
<1>5. q <= d
  BY <1>4, <1>2
<1> QED BY <1>2, <1>5 DEF CeilDiv

\* The tolerance is never more than configured, and there is none after a
\* silence longer than configured.
LEMMA CtrDelayBounded ==
    ASSUME NEW s \in Timestamp, NEW e \in Timestamp
    PROVE  /\ CtrDelay(s, e) \in 0 .. MaxCtrnonceDelayMsgs
           /\ CtrDelay(s, e) > 0 => TimeDelta(s, e) < MaxSilenceIntervalMillis
<1> USE MaxCtrnonceDelayMsgsAssumption, MaxSilenceIntervalMillisAssumption
<1> DEFINE left == MaxSilenceIntervalMillis - TimeDelta(s, e)
<1>1. TimeDelta(s, e) \in Nat
  BY TimeDeltaType
<1>2. CASE TimeDelta(s, e) >= MaxSilenceIntervalMillis
  BY <1>1, <1>2 DEF CtrDelay
<1>3. CASE TimeDelta(s, e) < MaxSilenceIntervalMillis
  <2>1. left \in Nat /\ left <= MaxSilenceIntervalMillis /\ MaxSilenceIntervalMillis # 0
    BY <1>1, <1>3
  <2>2. MaxCtrnonceDelayMsgs * left \in Nat
    BY <2>1
  <2>3. MaxCtrnonceDelayMsgs * left <= MaxCtrnonceDelayMsgs * MaxSilenceIntervalMillis
    BY <2>1
  <2>4. CeilDiv(MaxCtrnonceDelayMsgs * left, MaxSilenceIntervalMillis) \in 0 .. MaxCtrnonceDelayMsgs
    BY <2>1, <2>2, <2>3, CeilDivBounded
  <2>5. CtrDelay(s, e) = CeilDiv(MaxCtrnonceDelayMsgs * left, MaxSilenceIntervalMillis)
    BY <1>1, <1>3 DEF CtrDelay
  <2> QED BY <2>4, <2>5, <1>3
<1> QED BY <1>1, <1>2, <1>3
=============================================================================
