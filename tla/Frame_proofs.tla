---------------------------- MODULE Frame_proofs ----------------------------
(***************************************************************************)
(* Proofs about Frame, for every identifier and every length of user data. *)
(***************************************************************************)
EXTENDS Frame, Common_proofs

----------------------------------------------------------------------------
(* What is received is what was sent *)

\* A message a party may mean to send.
IsMeant(h, n) ==
    /\ \E gid \in 0 .. HeaderTypeMaxGid(type), sid \in 0 .. HeaderTypeMaxSid(type), pty \in Ptys :
          h = Header(gid, sid, pty)
    /\ n \in Nat
    /\ h.pty \in {REN, RES, REQ} => n = 0

\* The frame of a message that was built is the one on the bus, and it was
\* either not received yet or understood as it was meant.
Faithful ==
    /\ type \in SoundTypes
    /\ frames = {} => sent = {} /\ received = {}
    /\ sent # {} =>
          \E h, n : /\ IsMeant(h, n)
                    /\ sent = {[hdr |-> h, dataLen |-> n]}
                    /\ frames = {PackedFrame(type, h, n)}
                    /\ received \subseteq sent

\* A frame that was built is understood as it was meant, its length included.
LEMMA UnderstoodRoundTrip ==
    ASSUME type \in SoundTypes, NEW h, NEW n, IsMeant(h, n)
    PROVE  Understood(type, PackedFrame(type, h, n)) = [hdr |-> h, dataLen |-> n]
<1> DEFINE frame == PackedFrame(type, h, n)
<1>1. PICK gid \in 0 .. HeaderTypeMaxGid(type), sid \in 0 .. HeaderTypeMaxSid(type), pty \in Ptys :
        h = Header(gid, sid, pty)
  BY DEF IsMeant
<1>2. h.pty \in Ptys
  BY <1>1 DEF Header
<1>3. HeaderUnpack(type, frame.header) = h
  BY <1>1, RoundTrip DEF PackedFrame
<1>4. frame.ptlen = n /\ frame.len = HeaderLen(type) + MetadataLen(h.pty) + n
  BY DEF PackedFrame
<1>5. HeaderLen(type) \in Nat
  BY DEF HeaderLen, SoundTypes
<1>6. CASE h.pty = SADFD
  BY <1>3, <1>4, <1>6 DEF Understood, SADFD, UAD
<1>7. CASE h.pty = UAD
  <2>1. MetadataLen(h.pty) = 0
    BY <1>7 DEF MetadataLen, REN, RES, REQ, SADFD, UAD
  <2>2. frame.len - HeaderLen(type) = n
    BY <1>4, <1>5, <2>1 DEF IsMeant
  <2> QED BY <1>3, <1>7, <2>2 DEF Understood, SADFD, UAD
<1>8. CASE h.pty \in {REN, RES, REQ}
  <2>1. n = 0 /\ h.pty # SADFD /\ h.pty # UAD
    BY <1>8 DEF IsMeant, REN, RES, REQ, SADFD, UAD
  <2> QED BY <1>3, <2>1 DEF Understood
<1> QED BY <1>2, <1>6, <1>7, <1>8 DEF Ptys

\* Nothing is on the bus at first.
LEMMA FaithfulInit ==
    ASSUME HeaderTypes \cap {1, 2} = {}
    PROVE  Init => Faithful
<1>1. HeaderTypes \subseteq SoundTypes
  BY HeaderTypesAssumption DEF SoundTypes
<1> QED BY <1>1 DEF Init, Faithful

\* Building a message makes it the one on the bus.
LEMMA BuiltIsFaithful ==
    ASSUME Faithful, NEW h, NEW n, IsMeant(h, n), Built(h, n)
    PROVE  Faithful'
<1>1. frames = {} /\ received = {}
  BY DEF Built, Faithful
<1>2. /\ type' = type
      /\ frames' = {PackedFrame(type, h, n)}
      /\ sent' = {[hdr |-> h, dataLen |-> n]}
      /\ received' = received
  BY DEF Built
<1>3. IsMeant(h, n)'
  BY <1>2 DEF IsMeant
<1> QED BY <1>1, <1>2, <1>3 DEF Faithful

\* A party's SID fits the header type.
LEMMA ConfiguredSidsFit ==
    ASSUME type \in SoundTypes
    PROVE  ConfiguredSids \subseteq 0 .. HeaderTypeMaxSid(type)
BY DEF ConfiguredSids

\* Every step keeps the bus faithful.
LEMMA FaithfulStep == Faithful /\ [Next]_vars => Faithful'
<1> SUFFICES ASSUME Faithful, [Next]_vars
             PROVE  Faithful'
  OBVIOUS
<1>0. type \in SoundTypes
  BY DEF Faithful
<1>1. CASE BuildUserData
  <2>1. PICK gid \in Gids, sid \in ConfiguredSids, pty \in {SADFD, UAD}, dataLen \in DataLens :
          /\ CheckMsgBeforePacking(type, gid, pty, dataLen)
          /\ Built(Header(gid, sid, pty), dataLen)
    BY <1>1 DEF BuildUserData
  <2>2. gid \in 0 .. HeaderTypeMaxGid(type)
    BY <1>0, <2>1, GidsAssumption DEF CheckMsgBeforePacking, HeaderTypeMaxGid, SoundTypes, Byte
  <2>3. sid \in 0 .. HeaderTypeMaxSid(type)
    BY <1>0, ConfiguredSidsFit
  <2>4. Header(gid, sid, pty).pty = pty /\ pty \in Ptys /\ pty \notin {REN, RES, REQ}
    BY DEF Header, Ptys, REN, RES, REQ, SADFD, UAD
  <2>5. IsMeant(Header(gid, sid, pty), dataLen)
    BY <2>2, <2>3, <2>4, DataLensAssumption DEF IsMeant
  <2> QED BY <2>1, <2>5, BuiltIsFaithful
<1>2. CASE BuildControl
  <2>1. PICK gid \in Gids \cap 0 .. HeaderTypeMaxGid(type), sid \in ConfiguredSids,
             pty \in {REN, RES, REQ} :
          Built(Header(gid, sid, pty), 0)
    BY <1>2 DEF BuildControl
  <2>2. sid \in 0 .. HeaderTypeMaxSid(type)
    BY <1>0, ConfiguredSidsFit
  <2>3. IsMeant(Header(gid, sid, pty), 0)
    BY <2>1, <2>2 DEF IsMeant, Ptys
  <2> QED BY <2>1, <2>3, BuiltIsFaithful
<1>3. CASE Noise
  <2>1. sent' = {} /\ frames' # {} /\ type' = type
    BY <1>3 DEF Noise, Faithful
  <2> QED BY <1>0, <2>1 DEF Faithful
<1>4. CASE Receive
  <2>1. PICK frame \in frames, receiverSid \in ConfiguredSids :
          received' = IF IsReadable(type, frame, receiverSid)
                      THEN {Understood(type, frame)}
                      ELSE {}
    BY <1>4 DEF Receive
  <2>2. frames # {} /\ type' = type /\ frames' = frames /\ sent' = sent
    BY <1>4 DEF Receive
  <2>3. CASE sent = {}
    BY <1>0, <2>2, <2>3 DEF Faithful
  <2>4. CASE sent # {}
    <3>1. PICK h, n : /\ IsMeant(h, n)
                      /\ sent = {[hdr |-> h, dataLen |-> n]}
                      /\ frames = {PackedFrame(type, h, n)}
      BY <2>4 DEF Faithful
    <3>2. received' \subseteq sent
      BY <1>0, <2>1, <3>1, UnderstoodRoundTrip
    <3>3. IsMeant(h, n)'
      BY <2>2, <3>1 DEF IsMeant
    <3> QED BY <1>0, <2>2, <3>1, <3>2, <3>3 DEF Faithful
  <2> QED BY <2>3, <2>4
<1>5. CASE UNCHANGED vars
  BY <1>5 DEF vars, Faithful, IsMeant
<1> QED BY <1>1, <1>2, <1>3, <1>4, <1>5 DEF Next

\* With a header type other than 1 and 2, whatever identifiers the parties
\* have and whatever the length of the data, a receiver understands of a frame
\* what its builder meant (the packers and unpackers of hzl_CommonHeader.c, and
\* the lengths of hzl_CommonPayload.h).
THEOREM UnderstoodAsSentCorrect ==
    ASSUME HeaderTypes \cap {1, 2} = {}
    PROVE  Spec => []UnderstoodAsSent
<1>1. Init => Faithful
  BY FaithfulInit
<1>2. Faithful /\ [Next]_vars => Faithful'
  BY FaithfulStep
<1>3. Faithful => UnderstoodAsSent
  BY DEF Faithful, UnderstoodAsSent
<1> QED BY <1>1, <1>2, <1>3, PTL DEF Spec

----------------------------------------------------------------------------
(* Lengths and ranges, of every header type and of noise too *)

\* What a frame on the bus is made of, whoever put it there.
IsFrame(frame) ==
    /\ frame.header \in [1 .. HeaderLen(type) -> Byte]
    /\ frame.len \in 0 .. MaxCanFdDataLen
    /\ frame.ptlen \in Nat

\* The frames are frames, and what was received lies within its ranges.
Bounded ==
    /\ type \in 0 .. 6
    /\ \A frame \in frames : IsFrame(frame)
    /\ UnderstoodInRange

\* A packed header is made of bytes: each format masks what it shifts up, or
\* the field fits by itself.
LEMMA PackIsBytes ==
    ASSUME NEW t \in 0 .. 6, NEW gid \in 0 .. HeaderTypeMaxGid(t),
           NEW sid \in 0 .. HeaderTypeMaxSid(t), NEW pty \in Ptys
    PROVE  HeaderPack(t, Header(gid, sid, pty)) \in [1 .. HeaderLen(t) -> Byte]
<1> DEFINE h == Header(gid, sid, pty)
           bytes == HeaderPack(t, h)
<1>1. h.gid = gid /\ h.sid = sid /\ h.pty = pty
  BY DEF Header
<1>2. pty \in 0 .. 7
  BY DEF Ptys, REN, RES, REQ, SADFD, UAD
<1>3. gid \in Byte /\ sid \in Byte
  BY DEF HeaderTypeMaxGid, HeaderTypeMaxSid, Byte
<1>4. CASE t = 0
  <2>1. bytes = <<gid, sid, pty>> /\ HeaderLen(t) = 3
    BY <1>1, <1>4 DEF HeaderPack, HeaderLen
  <2> QED BY <1>2, <1>3, <2>1 DEF Byte
<1>5. CASE t = 1
  <2>1. bytes = <<gid, (((sid % 32) * 32) % 256) + (pty % 8)>> /\ HeaderLen(t) = 2
    BY <1>1, <1>5 DEF HeaderPack, HeaderLen
  <2>2. sid \in 0 .. 31
    BY <1>5 DEF HeaderTypeMaxSid
  <2>3. (((sid % 32) * 32) % 256) + (pty % 8) \in Byte
    BY <1>2, <2>2 DEF Byte
  <2> QED BY <1>3, <2>1, <2>3
<1>6. CASE t = 2
  <2>1. bytes = <<sid, (((gid % 32) * 32) % 256) + (pty % 8)>> /\ HeaderLen(t) = 2
    BY <1>1, <1>6 DEF HeaderPack, HeaderLen
  <2>2. gid \in 0 .. 31
    BY <1>6 DEF HeaderTypeMaxGid
  <2>3. (((gid % 32) * 32) % 256) + (pty % 8) \in Byte
    BY <1>2, <2>2 DEF Byte
  <2> QED BY <1>3, <2>1, <2>3
<1>7. CASE t = 3
  <2>1. bytes = <<(gid % 8) * 32 + (sid % 4) * 8 + (pty % 8)>> /\ HeaderLen(t) = 1
    BY <1>1, <1>7 DEF HeaderPack, HeaderLen
  <2>2. (gid % 8) * 32 + (sid % 4) * 8 + (pty % 8) \in Byte
    BY <1>2, <1>3 DEF Byte
  <2> QED BY <2>1, <2>2
<1>8. CASE t = 4
  <2>1. bytes = <<(sid % 8) * 32 + (gid % 4) * 8 + (pty % 8)>> /\ HeaderLen(t) = 1
    BY <1>1, <1>8 DEF HeaderPack, HeaderLen
  <2>2. (sid % 8) * 32 + (gid % 4) * 8 + (pty % 8) \in Byte
    BY <1>2, <1>3 DEF Byte
  <2> QED BY <2>1, <2>2
<1>9. CASE t = 5
  <2>1. bytes = <<sid, pty % 8>> /\ HeaderLen(t) = 2
    BY <1>1, <1>9 DEF HeaderPack, HeaderLen
  <2>2. pty % 8 \in Byte
    BY <1>2 DEF Byte
  <2> QED BY <1>3, <2>1, <2>2
<1>10. CASE t = 6
  <2>1. bytes = <<(sid % 32) * 8 + (pty % 8)>> /\ HeaderLen(t) = 1
    BY <1>1, <1>10 DEF HeaderPack, HeaderLen
  <2>2. (sid % 32) * 8 + (pty % 8) \in Byte
    BY <1>2, <1>3 DEF Byte
  <2> QED BY <2>1, <2>2
<1> QED BY <1>4, <1>5, <1>6, <1>7, <1>8, <1>9, <1>10

\* The quotients and remainders the formats read of a byte.
LEMMA PartsOfByte ==
    ASSUME NEW x \in 0 .. 255
    PROVE  x \div 32 \in 0 .. 7 /\ x \div 8 \in 0 .. 31 /\ (x \div 8) % 4 \in 0 .. 3
OBVIOUS

\* Whatever the bytes, what is unpacked from them fits the header type.
LEMMA UnpackInRange ==
    ASSUME NEW t \in 0 .. 6, NEW b \in [1 .. HeaderLen(t) -> Byte]
    PROVE  /\ HeaderUnpack(t, b).gid \in 0 .. HeaderTypeMaxGid(t)
           /\ HeaderUnpack(t, b).sid \in 0 .. HeaderTypeMaxSid(t)
<1>1. HeaderLen(t) \in 1 .. 3 /\ (t \in {0, 1, 2, 5} => HeaderLen(t) >= 2)
  BY DEF HeaderLen
<1>2. b[1] \in 0 .. 255 /\ (t \in {0, 1, 2, 5} => b[2] \in 0 .. 255)
  <2>1. 1 \in 1 .. HeaderLen(t) /\ (t \in {0, 1, 2, 5} => 2 \in 1 .. HeaderLen(t))
    BY <1>1
  <2>2. \A i \in 1 .. HeaderLen(t) : b[i] \in Byte
    OBVIOUS
  <2> QED BY <2>1, <2>2 DEF Byte
<1>3. /\ b[1] \div 32 \in 0 .. 7 /\ b[1] \div 8 \in 0 .. 31
      /\ (b[1] \div 8) % 4 \in 0 .. 3
      /\ t \in {0, 1, 2, 5} => b[2] \div 8 \in 0 .. 31
  BY <1>2, PartsOfByte
<1>4. CASE t = 0
  <2>1. HeaderUnpack(t, b) = Header(b[1], b[2], b[3])
    BY <1>4 DEF HeaderUnpack
  <2>2. HeaderUnpack(t, b).gid = b[1] /\ HeaderUnpack(t, b).sid = b[2]
    BY <2>1 DEF Header
  <2>3. HeaderTypeMaxGid(t) = 255 /\ HeaderTypeMaxSid(t) = 255
    BY <1>4 DEF HeaderTypeMaxGid, HeaderTypeMaxSid
  <2> QED BY <1>2, <1>3, <1>4, <2>2, <2>3
<1>5. CASE t = 1
  <2>1. HeaderUnpack(t, b) = Header(b[1], b[2] \div 8, b[2] % 8)
    BY <1>5 DEF HeaderUnpack
  <2>2. HeaderUnpack(t, b).gid = b[1] /\ HeaderUnpack(t, b).sid = b[2] \div 8
    BY <2>1 DEF Header
  <2>3. HeaderTypeMaxGid(t) = 255 /\ HeaderTypeMaxSid(t) = 31
    BY <1>5 DEF HeaderTypeMaxGid, HeaderTypeMaxSid
  <2> QED BY <1>2, <1>3, <1>5, <2>2, <2>3
<1>6. CASE t = 2
  <2>1. HeaderUnpack(t, b) = Header(b[2] \div 8, b[1], b[2] % 8)
    BY <1>6 DEF HeaderUnpack
  <2>2. HeaderUnpack(t, b).gid = b[2] \div 8 /\ HeaderUnpack(t, b).sid = b[1]
    BY <2>1 DEF Header
  <2>3. HeaderTypeMaxGid(t) = 31 /\ HeaderTypeMaxSid(t) = 255
    BY <1>6 DEF HeaderTypeMaxGid, HeaderTypeMaxSid
  <2> QED BY <1>2, <1>3, <1>6, <2>2, <2>3
<1>7. CASE t = 3
  <2>1. HeaderUnpack(t, b) = Header(b[1] \div 32, (b[1] \div 8) % 4, b[1] % 8)
    BY <1>7 DEF HeaderUnpack
  <2>2. HeaderUnpack(t, b).gid = b[1] \div 32 /\ HeaderUnpack(t, b).sid = (b[1] \div 8) % 4
    BY <2>1 DEF Header
  <2>3. HeaderTypeMaxGid(t) = 7 /\ HeaderTypeMaxSid(t) = 3
    BY <1>7 DEF HeaderTypeMaxGid, HeaderTypeMaxSid
  <2> QED BY <1>2, <1>3, <1>7, <2>2, <2>3
<1>8. CASE t = 4
  <2>1. HeaderUnpack(t, b) = Header((b[1] \div 8) % 4, b[1] \div 32, b[1] % 8)
    BY <1>8 DEF HeaderUnpack
  <2>2. HeaderUnpack(t, b).gid = (b[1] \div 8) % 4 /\ HeaderUnpack(t, b).sid = b[1] \div 32
    BY <2>1 DEF Header
  <2>3. HeaderTypeMaxGid(t) = 3 /\ HeaderTypeMaxSid(t) = 7
    BY <1>8 DEF HeaderTypeMaxGid, HeaderTypeMaxSid
  <2> QED BY <1>2, <1>3, <1>8, <2>2, <2>3
<1>9. CASE t = 5
  <2>1. HeaderUnpack(t, b) = Header(0, b[1], b[2] % 8)
    BY <1>9 DEF HeaderUnpack
  <2>2. HeaderUnpack(t, b).gid = 0 /\ HeaderUnpack(t, b).sid = b[1]
    BY <2>1 DEF Header
  <2>3. HeaderTypeMaxGid(t) = 0 /\ HeaderTypeMaxSid(t) = 255
    BY <1>9 DEF HeaderTypeMaxGid, HeaderTypeMaxSid
  <2>4. 0 \in 0 .. 0
    OBVIOUS
  <2> QED BY <1>2, <2>2, <2>3, <2>4
<1>10. CASE t = 6
  <2>1. HeaderUnpack(t, b) = Header(0, b[1] \div 8, b[1] % 8)
    BY <1>10 DEF HeaderUnpack
  <2>2. HeaderUnpack(t, b).gid = 0 /\ HeaderUnpack(t, b).sid = b[1] \div 8
    BY <2>1 DEF Header
  <2>3. HeaderTypeMaxGid(t) = 0 /\ HeaderTypeMaxSid(t) = 31
    BY <1>10 DEF HeaderTypeMaxGid, HeaderTypeMaxSid
  <2>4. 0 \in 0 .. 0
    OBVIOUS
  <2> QED BY <1>3, <2>2, <2>3, <2>4
<1> QED BY <1>4, <1>5, <1>6, <1>7, <1>8, <1>9, <1>10

\* What is read of a readable frame lies within it.
LEMMA ReadInRange ==
    ASSUME type \in 0 .. 6, NEW frame, IsFrame(frame), NEW sid, IsReadable(type, frame, sid)
    PROVE  LET r == Understood(type, frame)
           IN  /\ r.hdr.gid \in 0 .. HeaderTypeMaxGid(type)
               /\ r.hdr.sid \in 0 .. HeaderTypeMaxSid(type)
               /\ r.dataLen \in 0 .. MaxCanFdDataLen - HeaderLen(type)
<1> DEFINE h == HeaderUnpack(type, frame.header)
           n == CASE h.pty = SADFD -> frame.ptlen
                  [] h.pty = UAD -> frame.len - HeaderLen(type)
                  [] OTHER -> 0
<1>1. h.gid \in 0 .. HeaderTypeMaxGid(type) /\ h.sid \in 0 .. HeaderTypeMaxSid(type)
  BY UnpackInRange DEF IsFrame
<1>2. HeaderLen(type) \in 1 .. 3 /\ MaxCanFdDataLen = 64
  BY DEF HeaderLen, MaxCanFdDataLen
<1>3. /\ frame.len >= HeaderLen(type)
      /\ h.pty = SADFD => HeaderLen(type) + MetadataLen(SADFD) + frame.ptlen <= frame.len
  BY DEF IsReadable
<1>4. MetadataLen(SADFD) = 12
  BY DEF MetadataLen, REN, RES, REQ, SADFD, UAD
<1>5. frame.len \in 0 .. 64 /\ frame.ptlen \in Nat
  BY <1>2 DEF IsFrame
<1>6. n \in 0 .. MaxCanFdDataLen - HeaderLen(type)
  <2>1. CASE h.pty = SADFD
    BY <1>2, <1>3, <1>4, <1>5, <2>1
  <2>2. CASE h.pty = UAD
    BY <1>2, <1>3, <1>5, <2>2 DEF SADFD, UAD
  <2>3. CASE h.pty \notin {SADFD, UAD}
    BY <1>2, <2>3
  <2> QED BY <2>1, <2>2, <2>3
<1>7. Understood(type, frame) = [hdr |-> h, dataLen |-> n]
  BY DEF Understood
<1> QED BY <1>1, <1>6, <1>7

\* Lengths that add up to no more than a bound.
LEMMA SumInRange ==
    ASSUME NEW a \in Nat, NEW b \in Nat, NEW c \in Nat, NEW max \in Nat, a + b + c <= max
    PROVE  a + b + c \in 0 .. max
OBVIOUS

\* A frame that is built is a frame, if the length of its data was checked.
LEMMA BuiltIsBounded ==
    ASSUME Bounded,
           NEW gid \in 0 .. HeaderTypeMaxGid(type), NEW sid \in 0 .. HeaderTypeMaxSid(type),
           NEW pty \in Ptys, NEW n \in Nat,
           HeaderLen(type) + MetadataLen(pty) + n <= MaxCanFdDataLen,
           Built(Header(gid, sid, pty), n)
    PROVE  Bounded'
<1> DEFINE frame == PackedFrame(type, Header(gid, sid, pty), n)
<1>0. type \in 0 .. 6
  BY DEF Bounded
<1>1. type' = type /\ frames' = {frame} /\ received' = received
  BY DEF Built
<1>2. frame.header \in [1 .. HeaderLen(type) -> Byte]
  BY <1>0, PackIsBytes DEF PackedFrame
<1>3. frame.len = HeaderLen(type) + MetadataLen(pty) + n /\ frame.ptlen = n
  BY DEF PackedFrame, Header
<1>4. HeaderLen(type) \in Nat /\ MetadataLen(pty) \in Nat
  BY <1>0 DEF HeaderLen, MetadataLen, Ptys, REN, RES, REQ, SADFD, UAD
<1>5. frame.len \in 0 .. MaxCanFdDataLen
  <2>1. HeaderLen(type) + MetadataLen(pty) + n \in 0 .. MaxCanFdDataLen
    BY <1>4, SumInRange DEF MaxCanFdDataLen
  <2> QED BY <1>3, <2>1
<1>6. IsFrame(frame)'
  BY <1>1, <1>2, <1>3, <1>5 DEF IsFrame
<1>7. UnderstoodInRange'
  BY <1>1 DEF Bounded, UnderstoodInRange
<1> QED BY <1>0, <1>1, <1>6, <1>7 DEF Bounded

\* Every step keeps the bus in its bounds.
LEMMA BoundedStep == Bounded /\ [Next]_vars => Bounded'
<1> SUFFICES ASSUME Bounded, [Next]_vars
             PROVE  Bounded'
  OBVIOUS
<1>0. type \in 0 .. 6 /\ ConfiguredSids \subseteq 0 .. HeaderTypeMaxSid(type)
  BY DEF Bounded, ConfiguredSids
<1>1. CASE BuildUserData
  <2>1. PICK gid \in Gids, sid \in ConfiguredSids, pty \in {SADFD, UAD}, n \in DataLens :
          /\ CheckMsgBeforePacking(type, gid, pty, n)
          /\ Built(Header(gid, sid, pty), n)
    BY <1>1 DEF BuildUserData
  <2>2. gid \in 0 .. HeaderTypeMaxGid(type) /\ n \in Nat /\ pty \in Ptys
    BY <1>0, <2>1, GidsAssumption, DataLensAssumption
       DEF CheckMsgBeforePacking, HeaderTypeMaxGid, Byte, Ptys
  <2>3. HeaderLen(type) \in Nat /\ MetadataLen(pty) \in Nat
    BY <1>0 DEF HeaderLen, MetadataLen, REN, RES, REQ, SADFD, UAD
  <2>4. HeaderLen(type) + MetadataLen(pty) + n <= MaxCanFdDataLen
    BY <2>1, <2>2, <2>3 DEF CheckMsgBeforePacking, MaxCanFdDataLen
  <2> QED BY <1>0, <2>1, <2>2, <2>4, BuiltIsBounded
<1>2. CASE BuildControl
  <2>1. PICK gid \in Gids \cap 0 .. HeaderTypeMaxGid(type), sid \in ConfiguredSids,
             pty \in {REN, RES, REQ} :
          Built(Header(gid, sid, pty), 0)
    BY <1>2 DEF BuildControl
  <2>2. HeaderLen(type) \in 1 .. 3 /\ MetadataLen(pty) \in {19, 24, 44} /\ pty \in Ptys
    BY <1>0 DEF HeaderLen, MetadataLen, Ptys, REN, RES, REQ, SADFD, UAD
  <2>3. HeaderLen(type) + MetadataLen(pty) + 0 <= MaxCanFdDataLen
    BY <2>2 DEF MaxCanFdDataLen
  <2> QED BY <1>0, <2>1, <2>2, <2>3, BuiltIsBounded
<1>3. CASE Noise
  <2>1. PICK bytes \in [1 .. HeaderLen(type) -> Bytes], ptlen \in Bytes, len \in DataLens :
          /\ len <= MaxCanFdDataLen
          /\ frames' = {[header |-> bytes, len |-> len, ptlen |-> ptlen]}
    BY <1>3 DEF Noise
  <2>2. type' = type /\ received' = received
    BY <1>3 DEF Noise
  <2>3. bytes \in [1 .. HeaderLen(type) -> Byte]
    BY BytesAssumption
  <2>6. ptlen \in Nat /\ len \in 0 .. MaxCanFdDataLen
    BY <2>1, BytesAssumption, DataLensAssumption DEF Byte, MaxCanFdDataLen
  <2>4. \A frame \in frames' : IsFrame(frame)'
    BY <2>1, <2>2, <2>3, <2>6 DEF IsFrame
  <2> QED BY <1>0, <2>2, <2>4 DEF Bounded, UnderstoodInRange
<1>4. CASE Receive
  <2>1. PICK frame \in frames, sid \in ConfiguredSids :
          received' = IF IsReadable(type, frame, sid)
                      THEN {Understood(type, frame)}
                      ELSE {}
    BY <1>4 DEF Receive
  <2>2. type' = type /\ frames' = frames
    BY <1>4 DEF Receive
  <2>3. IsFrame(frame)
    BY DEF Bounded
  <2>4. UnderstoodInRange'
    BY <1>0, <2>1, <2>2, <2>3, ReadInRange DEF UnderstoodInRange
  <2>5. \A f \in frames' : IsFrame(f)'
    BY <2>2 DEF Bounded, IsFrame
  <2> QED BY <1>0, <2>2, <2>4, <2>5 DEF Bounded
<1>5. CASE UNCHANGED vars
  BY <1>5 DEF vars, Bounded, UnderstoodInRange, IsFrame
<1> QED BY <1>1, <1>2, <1>3, <1>4, <1>5 DEF Next

\* The bus is empty at first.
LEMMA BoundedInit == Init => Bounded
BY HeaderTypesAssumption DEF Init, Bounded, UnderstoodInRange

\* No message is longer than a frame of CAN FD, whatever the header type, the
\* kind of message and the length the user asks for (the check of
\* hzl_CommonPacking.c, and the lengths of the messages of the handshake).
THEOREM FitsTheFrameCorrect == Spec => []FitsTheFrame
<1>1. Bounded => FitsTheFrame
  <2>1. \A n \in 0 .. MaxCanFdDataLen : n <= MaxCanFdDataLen
    BY DEF MaxCanFdDataLen
  <2> QED BY <2>1 DEF Bounded, FitsTheFrame, IsFrame
<1> QED BY <1>1, BoundedInit, BoundedStep, PTL DEF Spec

\* Of whatever bytes, built or noise, a receiver reads a Group and a sender
\* that the header type has, and data within the frame (the unpackers, and the
\* checks of lengths in the ProcessReceived functions).
THEOREM UnderstoodInRangeCorrect == Spec => []UnderstoodInRange
<1>1. Bounded => UnderstoodInRange
  BY DEF Bounded
<1> QED BY <1>1, BoundedInit, BoundedStep, PTL DEF Spec
=============================================================================
