-------------------------------- MODULE Wire --------------------------------
(***************************************************************************)
(* The bytes of a CBS message: the header, packed into 1 to 3 bytes of the *)
(* CAN FD frame in one of seven formats, and the lengths of the payloads   *)
(* behind it.                                                              *)
(*                                                                         *)
(* The fields are 8 bits wide. A mask of the k low bits is % 2^k, a shift  *)
(* is a product or a quotient by 2^k, and | of disjoint bits is a sum.     *)
(***************************************************************************)
EXTENDS Integers, Sequences

Byte == 0 .. 255

\* The payload types a party builds; 6 and 7 are reserved.
REN   == 0
RES   == 1
REQ   == 2
SADFD == 4
UAD   == 5

MaxCanFdDataLen == 64

----------------------------------------------------------------------------
(* The header *)

HeaderLen(type) ==
    CASE type = 0 -> 3
      [] type \in {1, 2, 5} -> 2
      [] type \in {3, 4, 6} -> 1

HeaderTypeMaxSid(type) ==
    CASE type \in {0, 2, 5} -> 255
      [] type \in {1, 6} -> 31
      [] type = 3 -> 3
      [] type = 4 -> 7

HeaderTypeMaxGid(type) ==
    CASE type \in {0, 1} -> 255
      [] type = 2 -> 31
      [] type = 3 -> 7
      [] type = 4 -> 3
      [] type \in {5, 6} -> 0

\* Mutant: type 4 is packed as type 3.
Mutant_HeaderPack(type, h) ==
    CASE type = 0 -> <<h.gid, h.sid, h.pty>>
      [] type = 1 -> <<h.gid, (((h.sid % 32) * 32) % 256) + (h.pty % 8)>>
      [] type = 2 -> <<h.sid, (((h.gid % 32) * 32) % 256) + (h.pty % 8)>>
      [] type \in {3, 4} -> <<(h.gid % 8) * 32 + (h.sid % 4) * 8 + (h.pty % 8)>>
      [] type = 5 -> <<h.sid, h.pty % 8>>
      [] type = 6 -> <<(h.sid % 32) * 8 + (h.pty % 8)>>

\* Types 1 and 2 shift a field of 5 bits by 5, out of the byte.
HeaderPack(type, h) ==
    CASE type = 0 -> <<h.gid, h.sid, h.pty>>
      [] type = 1 -> <<h.gid, (((h.sid % 32) * 32) % 256) + (h.pty % 8)>>
      [] type = 2 -> <<h.sid, (((h.gid % 32) * 32) % 256) + (h.pty % 8)>>
      [] type = 3 -> <<(h.gid % 8) * 32 + (h.sid % 4) * 8 + (h.pty % 8)>>
      [] type = 4 -> <<(h.sid % 8) * 32 + (h.gid % 4) * 8 + (h.pty % 8)>>
      [] type = 5 -> <<h.sid, h.pty % 8>>
      [] type = 6 -> <<(h.sid % 32) * 8 + (h.pty % 8)>>

Header(gid, sid, pty) == [gid |-> gid, sid |-> sid, pty |-> pty]

\* Mutant: the lower field of types 3 and 4 is not masked.
Mutant_HeaderUnpack(type, b) ==
    CASE type = 0 -> Header(b[1], b[2], b[3])
      [] type = 1 -> Header(b[1], b[2] \div 8, b[2] % 8)
      [] type = 2 -> Header(b[2] \div 8, b[1], b[2] % 8)
      [] type = 3 -> Header(b[1] \div 32, b[1] \div 8, b[1] % 8)
      [] type = 4 -> Header(b[1] \div 8, b[1] \div 32, b[1] % 8)
      [] type = 5 -> Header(0, b[1], b[2] % 8)
      [] type = 6 -> Header(0, b[1] \div 8, b[1] % 8)

HeaderUnpack(type, b) ==
    CASE type = 0 -> Header(b[1], b[2], b[3])
      [] type = 1 -> Header(b[1], b[2] \div 8, b[2] % 8)
      [] type = 2 -> Header(b[2] \div 8, b[1], b[2] % 8)
      [] type = 3 -> Header(b[1] \div 32, (b[1] \div 8) % 4, b[1] % 8)
      [] type = 4 -> Header((b[1] \div 8) % 4, b[1] \div 32, b[1] % 8)
      [] type = 5 -> Header(0, b[1], b[2] % 8)
      [] type = 6 -> Header(0, b[1] \div 8, b[1] % 8)

----------------------------------------------------------------------------
(* The payload *)

\* Bytes of the payload that are not user data.
MetadataLen(pty) ==
    CASE pty = REN -> 19
      [] pty = RES -> 44
      [] pty = REQ -> 24
      [] pty = SADFD -> 12
      [] pty = UAD -> 0

\* Mutant: the header is not counted.
Mutant_CheckMsgBeforePacking(type, gid, pty, dataLen) ==
    /\ gid <= HeaderTypeMaxGid(type)
    /\ dataLen <= MaxCanFdDataLen - MetadataLen(pty)

CheckMsgBeforePacking(type, gid, pty, dataLen) ==
    /\ gid <= HeaderTypeMaxGid(type)
    /\ dataLen <= MaxCanFdDataLen - HeaderLen(type) - MetadataLen(pty)

\* A frame: its header bytes, its length, and the ptlen field of a SADFD.
PackedFrame(type, h, dataLen) ==
    [header |-> HeaderPack(type, h),
     len    |-> HeaderLen(type) + MetadataLen(h.pty) + dataLen,
     ptlen  |-> dataLen]

\* What the receiver understands. A SADFD says how long its data is; for UAD
\* it is what is left of the frame. The others carry no user data.
Understood(type, frame) ==
    LET h == HeaderUnpack(type, frame.header)
    IN  [hdr |-> h,
         dataLen |-> CASE h.pty = SADFD -> frame.ptlen
                       [] h.pty = UAD -> frame.len - HeaderLen(type)
                       [] OTHER -> 0]

\* A frame is only read as far as it is long.
IsReadable(type, frame, receiverSid) ==
    /\ frame.len >= HeaderLen(type)
    /\ LET h == HeaderUnpack(type, frame.header)
       IN  /\ h.sid # receiverSid
           /\ h.pty \in {REN, RES, REQ, SADFD, UAD}
           /\ h.pty # UAD => frame.len >= HeaderLen(type) + MetadataLen(h.pty)
           /\ h.pty = SADFD =>
                HeaderLen(type) + MetadataLen(SADFD) + frame.ptlen <= frame.len
=============================================================================
