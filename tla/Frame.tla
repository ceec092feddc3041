------------------------------- MODULE Frame -------------------------------
(***************************************************************************)
(* What travels on the bus: one frame is put on it, built by a party or    *)
(* noise, and received by the others, which read it with the same header   *)
(* type and learn how much user data it carries.                           *)
(***************************************************************************)
EXTENDS Wire

CONSTANTS
    HeaderTypes, \* the header types tried
    Gids, Sids,  \* bound: the Group and party identifiers tried
    Bytes,       \* bound: the bytes noise is made of
    DataLens     \* bound: the lengths of user data tried

ASSUME HeaderTypesAssumption == HeaderTypes \subseteq 0 .. 6
ASSUME GidsAssumption == Gids \subseteq Byte
ASSUME SidsAssumption == Sids \subseteq Byte
ASSUME BytesAssumption == Bytes \subseteq Byte
ASSUME DataLensAssumption == DataLens \subseteq Nat

----------------------------------------------------------------------------
VARIABLES
    type,     \* the header type of the whole bus
    frames,   \* the frame on the bus, if any
    sent,     \* history: what its builder meant, nothing for noise
    received  \* what the last receiver understood, if it did

vars == <<type, frames, sent, received>>

Init ==
    /\ type \in HeaderTypes
    /\ frames = {}
    /\ sent = {}
    /\ received = {}

Built(h, dataLen) ==
    /\ frames = {}
    /\ frames' = {PackedFrame(type, h, dataLen)}
    /\ sent' = {[hdr |-> h, dataLen |-> dataLen]}
    /\ UNCHANGED <<type, received>>

\* A party's SID fits the header type: Init checks it.
ConfiguredSids == Sids \cap 0 .. HeaderTypeMaxSid(type)

\* The three BuildUnsecured and BuildSecuredFd functions.
BuildUserData ==
    \E gid \in Gids, sid \in ConfiguredSids, pty \in {SADFD, UAD}, dataLen \in DataLens :
        /\ CheckMsgBeforePacking(type, gid, pty, dataLen)
        /\ Built(Header(gid, sid, pty), dataLen)

\* The messages of the handshake and of the renewal, for a configured Group.
BuildControl ==
    \E gid \in Gids \cap 0 .. HeaderTypeMaxGid(type), sid \in ConfiguredSids,
       pty \in {REN, RES, REQ} :
        Built(Header(gid, sid, pty), 0)

\* The length may be anything the frame can have, whatever its content.
Noise ==
    /\ frames = {}
    /\ \E bytes \in [1 .. HeaderLen(type) -> Bytes], ptlen \in Bytes, len \in DataLens :
        /\ len <= MaxCanFdDataLen
        /\ frames' = {[header |-> bytes, len |-> len, ptlen |-> ptlen]}
    /\ UNCHANGED <<type, sent, received>>

Receive ==
    \E frame \in frames, receiverSid \in ConfiguredSids :
        /\ received' = IF IsReadable(type, frame, receiverSid)
                       THEN {Understood(type, frame)}
                       ELSE {}
        /\ UNCHANGED <<type, frames, sent>>

Next ==
    \/ BuildUserData
    \/ BuildControl
    \/ Noise
    \/ Receive

Spec == Init /\ [][Next]_vars
----------------------------------------------------------------------------
(* Properties *)

\* What a receiver understands of a frame that another party built is what
\* that party meant: Group, sender, kind of message and length of the data.
UnderstoodAsSent == sent # {} => received \subseteq sent

\* No frame is longer than CAN FD allows, whatever the user asks to send.
FitsTheFrame == \A frame \in frames : frame.len <= MaxCanFdDataLen

\* Whatever the bytes received, the Group and the sender read from them are in
\* the range of the header type, and the data lies within the frame.
UnderstoodInRange ==
    \A r \in received : /\ r.hdr.gid \in 0 .. HeaderTypeMaxGid(type)
                        /\ r.hdr.sid \in 0 .. HeaderTypeMaxSid(type)
                        /\ r.dataLen \in 0 .. MaxCanFdDataLen - HeaderLen(type)

=============================================================================
