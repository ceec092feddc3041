------------------------------- MODULE Checks -------------------------------
(***************************************************************************)
(* What the checks of the Server and of the Client have in common: errors  *)
(* are returned one at a time, the first check that fails giving the name  *)
(* of its error (without HZL_ERR_), and "OK" is that all passed. With them *)
(* the messages as a call gets and returns them, and their tags.           *)
(***************************************************************************)
EXTENDS Wire

LargestMaxCounterNonceDelay == 4194304 \* HZL_LARGEST_MAX_COUNTER_NONCE_DELAY
SADTP == 3 \* HZL_PTY_SADTP, which no party builds
BroadcastGid == 0
ServerSid == 0

Check(bad, err) == IF bad THEN err ELSE "OK"

\* What a function that returns at the first error returns.
FirstError(errs) ==
    IF \A i \in DOMAIN errs : errs[i] = "OK"
    THEN "OK"
    ELSE errs[CHOOSE i \in DOMAIN errs :
                /\ errs[i] # "OK"
                /\ \A j \in DOMAIN errs : j < i => errs[j] = "OK"]

HeaderTypeCheck(type) == Check(type \notin 0 .. 6, "INVALID_HEADER_TYPE")

----------------------------------------------------------------------------
(* Messages. A PDU is its packed header, its length and the fields that     *)
(* some payload type has; the others are 0. A tag is what it was computed   *)
(* from: a key and the authenticated fields. Equal tags are those of equal  *)
(* keys and fields.                                                         *)

Tag(key, label, h, fields) == [key |-> key, label |-> label, h |-> h, fields |-> fields]

\* The bytes of a tag nobody computed.
NoTag == Tag(-1, "none", Header(0, 0, 0), <<>>)

ReqTag(ltk, h, reqnonce) == Tag(ltk, "REQ", h, <<reqnonce>>)

\* Mutant: the GID of the header is not authenticated.
Mutant_ResTag(ltk, h, ctrnonce, reqnonce, client) ==
    Tag(ltk, "RES", [h EXCEPT !.gid = 0], <<ctrnonce, reqnonce, client>>)

ResTag(ltk, h, ctrnonce, reqnonce, client) == Tag(ltk, "RES", h, <<ctrnonce, reqnonce, client>>)
RenTag(stk, h, ctrnonce) == Tag(stk, "REN", h, <<ctrnonce>>)

\* Mutant: the GID of the header is not authenticated.
Mutant_SadfdTag(stk, h, ctrnonce, ptlen) ==
    Tag(stk, "SADFD", [h EXCEPT !.gid = 0], <<ctrnonce, ptlen>>)

SadfdTag(stk, h, ctrnonce, ptlen) == Tag(stk, "SADFD", h, <<ctrnonce, ptlen>>)

Pdu(header, len) ==
    [header |-> header, len |-> len,
     ctrnonce |-> 0, ptlen |-> 0, reqnonce |-> 0, client |-> 0, stk |-> 0, tag |-> NoTag]

\* A PDU with the header h and n bytes of user data.
PduOf(type, h, n) == Pdu(HeaderPack(type, h), HeaderLen(type) + MetadataLen(h.pty) + n)

\* Mutant: the length is only compared with the largest frame's.
Mutant_SadfdIsWhole(type, pdu) ==
    HeaderLen(type) + MetadataLen(SADFD) + pdu.ptlen <= MaxCanFdDataLen

\* The ptlen field of a SADFD says how long the frame must be.
SadfdIsWhole(type, pdu) ==
    /\ HeaderLen(type) + MetadataLen(SADFD) + pdu.ptlen <= pdu.len
    /\ HeaderLen(type) + MetadataLen(SADFD) + pdu.ptlen <= MaxCanFdDataLen

\* sdu of the user data of a PDU with header h.
SduOf(h, dataLen, wasSecured) ==
    [gid |-> h.gid, sid |-> h.sid, dataLen |-> dataLen, wasSecured |-> wasSecured]

\* hzl_CommonCheckMsgBeforePacking, with its errors.
MsgBeforePackingErr(type, gid, pty, data) ==
    FirstError(<<
        Check(data.null /\ data.len # 0, "NULL_SDU"),
        Check(gid > HeaderTypeMaxGid(type), "GID_TOO_LARGE_FOR_CONFIGURED_HEADER_TYPE"),
        Check(data.len > MaxCanFdDataLen - HeaderLen(type) - MetadataLen(pty), "TOO_LONG_SDU")>>)

\* hzl_CommonCheckReceivedGenericMsg, with its errors.
ReceivedGenericMsgErr(type, pdu, isNull, receiverSid) ==
    FirstError(<<
        Check(isNull /\ pdu.len # 0, "NULL_PDU"),
        Check(pdu.len < HeaderLen(type), "TOO_SHORT_PDU_TO_CONTAIN_HEADER"),
        IF pdu.len < HeaderLen(type) THEN "OK"
        ELSE Check(HeaderUnpack(type, pdu.header).sid = receiverSid, "SECWARN_MESSAGE_FROM_MYSELF")>>)
=============================================================================
