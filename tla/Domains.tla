------------------------------ MODULE Domains ------------------------------
(***************************************************************************)
(* The sizes that every context has in common, however it is configured:   *)
(* of a timestamp, of a counter nonce, and how many Session keys there are.*)
(***************************************************************************)
EXTENDS Integers

CONSTANTS
    TimestampDomainSize, \* HZL_TIMESTAMP_DOMAIN_SIZE, 2^32 in the code
    MaxCtrnonce,         \* HZL_MAX_CTRNONCE, 0xFFFFFF in the code
    MaxStk               \* bound: how many STKs are ever drawn

ASSUME TimestampDomainSizeAssumption == TimestampDomainSize \in Nat /\ TimestampDomainSize > 1
ASSUME MaxCtrnonceAssumption == MaxCtrnonce \in Nat \ {0}
ASSUME MaxStkAssumption == MaxStk \in Nat \ {0}
=============================================================================
