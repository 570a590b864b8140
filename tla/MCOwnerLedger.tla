---------------------------- MODULE MCOwnerLedger ----------------------------
(* One counter sale that may be voided, two deliveries at a time, and an   *)
(* owner who cashes out.                                                   *)
EXTENDS OwnerLedger, TLC

CONSTANTS o1, w1, w2, c1
=============================================================================
