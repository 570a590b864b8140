----------------------------- MODULE MCReferral -----------------------------
(* A counter sale and a delivered order of one referred customer, and two  *)
(* deliveries of the outbox at a time.                                     *)
EXTENDS Referral, TLC

CONSTANTS o1, o2, w1, w2
=============================================================================
