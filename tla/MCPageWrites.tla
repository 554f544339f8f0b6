---------------------------- MODULE MCPageWrites ----------------------------
(***************************************************************************)
(* Instances of PageWrites for TLC.                                        *)
(***************************************************************************)
EXTENDS PageWrites, TLC

CONSTANTS e1, l1, n1, r1, s1, a1, u1
=============================================================================
