------------------------------ MODULE MCTopUps ------------------------------
(***************************************************************************)
(* Instances of TopUps for TLC: every attempt is for the one order.        *)
(* Orders share nothing but the wallet, whose statements are atomic.       *)
(***************************************************************************)
EXTENDS TopUps, TLC

CONSTANT o1

MCOrderOf == [p \in Payments |-> o1]
=============================================================================
