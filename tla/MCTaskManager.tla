---------------------------- MODULE MCTaskManager ----------------------------
(***************************************************************************)
(* TaskManager on two pushers and three devices, two of them announced     *)
(* with the same address.                                                  *)
(***************************************************************************)
EXTENDS TaskManager, TLC

CONSTANTS p1, p2, d1, d2, d3, a1, a2

MCAddressOf == d1 :> a1 @@ d2 :> a2 @@ d3 :> a1
===============================================================================
