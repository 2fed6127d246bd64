------------------------------ MODULE MCSession ------------------------------
(***************************************************************************)
(* Session with three devices, two of them announced with the same        *)
(* address.                                                                *)
(***************************************************************************)
EXTENDS Session, TLC

CONSTANTS d1, d2, d3, a1, a2

MCAddressOf == d1 :> a1 @@ d2 :> a1 @@ d3 :> a2
===============================================================================
