---------------------------- MODULE MCDeviceClient ----------------------------
(***************************************************************************)
(* DeviceClient on two devices; the first has two GATT services with one   *)
(* characteristic each, the second has one service.                        *)
(***************************************************************************)
EXTENDS DeviceClient, TLC

CONSTANTS d1, d2, a1, a2, s1, s2, s3, c1, c2

MCAddressOf == d1 :> a1 @@ d2 :> a2
MCOwnerOf == s1 :> a1 @@ s2 :> a1 @@ s3 :> a2
MCServiceOf == c1 :> s1 @@ c2 :> s2
===============================================================================
