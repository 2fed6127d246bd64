------------------------------ MODULE MCDatabase ------------------------------
(***************************************************************************)
(* Database with two devices, so that one can be seen again, and an        *)
(* uninitialised id_ that may or may not collide with the id of a row.     *)
(***************************************************************************)
EXTENDS Database, TLC

CONSTANTS i1, i2

\* The identifiers are interchangeable: nothing compares them but equality.
IdentifierSymmetry == Permutations(Identifier)
===============================================================================
