------------------------------ MODULE MCPipeline ------------------------------
(***************************************************************************)
(* Pipeline with two device objects of different addresses in each run.    *)
(***************************************************************************)
EXTENDS Pipeline, TLC

CONSTANTS d1, d2, a1, a2

MCAddressOf == d1 :> a1 @@ d2 :> a2

\* Two reports without a mode, and some with one: no position, a mode too low, a position
\* that is not a number, a 2D fix that carries an altitude, a 3D fix.
MCReport ==
  {[set |-> {}, mode |-> 0, finite |-> {}],
   [set |-> {"latlon"}, mode |-> 0, finite |-> {"latlon"}],
   [set |-> {"mode"}, mode |-> 1, finite |-> {}],
   [set |-> {"mode", "latlon"}, mode |-> 1, finite |-> {"latlon"}],
   [set |-> {"mode", "latlon"}, mode |-> 2, finite |-> {}],
   [set |-> {"mode", "latlon", "altitude"}, mode |-> 2, finite |-> {"latlon", "altitude"}],
   [set |-> {"mode", "latlon", "altitude"}, mode |-> 3, finite |-> {"latlon", "altitude"}]}
===============================================================================
