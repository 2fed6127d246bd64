--------------------------- MODULE GpsdClient_proofs ---------------------------
(***************************************************************************)
(* Proofs about GpsdClient, for any reports gpsd may send and any number   *)
(* of rounds.  The step lemma is stated for a single step, so that a       *)
(* module that composes the client with others can use it.                 *)
(***************************************************************************)
EXTENDS GpsdClient, TLAPS

\* The last of read()'s results rests on the report it kept.
GpsInv == GpsTypeOK /\ ReadIsAllOrNothing

LEMMA GpsInvInit == GpsInit => GpsInv
BY GpsAssumption
   DEF GpsInit, GpsInv, GpsTypeOK, ReadIsAllOrNothing, GpsFix, Coordinate, Uninitialised

\* What read() would return for a usable report is a fix.
LEMMA FilledIsFix ==
  ASSUME NEW r \in Report
  PROVE  Filled(r) \in GpsFix
BY DEF Filled, GpsFix, Coordinate

LEMMA GpsInvStep ==
  ASSUME GpsInv, [GpsNext]_gpsVars
  PROVE  GpsInv'
<1> USE GpsAssumption DEF GpsInv
<1>1. CASE Read
  BY <1>1 DEF Read, GpsTypeOK, ReadIsAllOrNothing, GpsFix, Coordinate, Uninitialised
<1>2. CASE GiveUp
  BY <1>2 DEF GiveUp, GpsTypeOK, ReadIsAllOrNothing
<1>3. ASSUME NEW r \in Report, Receive(r)
      PROVE  GpsInv'
  <2>1. reader = "round" /\ gpsFix = Uninitialised /\ gpsData' = r /\ available' = available
    BY <1>3 DEF Receive, ReadIsAllOrNothing
  <2>2. CASE Another(r)
    <3>1. retries' = retries + 1 /\ retries + 1 < MaxModeRetry /\ UNCHANGED <<reader, gpsFix>>
      BY <1>3, <2>2 DEF Receive, Another
    <3>2. QED
      BY <2>1, <3>1 DEF GpsTypeOK, ReadIsAllOrNothing
  <2>3. CASE ~Another(r) /\ IsUsable(r)
    <3>1. reader' = "ok" /\ gpsFix' = Filled(r) /\ retries' = retries
      BY <1>3, <2>3 DEF Receive
    <3>2. r \in GpsData
      OBVIOUS
    <3>3. r.mode >= 3 <=> r.mode = 3
      BY <3>2 DEF GpsData
    <3>4. ReadIsAllOrNothing'
      BY <2>1, <2>3, <3>1, <3>3 DEF ReadIsAllOrNothing, Filled
    <3>5. GpsTypeOK'
      BY <2>1, <3>1, FilledIsFix DEF GpsTypeOK
    <3>6. QED
      BY <3>4, <3>5
  <2>4. CASE ~Another(r) /\ ~IsUsable(r)
    <3>1. reader' = "failed" /\ gpsFix' = gpsFix /\ retries' = retries
      BY <1>3, <2>4 DEF Receive
    <3>2. QED
      BY <2>1, <3>1 DEF GpsTypeOK, ReadIsAllOrNothing
  <2>5. QED
    BY <2>2, <2>3, <2>4
<1>4. CASE Return
  BY <1>4 DEF Return, GpsTypeOK, ReadIsAllOrNothing
<1>5. CASE UNCHANGED gpsVars
  BY <1>5 DEF gpsVars, GpsTypeOK, ReadIsAllOrNothing
<1>6. QED
  BY <1>1, <1>2, <1>3, <1>4, <1>5 DEF GpsNext

\* The client's state keeps its types, and read() fills the whole fix from one usable
\* report or leaves it untouched, whatever gpsd sends, however late, and when it is gone.
THEOREM ReadIsSound == GpsSpec => [](GpsTypeOK /\ ReadIsAllOrNothing)
<1>1. GpsInv => GpsTypeOK /\ ReadIsAllOrNothing
  BY DEF GpsInv
<1>2. QED
  BY <1>1, GpsInvInit, GpsInvStep, PTL DEF GpsSpec
===============================================================================
