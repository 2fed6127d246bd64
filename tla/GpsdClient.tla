------------------------------ MODULE GpsdClient ------------------------------
(***************************************************************************)
(* The optional GPS of src/GpsdClient.{h,cpp}: the loop of read(), one     *)
(* report at a time, against a gpsd that may be absent, late, gone, or     *)
(* send reports with no usable fix.  Coordinates are abstracted to where   *)
(* they come from.                                                         *)
(*                                                                         *)
(* A module that uses the client calls Read when it is idle and takes the  *)
(* result with Return.                                                     *)
(***************************************************************************)
EXTENDS Naturals

CONSTANTS
  MaxModeRetry,   \* MAX_MODE_RETRY
  Report          \* the reports gpsd may send

\* gps_data_t: the flags of "set", fix.mode (2 is MODE_2D, 3 is MODE_3D), and which of the
\* coordinates are finite numbers.
GpsData == [set : SUBSET {"mode", "latlon", "altitude"},
            mode : 0..3,
            finite : SUBSET {"latlon", "altitude"}]

ASSUME GpsAssumption == MaxModeRetry \in Nat \ {0} /\ Report \subseteq GpsData

VARIABLES
  available,   \* available_
  reader,      \* where read() is; "ok" and "failed" are its results
  retries,     \* rounds so far
  gpsData,     \* the last report of this call
  gpsFix       \* the caller's GpsFix, the argument of read()

gpsVars == <<available, reader, retries, gpsData, gpsFix>>

Coordinate == {"unset", "measured", "zero"}
GpsFix == [latlon : Coordinate, altitude : Coordinate]
Uninitialised == [latlon |-> "unset", altitude |-> "unset"]
NoReport == [set |-> {}, mode |-> 0, finite |-> {}]

\* GpsdClient() and init(): without a stream the GPS stays unavailable.
GpsInit ==
  /\ available \in BOOLEAN
  /\ reader = "idle"
  /\ retries = 0
  /\ gpsData = NoReport
  /\ gpsFix = Uninitialised

\* read(gpsFix) is called, which the caller only does while available().
Read ==
  /\ reader = "idle"
  /\ available
  /\ reader' = "round"
  /\ gpsFix' = Uninitialised
  /\ UNCHANGED <<available, retries, gpsData>>

\* waiting(READ_TIMEOUT) is false, or the stream's read() gives nothing.
GiveUp ==
  /\ reader = "round"
  /\ reader' = "failed"
  /\ UNCHANGED <<available, retries, gpsData, gpsFix>>

\* Defect, for the mutant runs: one round too many.
AnotherToo(r) == "mode" \notin r.set /\ retries + 1 <= MaxModeRetry

\* The loop's condition, after retries++.
Another(r) == "mode" \notin r.set /\ retries + 1 < MaxModeRetry

\* The four tests that follow the loop.
IsUsable(r) == {"mode", "latlon"} \subseteq r.set /\ r.mode >= 2 /\ "latlon" \in r.finite

\* Latitude and longitude, and the altitude of a 3D fix or 0.0.
Filled(r) ==
  [latlon |-> "measured",
   altitude |-> IF "altitude" \in r.set \intersect r.finite /\ r.mode >= 3
                  THEN "measured" ELSE "zero"]

\* Defect: the position is copied before it is tested.
ReceiveInPlace(r) ==
  /\ reader = "round"
  /\ gpsData' = r
  /\ gpsFix' = Filled(r)
  /\ \/ Another(r) /\ retries' = retries + 1 /\ reader' = reader
     \/ ~Another(r) /\ retries' = retries /\ reader' = IF IsUsable(r) THEN "ok" ELSE "failed"
  /\ UNCHANGED available

\* Defect: retries++ is missing.
ReceiveUncounted(r) ==
  /\ reader = "round"
  /\ gpsData' = r
  /\ IF Another(r) THEN UNCHANGED <<reader, gpsFix>>
     ELSE IF IsUsable(r) THEN reader' = "ok" /\ gpsFix' = Filled(r)
     ELSE reader' = "failed" /\ UNCHANGED gpsFix
  /\ UNCHANGED <<available, retries>>

\* A report arrives: another round, a usable fix, or an error.
Receive(r) ==
  /\ reader = "round"
  /\ gpsData' = r
  /\ \/ Another(r) /\ retries' = retries + 1 /\ UNCHANGED <<reader, gpsFix>>
     \/ /\ ~Another(r)
        /\ retries' = retries
        /\ IF IsUsable(r) THEN reader' = "ok" /\ gpsFix' = Filled(r)
                          ELSE reader' = "failed" /\ UNCHANGED gpsFix
  /\ UNCHANGED available

\* The caller has the result; read()'s locals are gone.
Return ==
  /\ reader \in {"ok", "failed"}
  /\ reader' = "idle"
  /\ retries' = 0
  /\ gpsData' = NoReport
  /\ UNCHANGED <<available, gpsFix>>

GpsNext == Read \/ GiveUp \/ (\E r \in Report : Receive(r)) \/ Return

GpsSpec == GpsInit /\ [][GpsNext]_gpsVars
-------------------------------------------------------------------------------
(* Properties. *)

GpsTypeOK ==
  /\ available \in BOOLEAN
  /\ reader \in {"idle", "round", "ok", "failed"}
  /\ retries \in 0..(MaxModeRetry - 1)
  /\ gpsData \in Report \union {NoReport}
  /\ gpsFix \in GpsFix

\* read() fills the whole of the fix from one and the same report, a usable one, or leaves
\* it untouched: no coordinate of a report that is refused, or of an earlier round, reaches
\* the caller, and the altitude is never left unset beside a position.
ReadIsAllOrNothing ==
  /\ reader = "ok" => /\ IsUsable(gpsData)
                      /\ gpsFix.latlon = "measured"
                      /\ gpsFix.altitude = IF gpsData.mode = 3 /\ "altitude" \in gpsData.finite
                                              /\ "altitude" \in gpsData.set
                                           THEN "measured" ELSE "zero"
  /\ reader \in {"round", "failed"} => gpsFix = Uninitialised
===============================================================================
