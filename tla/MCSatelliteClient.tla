-------------------------- MODULE MCSatelliteClient --------------------------
(* Small instances of SatelliteClient for TLC: the cfgs give the numbers.  *)
EXTENDS SatelliteClient
=============================================================================
