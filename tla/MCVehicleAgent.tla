--------------------------- MODULE MCVehicleAgent ---------------------------
(* Bounds for VehicleAgent. *)
EXTENDS VehicleAgent
=============================================================================
