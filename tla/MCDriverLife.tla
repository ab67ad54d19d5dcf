---------------------------- MODULE MCDriverLife ----------------------------
(* All drivers of the repository for TLC. *)
EXTENDS DriverLife

AllDrivers == DOMAIN Table
=============================================================================
