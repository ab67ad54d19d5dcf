------------------------------ MODULE MCActors ------------------------------
(* The program of class16 for TLC. *)
EXTENDS Actors
=============================================================================
