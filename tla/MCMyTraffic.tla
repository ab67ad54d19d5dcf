---------------------------- MODULE MCMyTraffic ----------------------------
(* Small instances of the traffic light driver for TLC. *)
EXTENDS MyTraffic

CONSTANTS w1, w2, r1    \* processes

BothButtons == {"btn0", "btn1"}
Btn0Only    == {"btn0"}

AllValues == {"0", "1", "other", "error"}
ZeroOne   == {"0", "1"}
=============================================================================
