---------------------------- MODULE MCLab2Timer ----------------------------
(* Small instances of the lab 2 timer for TLC. *)
EXTENDS Lab2Timer

CONSTANTS w1, w2

Set(t) == [text |-> t, number |-> 10]
Max(n) == [text |-> <<>>, number |-> n]

\* Texts of two lengths, and maxima below and above the first one.
AllPackets == {Set(<<"a">>), Set(<<"b", "a">>), Max(0), Max(2)}
=============================================================================
