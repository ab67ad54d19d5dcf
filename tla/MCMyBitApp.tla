----------------------------- MODULE MCMyBitApp -----------------------------
(* Short words and short files for TLC. *)
EXTENDS MyBitApp

\* Negative and equal numbers, 010 once and overlapping, mirrors of one
\* and of two digits.
SomeNumbers == {-8, -3, 2, 4, 5, 8, 10}
=============================================================================
