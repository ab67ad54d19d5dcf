----------------------------- MODULE MCNibbler -----------------------------
(* A small buffer and a few messages for TLC. *)
EXTENDS Nibbler

CONSTANTS u1, u2, u3, a, b

\* Less than a bite, more than a bite, more than the buffer.
SomeTexts == { <<>>, <<a>>, <<b, a, b>>, <<b, b, a, a>> }
=============================================================================
