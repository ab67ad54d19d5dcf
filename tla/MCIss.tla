------------------------------- MODULE MCIss -------------------------------
(***************************************************************************)
(* Small programs for the simulator: every program of Length lines made of *)
(* the lines below.  With a ByteSize of 8 the registers hold -4..3, so     *)
(* that the additions overflow and negative registers address memory.      *)
(***************************************************************************)
EXTENDS Iss

CONSTANT Length

Two(mnemonic, a, b)     == [mnemonic |-> mnemonic, arg1 |-> a, arg2 |-> b]
Add(a, b)               == [mnemonic |-> "ADD", arg1 |-> a, arg2 |-> b, kind |-> "register"]
AddImmediate(a, n)      == [mnemonic |-> "ADD", arg1 |-> a, arg2 |-> n, kind |-> "number"]
Jump(mnemonic, address) == [mnemonic |-> mnemonic, arg1 |-> address]

SomeLines ==
    { Two("MOV", 1, -3), AddImmediate(1, 2), Add(2, 1), Two("CMP", 1, 2),
      Jump("JE", FirstLine + 2), Jump("JMP", FirstLine), Two("LD", 2, 1), Two("ST", 1, 1),
      Two("ST", 2, 1), [mnemonic |-> "other"] }

AllPrograms == [1..Length -> SomeLines]
=============================================================================
