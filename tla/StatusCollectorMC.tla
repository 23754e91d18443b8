------------------------- MODULE StatusCollectorMC -------------------------
(***************************************************************************)
(* Values for the constants of StatusCollector: powers on both sides of    *)
(* the carry into the high word, the temperatures at the ends of their     *)
(* range and next to zero.                                                 *)
(***************************************************************************)
EXTENDS StatusCollector

AroundCarry == {65535, 65536}

SignedEdges == {-32768, -1, 32767}

LoadAndFaultBits == {51}
=============================================================================
