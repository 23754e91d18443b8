------------------------------ MODULE FanOutMC ------------------------------
(* Values for the constants of FanOut.                                     *)
EXTENDS FanOut

CONSTANTS epever, voltgo

TwoAndOne == [c \in {epever, voltgo} |-> IF c = epever THEN 2 ELSE 1]
=============================================================================
