---------------------------- MODULE TelemetryMC ----------------------------
(***************************************************************************)
(* Values for the constants of Telemetry: the sizes of the code, twelve    *)
(* metrics of the Epever controller, eight of the Voltgo and a batch of    *)
(* twelve, for one controller at a time, and small ones for both together. *)
(***************************************************************************)
EXTENDS Telemetry

CONSTANTS epever, voltgo

RealCycles == [c \in Controllers |-> IF c = epever THEN 12 ELSE 8]

SmallCycles == [c \in Controllers |-> IF c = epever THEN 2 ELSE 1]

Voltgo == {voltgo}
=============================================================================
