---------------------------- MODULE MCSPITiming ----------------------------
(* Instances of SPITiming for TLC. *)
EXTENDS SPITiming

(* Every control word of the small divider. *)
AllControls == Control

(* The control words of the firmware, with its divider and the fastest one. *)
FirmwareControls == [cpol : {0}, cpha : {0}, clk_div : {0, 4}, start : Bit]

(* Timing does not depend on the word. *)
OneWord == {<<1, 0, 1>>}
=============================================================================
