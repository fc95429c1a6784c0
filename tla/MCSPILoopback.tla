--------------------------- MODULE MCSPILoopback ---------------------------
(* Instances of SPILoopback for TLC. *)
EXTENDS SPILoopback

(* Every control word of the small divider. *)
AllControls == Control

(* Two words that tell apart bit order, lost bits and repeated bits. *)
SmallTxWords == {<<1, 0, 0>>, <<0, 1, 1>>}
=============================================================================
