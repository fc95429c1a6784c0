------------------------------ MODULE MCSPIHal ------------------------------
(* Instances of SPIHal for TLC, at the width and the divider of the source. *)
EXTENDS SPIHal
=============================================================================
