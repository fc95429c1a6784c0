----------------------------- MODULE MCSPILink -----------------------------
(* Instances of SPILink for TLC, at the width of the source. *)
EXTENDS SPILink

OneWord == {<<1, 0, 1, 0, 0, 1, 1, 0>>}
TwoWords == {<<1, 0, 1, 0, 0, 1, 1, 0>>, <<0, 1, 1, 1, 0, 0, 0, 1>>}
SlaveWords == {<<0, 1, 0, 0, 1, 1, 0, 1>>, <<1, 1, 0, 1, 0, 0, 1, 0>>}
=============================================================================
