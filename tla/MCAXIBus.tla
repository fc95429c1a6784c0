------------------------------ MODULE MCAXIBus ------------------------------
(* Instances of AXIBus for TLC: two lanes, so that a strobe can split a      *)
(* word, and a write to register 3, whose contents cannot be read back.     *)
EXTENDS AXIBus, TLC

w01 == (0 :> 0) @@ (1 :> 1)
w11 == (0 :> 1) @@ (1 :> 1)

SomeWrites == {[addr |-> 0, data |-> w11, strb |-> {0, 1}],
               [addr |-> 0, data |-> w01, strb |-> {0}],
               [addr |-> 3, data |-> w11, strb |-> {1}]}
NoWrites == {[addr |-> 0, data |-> w01, strb |-> {}]}
SomeStatuses == {w01, w11}
SomeRx == {w01}
=============================================================================
