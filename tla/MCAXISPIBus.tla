---------------------------- MODULE MCAXISPIBus ----------------------------
(* Instance of AXISPIBus for TLC: bytes of two bits. *)
EXTENDS AXISPIBus

Start == Reg(0, 0, 0, 2)
Whole == 0..3

(* Start in mode 0 with divider 0; stop with divider 1 and the other phase  *)
(* and polarity; write a word whose bits differ: all at any time.           *)
SomeWrites ==
    {[addr |-> 0, data |-> Start, strb |-> Whole],
     [addr |-> 0, data |-> Reg(3, 1, 0, 0), strb |-> Whole],
     [addr |-> 1, data |-> Reg(1, 0, 0, 0), strb |-> {0}]}
=============================================================================
