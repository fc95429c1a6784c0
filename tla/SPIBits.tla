------------------------------ MODULE SPIBits ------------------------------
(***************************************************************************)
(* Bits and W-bit words of the RTL.  A word is a function on 1..W whose    *)
(* index 1 is the most significant bit (bit [W-1] of the Verilog vector),  *)
(* so that TLC prints it in the order in which it travels on the wire.     *)
(* In the source W is 8; the models keep it a parameter.                   *)
(***************************************************************************)
EXTENDS Integers

CONSTANT W              \* width of tx_data, rx_data and the shift registers

ASSUME WidthAssumption == W \in Nat \ {0}

Bit == {0, 1}

Word == [1..W -> Bit]

Zero == [i \in 1..W |-> 0]

(* The bit that leaves a shift register first. *)
Msb(w) == w[1]

(* {w[W-2:0], b}: every bit moves one place up, b enters at the bottom. *)
ShiftIn(w, b) == [i \in 1..W |-> IF i < W THEN w[i + 1] ELSE b]

-----------------------------------------------------------------------------
(* On the bus side a word is a number, here on the width of the word.      *)
ByteValues == 0..(2^W - 1)

(* The bits of a byte, and back. *)
BitsOf(n) == [i \in 1..W |-> (n \div 2^(W - i)) % 2]

(* Slip: the received byte lands one bit too high in its lane. *)
NumberOfShifted(word) == 2 * (CHOOSE n \in ByteValues : BitsOf(n) = word)

NumberOf(word) == CHOOSE n \in ByteValues : BitsOf(n) = word

=============================================================================
