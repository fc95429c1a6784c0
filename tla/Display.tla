------------------------------ MODULE Display ------------------------------
(***************************************************************************)
(* What the multiplexed display promises the eye: after a flash at power   *)
(* up, at most one digit is lit at a time, in turn, always with the shape  *)
(* of its own digit of the number, and all is dark in between.             *)
(***************************************************************************)
EXTENDS Integers

CONSTANT Nums           \* the numbers shown

VARIABLES
    num,                \* the number
    at,                 \* digits lit, 0 the rightmost
    segs,               \* segments lit, 0..6 for a..g; none when all is dark
    last,               \* the digit lit last
    booting             \* not set up yet

vars == <<num, at, segs, last, booting>>

Positions == 0..3

(* The shapes of the ten digits. *)
Shape == [d \in 0..9 |->
    CASE d = 0 -> {0, 1, 2, 3, 4, 5}
      [] d = 1 -> {1, 2}
      [] d = 2 -> {0, 1, 3, 4, 6}
      [] d = 3 -> {0, 1, 2, 3, 6}
      [] d = 4 -> {1, 2, 5, 6}
      [] d = 5 -> {0, 2, 3, 5, 6}
      [] d = 6 -> {0, 2, 3, 4, 5, 6}
      [] d = 7 -> {0, 1, 2}
      [] d = 8 -> 0..6
      [] d = 9 -> {0, 1, 2, 3, 5, 6}]

Init == num = 0 /\ at = {} /\ segs = {} /\ last = 0 /\ booting = TRUE

(* While the ports are set up, everything may light. *)
Flash ==
    /\ booting
    /\ at' = Positions /\ segs' \in SUBSET (0..6)
    /\ UNCHANGED <<num, last, booting>>

Booted == booting /\ booting' = FALSE /\ UNCHANGED <<num, at, segs, last>>

Blank == at' = {} /\ segs' = {} /\ UNCHANGED <<num, last, booting>>

Show ==
    /\ at = {} /\ ~booting
    /\ last' = (last + 1) % 4
    /\ at' = {last'} /\ segs' = Shape[(num \div 10^last') % 10]
    /\ UNCHANGED <<num, booting>>

SetNum == num' \in Nums /\ UNCHANGED <<at, segs, last, booting>>

Next == Flash \/ Booted \/ Blank \/ Show \/ SetNum

Spec == Init /\ [][Next]_vars

=============================================================================
