----------------------------- MODULE MCBenches -----------------------------
(* Instance of Benches for TLC at the width of the source.  The upper lanes  *)
(* of the word are random in the source too, and go nowhere.                 *)
EXTENDS Benches

SomeItems == [m : {Reg(166, 255, 0, 255), Reg(0, 7, 7, 0), Reg(255, 0, 0, 128),
                   Reg(85, 0, 1, 0)},
              s : {77, 255, 178}]
=============================================================================
