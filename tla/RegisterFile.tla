---------------------------- MODULE RegisterFile ----------------------------
(***************************************************************************)
(* What the bus master may rely on: a file of registers with atomic reads  *)
(* and writes.  A write takes effect once, as a whole, at one moment       *)
(* between its request and its response; a read returns what the addressed *)
(* register, or the status side, held at one moment between its request    *)
(* and its response.  Reads and writes overlap freely.                     *)
(***************************************************************************)
EXTENDS Integers

CONSTANTS Lanes, Bytes

Regs == 0..3
RegWord == [Lanes -> Bytes]
Cleared == [l \in Lanes |-> 0]

VARIABLES
    reg,                \* the registers
    status, rx,         \* read-only side, owned by the SPI master
    wop, wstate,        \* the write in progress: "none", "asked", "applied"
    rop, rstate, val    \* the read in progress: "none", "asked", "served"

vars == <<reg, status, rx, wop, wstate, rop, rstate, val>>

WriteOps == [addr : Regs, data : RegWord, strb : SUBSET Lanes]

Init ==
    /\ reg = [r \in Regs |-> Cleared] /\ val = Cleared
    /\ wstate = "none" /\ rstate = "none"
    /\ wop \in WriteOps /\ rop \in Regs
    /\ status \in RegWord /\ rx \in RegWord

WriteSide ==
    \/ wstate = "none" /\ wstate' = "asked" /\ wop' \in WriteOps /\ UNCHANGED reg
    \/ /\ wstate = "asked" /\ wstate' = "applied" /\ UNCHANGED wop
       /\ reg' = [reg EXCEPT ![wop.addr] =
                    [l \in Lanes |-> IF l \in wop.strb THEN wop.data[l] ELSE @[l]]]
    \/ wstate = "applied" /\ wstate' = "none" /\ UNCHANGED <<wop, reg>>
    \/ UNCHANGED <<wstate, wop, reg>>

Contents(r) == CASE r = 2 -> status [] r = 3 -> rx [] OTHER -> reg[r]

ReadSide ==
    \/ rstate = "none" /\ rstate' = "asked" /\ rop' \in Regs /\ UNCHANGED val
    \/ /\ rstate = "asked" /\ rstate' = "served" /\ UNCHANGED rop
       /\ val' = Contents(rop)
    \/ rstate = "served" /\ rstate' = "none" /\ UNCHANGED <<rop, val>>
    \/ UNCHANGED <<rstate, rop, val>>

Reset ==
    /\ reg' = [r \in Regs |-> Cleared] /\ val' = Cleared
    /\ wstate' = "none" /\ rstate' = "none" /\ UNCHANGED <<wop, rop>>

Next ==
    /\ status' \in RegWord /\ rx' \in RegWord
    /\ (WriteSide /\ ReadSide) \/ Reset

Spec == Init /\ [][Next]_vars

=============================================================================
