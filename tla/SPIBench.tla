------------------------------ MODULE SPIBench ------------------------------
(***************************************************************************)
(* What the two UVM benches share: the peripheral as device under test and *)
(* the sequence of register accesses by which their drivers send one item. *)
(* How an access waits for the bus, and what monitor and scoreboard look   *)
(* at, is each bench's own (UVMBench, LoopbackBench).                      *)
(*                                                                         *)
(* Everything runs at posedge clk.  Driver and monitor read the signals as *)
(* they are before the edge, since their values change in the non-blocking *)
(* region.  The address and data lines hold those of the access under way, *)
(* so they are not variables.                                              *)
(***************************************************************************)
EXTENDS AXISPI, Sequences

CONSTANT Items          \* what randomize() may give: register word m, reply s

ASSUME ItemsAssumption ==
    Items # {} /\ Items \subseteq [m : Axi!RegWord, s : ByteValues]

VARIABLES
    op,                 \* access of the item under way
    item,               \* req of the driver
    got,                \* rdata of the driver
    awvalid, wvalid, bready, arvalid, rready,   \* the bus master's signals
    checked,            \* history: what the scoreboard was given of the item
    failed,             \* fail_cnt > 0
    finished            \* history: the item before, <<>> in the first one

busSignals == <<awvalid, wvalid, bready, arvalid, rready>>
benchVars == <<op, item, got, busSignals, checked, failed, finished>>

StartWord == Reg(0, 4, 0, 2^(W - 1))
StopWord == Reg(0, 4, 0, 0)

WriteOf == [tx    |-> [addr |-> 1, data |-> item.m],
            start |-> [addr |-> 0, data |-> StartWord],
            stop  |-> [addr |-> 0, data |-> StopWord]]
ReadOf == [poll |-> 2, read |-> 3]

Writing == op \in DOMAIN WriteOf

(* Slip: the bench leaves the loop on done instead of busy. *)
StillBusyOnDone(word) == word[0] % 2 = 1

StillBusy(word) == (word[0] \div 2) % 2 = 1

(* The access after op; rd is what op read. *)
Following(rd) ==
    CASE op = "tx"    -> "start"
      [] op = "start" -> "stop"
      [] op = "stop"  -> "poll"
      [] op = "poll"  -> IF StillBusy(rd) THEN "poll" ELSE "read"
      [] op = "read"  -> "tx"

BenchTypeOK ==
    /\ MasterTypeOK /\ Axi!AxiTypeOK
    /\ op \in DOMAIN WriteOf \cup DOMAIN ReadOf
    /\ item \in Items /\ got \in Axi!RegWord
    /\ \A i \in 1..5 : busSignals[i] \in Bit
    /\ failed \in BOOLEAN
    /\ Len(checked) <= 2 /\ Len(finished) <= 1

BenchInit ==
    /\ PeripheralInit
    /\ op = "tx" /\ item \in Items /\ got = Reg(0, 0, 0, 0)
    /\ awvalid = 0 /\ wvalid = 0 /\ bready = 0 /\ arvalid = 0 /\ rready = 0
    /\ checked = <<>> /\ failed = FALSE /\ finished = <<>>

(* The device under test at a clock edge. *)
DutEdge(miso) ==
    LET w == IF Writing THEN WriteOf[op] ELSE WriteOf["tx"]
        a == IF Writing THEN 0 ELSE ReadOf[op]
    IN PeripheralEdge([valid |-> awvalid, addr |-> w.addr],
                      [valid |-> wvalid, data |-> w.data, strb |-> 0..3], bready,
                      [valid |-> arvalid, addr |-> a], rready, miso)

(* The access ends: the next one, and after the last read the next item.   *)
Return(rd) ==
    /\ op' = Following(rd)
    /\ IF op = "read" THEN item' \in Items /\ finished' = <<item>>
                      ELSE UNCHANGED <<item, finished>>

(* The scoreboard's write(), called by the monitor.  The history starts     *)
(* afresh with an item and keeps at most two calls.                         *)
Score(reporting, sent, agrees, fresh) ==
    LET old == IF fresh THEN <<>> ELSE checked IN
    /\ checked' = IF reporting /\ Len(old) < 2 THEN Append(old, sent) ELSE old
    /\ failed' = (failed \/ (reporting /\ ~agrees))

-----------------------------------------------------------------------------
(* No comparison of the scoreboard fails. *)
ScoreboardPasses == ~failed

(* The scoreboard has compared the item just finished, once, by the values  *)
(* the driver used: none is skipped, none counted twice or mixed up.        *)
ItemChecked(atEnd, SentBy(_)) ==
    atEnd /\ finished # <<>> => checked = <<SentBy(finished[1])>>

=============================================================================
