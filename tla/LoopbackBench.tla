--------------------------- MODULE LoopbackBench ---------------------------
(***************************************************************************)
(* Verifi/tb: driver, monitor and scoreboard around the peripheral with    *)
(* miso tied to mosi.  Its axi_write and axi_read wait for a level instead *)
(* of polling at clock edges, so they see a READY or an answer in the very *)
(* step in which the peripheral raises it; they have no timeout.  The      *)
(* peripheral's outputs have all changed by the time a wait ends.          *)
(***************************************************************************)
EXTENDS SPIBench

VARIABLES
    stage,              \* where the driver waits
    temp_tx             \* local of the monitor

(* Bench and peripheral stay in their ranges. *)
TypeOK ==
    /\ BenchTypeOK
    /\ stage \in {"begin", "ready", "drop", "answer", "last"}
    /\ temp_tx \in ByteValues

Init ==
    /\ BenchInit
    /\ stage = "begin" /\ temp_tx = 0

-----------------------------------------------------------------------------
Taken == IF Writing THEN awready = 1 /\ wready = 1 ELSE arready = 1

Answered == IF Writing THEN bvalid = 1 ELSE rvalid = 1

(* VALID and the READY of the answer go up together. *)
BeginStep ==
    /\ stage = "begin"
    /\ IF Writing
       THEN /\ awvalid' = 1 /\ wvalid' = 1 /\ bready' = 1
            /\ UNCHANGED <<arvalid, rready>>
       ELSE /\ arvalid' = 1 /\ rready' = 1
            /\ UNCHANGED <<awvalid, wvalid, bready>>
    /\ UNCHANGED <<op, item, got, finished>>
    /\ stage' = IF Taken \/ Taken' THEN "drop" ELSE "ready"

ReadyStep ==
    /\ stage = "ready"
    /\ UNCHANGED <<op, item, got, finished, busSignals>>
    /\ stage' = IF Taken' THEN "drop" ELSE "ready"

(* After the handshake VALID goes down, and the answer may be there before  *)
(* this edge or come with it.                                               *)
AnswerStep ==
    /\ stage \in {"drop", "answer"}
    /\ awvalid' = 0 /\ wvalid' = 0 /\ arvalid' = 0
    /\ UNCHANGED <<op, item, finished, bready, rready>>
    /\ stage' = IF Answered \/ Answered' THEN "last" ELSE "answer"
    /\ got' = IF Writing THEN got
              ELSE IF Answered THEN rdata
              ELSE IF Answered' THEN rdata' ELSE got

LastStep ==
    /\ stage = "last" /\ stage' = "begin"
    /\ bready' = 0 /\ rready' = 0
    /\ Return(got)
    /\ UNCHANGED <<got, awvalid, wvalid, arvalid>>

Driver == BeginStep \/ ReadyStep \/ AnswerStep \/ LastStep

-----------------------------------------------------------------------------
ItemBegins == stage = "begin" /\ op = "tx"

Notes == wvalid = 1 /\ wready = 1 /\ WriteOf[op].addr = 1

Monitor ==
    /\ temp_tx' = IF Notes THEN WriteOf[op].data[0] ELSE temp_tx
    /\ Score(rvalid = 1 /\ rready = 1 /\ ReadOf[op] = 3, temp_tx',
             temp_tx' = rdata[0], ItemBegins)

Clock ==
    /\ DutEdge(mosi)
    /\ Driver
    /\ Monitor

-----------------------------------------------------------------------------
(* An item finished was given to the scoreboard once, by its own byte. *)
ItemCompared == ItemChecked(ItemBegins, LAMBDA i : i.m[0])

=============================================================================
