------------------------------ MODULE UVMBench ------------------------------
(***************************************************************************)
(* Verifi/UVM_AXI_SPI: driver, monitor and scoreboard around the           *)
(* peripheral and spi_slave.  The tasks axi_write and axi_read wait for    *)
(* each handshake and give up with uvm_fatal after 200 clocks; the two     *)
(* halves of a write wait in parallel.                                     *)
(***************************************************************************)
EXTENDS SPIBench

CONSTANT TimeoutLimit   \* clocks a handshake may take, 200 in the source

VARIABLES
    stage,              \* where the driver waits for the next edge
    warm,               \* clocks of repeat (10) after reset
    hand,               \* each channel's thread: "poll", "last" or "idle"
    waited,             \* the timeout counters of the access
    s_tx_data,          \* the slave's reply, set by the driver
    temp_m_tx, temp_s_tx, cur_araddr,       \* locals of the monitor
    s_state, s_bit_cnt, s_tx_shift_reg, s_rx_shift_reg, s_rx_data, miso,
    s_busy, s_done, sclk_0, sclk_1, cs_n_0, cs_n_1

S == INSTANCE SPISlave WITH
    state <- s_state, bit_cnt <- s_bit_cnt, tx_shift_reg <- s_tx_shift_reg,
    rx_shift_reg <- s_rx_shift_reg, rx_data <- s_rx_data,
    busy <- s_busy, done <- s_done

WarmUp == 10

Channels == {"aw", "w", "ar"}
Used == IF Writing THEN {"aw", "w"} ELSE {"ar"}
READY == [aw |-> awready, w |-> wready, ar |-> arready]
Answer == IF Writing THEN bvalid ELSE rvalid

(* Bench, slave and peripheral stay in their ranges. *)
TypeOK ==
    /\ BenchTypeOK /\ S!SlaveTypeOK
    /\ stage \in {"warm", "load", "begin", "hand", "answer", "last", "fatal"}
    /\ warm \in 0..WarmUp
    /\ hand \in [Channels -> {"poll", "last", "idle"}]
    /\ waited \in [Channels \cup {"answer"} -> 0..(TimeoutLimit + 1)]
    /\ s_tx_data \in ByteValues /\ temp_m_tx \in ByteValues
    /\ temp_s_tx \in ByteValues /\ cur_araddr \in Axi!Regs

(* Just out of reset; the synchronisers of the slave hold anything. *)
Init ==
    /\ BenchInit /\ S!SlaveInit
    /\ stage = "warm" /\ warm = 0
    /\ hand = [c \in Channels |-> "idle"]
    /\ waited = [c \in Channels \cup {"answer"} |-> 0]
    /\ s_tx_data = 0 /\ temp_m_tx = 0 /\ temp_s_tx = 0 /\ cur_araddr = 0

-----------------------------------------------------------------------------
SetValid(f) == awvalid' = f["aw"] /\ wvalid' = f["w"] /\ arvalid' = f["ar"]
VALID == [aw |-> awvalid, w |-> wvalid, ar |-> arvalid]

WarmStep ==
    /\ stage = "warm"
    /\ warm' = warm + 1
    /\ IF warm' = WarmUp THEN stage' = "load" /\ s_tx_data' = item.s
                         ELSE UNCHANGED <<stage, s_tx_data>>
    /\ UNCHANGED <<op, item, got, finished, busSignals, hand, waited>>

LoadStep ==
    /\ stage = "load" /\ stage' = "begin"
    /\ UNCHANGED <<op, item, got, finished, busSignals, hand, waited, warm, s_tx_data>>

(* VALID goes up on the channels of the access. *)
BeginStep ==
    /\ stage = "begin" /\ stage' = "hand"
    /\ SetValid([c \in Channels |-> IF c \in Used THEN 1 ELSE VALID[c]])
    /\ hand' = [c \in Channels |-> IF c \notin Used THEN "idle"
                                   ELSE IF READY[c] = 1 THEN "last" ELSE "poll"]
    /\ waited' = [c \in DOMAIN waited |-> 0]
    /\ UNCHANGED <<op, item, got, finished, bready, rready, warm, s_tx_data>>

(* The answer is there, or has to be waited for. *)
AwaitAnswer ==
    IF Answer = 1
    THEN stage' = "last" /\ got' = IF Writing THEN got ELSE rdata
    ELSE stage' = "answer" /\ UNCHANGED got

(* Each thread polls READY, then waits one more edge and drops VALID; when  *)
(* all have, the access offers to take the answer.                          *)
HandStep ==
    /\ stage = "hand"
    /\ hand' = [c \in Channels |-> IF hand[c] = "last" THEN "idle"
                                   ELSE IF hand[c] = "poll" /\ READY[c] = 1 THEN "last"
                                   ELSE hand[c]]
    /\ waited' = [c \in DOMAIN waited |->
                    IF c \in Channels /\ hand[c] = "poll" THEN waited[c] + 1 ELSE waited[c]]
    /\ SetValid([c \in Channels |-> IF hand[c] = "last" THEN 0 ELSE VALID[c]])
    /\ IF \E c \in Channels : waited'[c] > TimeoutLimit
       THEN stage' = "fatal" /\ UNCHANGED <<got, bready, rready>>
       ELSE IF \E c \in Channels : hand'[c] # "idle"
       THEN UNCHANGED <<stage, got, bready, rready>>
       ELSE /\ bready' = (IF Writing THEN 1 ELSE bready)
            /\ rready' = (IF Writing THEN rready ELSE 1)
            /\ AwaitAnswer
    /\ UNCHANGED <<op, item, finished, warm, s_tx_data>>

AnswerStep ==
    /\ stage = "answer"
    /\ waited' = [waited EXCEPT !["answer"] = @ + 1]
    /\ IF waited'["answer"] > TimeoutLimit THEN stage' = "fatal" /\ UNCHANGED got
                                           ELSE AwaitAnswer
    /\ UNCHANGED <<op, item, finished, busSignals, hand, warm, s_tx_data>>

(* The handshake of the answer; the task returns.  Before the first access  *)
(* of an item the driver gives the slave its reply and waits a clock.       *)
LastStep ==
    /\ stage = "last"
    /\ bready' = 0 /\ rready' = 0
    /\ Return(got)
    /\ IF op = "read" THEN stage' = "load" /\ s_tx_data' = item'.s
                      ELSE stage' = "begin" /\ UNCHANGED s_tx_data
    /\ UNCHANGED <<got, awvalid, wvalid, arvalid, hand, waited, warm>>

Driver == \/ WarmStep \/ LoadStep \/ BeginStep \/ HandStep
          \/ AnswerStep \/ LastStep

-----------------------------------------------------------------------------
(* Slip: any register read is reported. *)
ReportsAny(addr) == rvalid = 1 /\ rready = 1
Reports(addr) == rvalid = 1 /\ rready = 1 /\ addr = 3

Monitor ==
    /\ IF awvalid = 1 /\ awready = 1 /\ op = "tx"
       THEN temp_m_tx' = item.m[0] /\ temp_s_tx' = s_tx_data
       ELSE UNCHANGED <<temp_m_tx, temp_s_tx>>
    /\ cur_araddr' = IF arvalid = 1 /\ arready = 1 THEN ReadOf[op] ELSE cur_araddr
    /\ Score(Reports(cur_araddr'), <<temp_m_tx', temp_s_tx'>>,
             /\ temp_m_tx' = NumberOf(s_rx_data)
             /\ temp_s_tx' = rdata[0],
             stage = "load")

Clock ==
    /\ DutEdge(miso)
    /\ S!SlaveEdge(sclk_r, mosi, cs_n, BitsOf(s_tx_data), 0, 0)
    /\ Driver
    /\ Monitor

-----------------------------------------------------------------------------
(* Where Benches looks: uvm_fatal was called, an item begins, and an item   *)
(* finished was given to the scoreboard once, by its own values.            *)
TimedOut == stage = "fatal"

ItemBegins == stage = "load"

ItemCompared == ItemChecked(ItemBegins, LAMBDA i : <<i.m[0], i.s>>)

=============================================================================
