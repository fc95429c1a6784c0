------------------------------ MODULE SPILink ------------------------------
(***************************************************************************)
(* spi_master and spi_slave on one serial line and one clock, wired as in  *)
(* tb_spi of the UVM bench.  Names of the slave's registers carry the      *)
(* prefix s_, as the bench's signals do.                                   *)
(*                                                                         *)
(* Software uses the mode the slave is strapped to (its polarity is a      *)
(* variable that never changes), sets the divider and the transmit word    *)
(* whenever it likes between frames (the divider) or at any time (the word *)
(* and the start bit), and the slave's owner changes its reply only while  *)
(* the master is idle.                                                     *)
(***************************************************************************)
EXTENDS SPIMaster

CONSTANTS Polarities,   \* polarities the slave may be strapped to
          CPHA,         \* the phase it is strapped to
          Divs,         \* dividers software programs
          TxWords,      \* words the master sends
          Replies       \* words the slave sends

ASSUME LinkAssumption ==
    /\ Polarities \subseteq Bit /\ CPHA \in Bit
    /\ Divs \subseteq 0..DivMax
    /\ TxWords \subseteq Word /\ Replies \subseteq Word

VARIABLES
    cpol, cpha, clk_div, start, tx_data,            \* slv_reg0 and slv_reg1
    s_cpol, s_tx_data,                              \* the slave's strap and reply
    s_state, s_bit_cnt, s_tx_shift_reg, s_rx_shift_reg, s_rx_data, miso,
    s_busy, s_done, sclk_0, sclk_1, cs_n_0, cs_n_1,
    sent, reply                                     \* history: words of the last frame

S == INSTANCE SPISlave WITH
    state <- s_state, bit_cnt <- s_bit_cnt, tx_shift_reg <- s_tx_shift_reg,
    rx_shift_reg <- s_rx_shift_reg, rx_data <- s_rx_data,
    busy <- s_busy, done <- s_done

slaveVars == <<s_state, s_bit_cnt, s_tx_shift_reg, s_rx_shift_reg, s_rx_data,
               miso, s_busy, s_done, sclk_0, sclk_1, cs_n_0, cs_n_1>>
regVars == <<cpol, cpha, clk_div, start, tx_data>>
vars == <<masterVars, slaveVars, regVars, s_cpol, s_tx_data, sent, reply>>

(* Master, slave and wires hold values of their declared widths. *)
TypeOK ==
    /\ MasterTypeOK /\ S!SlaveTypeOK
    /\ cpol \in Bit /\ cpha \in Bit /\ clk_div \in 0..DivMax /\ start \in Bit
    /\ tx_data \in Word /\ s_tx_data \in Word /\ s_cpol \in Polarities
    /\ sent \in Word /\ reply \in Word

Init ==
    /\ cpol = 0 /\ cpha = 0 /\ clk_div = 0 /\ start = 0 /\ tx_data = Zero
    /\ MasterInit(cpol) /\ S!SlaveInit
    /\ s_cpol \in Polarities /\ s_tx_data \in Replies
    /\ sent = Zero /\ reply = Zero

-----------------------------------------------------------------------------
(* Writes of slv_reg0: (re)programming the idle master, and raising or      *)
(* dropping the start bit with the other fields kept.                       *)
Configure(d) ==
    /\ busy = 0 /\ start = 0
    /\ cpol' = s_cpol /\ cpha' = CPHA /\ clk_div' = d
    /\ UNCHANGED <<masterVars, slaveVars, start, tx_data, s_cpol, s_tx_data, sent, reply>>

WriteStart(b) ==
    /\ clk_div \in Divs /\ cpol = s_cpol /\ cpha = CPHA
    /\ start' = b
    /\ UNCHANGED <<masterVars, slaveVars, cpol, cpha, clk_div, tx_data,
                   s_cpol, s_tx_data, sent, reply>>

WriteTx(d) ==
    /\ tx_data' = d
    /\ UNCHANGED <<masterVars, slaveVars, cpol, cpha, clk_div, start,
                   s_cpol, s_tx_data, sent, reply>>

(* Slip: the next reply is set up while the frame before is on the line. *)
LoadReplyEarly(d) ==
    /\ s_tx_data' = d
    /\ UNCHANGED <<masterVars, slaveVars, regVars, s_cpol, sent, reply>>

LoadReply(d) ==
    /\ busy = 0
    /\ s_tx_data' = d
    /\ UNCHANGED <<masterVars, slaveVars, regVars, s_cpol, sent, reply>>

Clock ==
    /\ MasterEdge(cpol, cpha, clk_div, tx_data, start, miso)
    /\ S!SlaveEdge(sclk_r, mosi, cs_n, s_tx_data, s_cpol, CPHA)
    /\ IF state = "IDLE" /\ start = 1
       THEN sent' = tx_data /\ reply' = s_tx_data
       ELSE UNCHANGED <<sent, reply>>
    /\ UNCHANGED <<regVars, s_cpol, s_tx_data>>

Reset ==
    /\ MasterReset(0) /\ S!SlaveReset
    /\ cpol' = 0 /\ cpha' = 0 /\ clk_div' = 0 /\ start' = 0 /\ tx_data' = Zero
    /\ sent' = Zero /\ reply' = Zero
    /\ UNCHANGED <<s_cpol, s_tx_data>>

Next ==
    \/ Clock
    \/ \E d \in Divs : Configure(d)
    \/ \E b \in Bit : WriteStart(b)
    \/ \E d \in TxWords : WriteTx(d)
    \/ \E d \in Replies : LoadReply(d)
    \/ Reset

Spec == Init /\ [][Next]_vars

-----------------------------------------------------------------------------
(* Slave to master: when busy reads 0, rx_data is the slave's word of the   *)
(* last frame.                                                              *)
MasterGotReply == busy = 0 => rx_data = reply

(* Master to slave: when busy reads 0, the slave holds the master's word.   *)
SlaveGotWord == busy = 0 => s_rx_data = sent

(* The two ends seen as one transfer, with the slave's reply as the peer's  *)
(* word.                                                                    *)
Phase == [IDLE |-> "idle", START |-> "busy", DATA |-> "busy", STOP |-> "ending"]

Transfer == INSTANCE SPITransfer WITH
    Words <- Word, ResetWord <- Zero, tx <- tx_data, phase <- Phase[state],
    out <- sent, peer <- s_tx_data, rx <- rx_data

(* Master and slave together implement the word-level transfer: what is     *)
(* delivered, once and as a whole, is what the slave has in s_tx_data.      *)
TransferSpec == Transfer!Spec

=============================================================================
