----------------------------- MODULE SPIMaster -----------------------------
(***************************************************************************)
(* spi_master of AXI_SPI_v1_0.v: its registers, and one action per branch  *)
(* of the two clocked processes.  The ports (cpol .. miso) are parameters  *)
(* of the actions; a composing module wires them.  An action reads the     *)
(* values before the clock edge and gives the ones after it, as            *)
(* non-blocking assignments do.                                            *)
(***************************************************************************)
EXTENDS SPIBits

CONSTANT DivMax         \* largest value of the divider (255 in the source)

ASSUME DivMaxAssumption == DivMax \in Nat

VARIABLES
    state, div_cnt, half_tick, tx_shift_reg, rx_shift_reg, bit_cnt, step,
    sclk_r, rx_data, done, busy, mosi, cs_n

masterVars == <<state, div_cnt, half_tick, tx_shift_reg, rx_shift_reg,
                bit_cnt, step, sclk_r, rx_data, done, busy, mosi, cs_n>>

MasterTypeOK ==
    /\ state \in {"IDLE", "START", "DATA", "STOP"}
    /\ div_cnt \in 0..DivMax /\ half_tick \in Bit
    /\ tx_shift_reg \in Word /\ rx_shift_reg \in Word /\ rx_data \in Word
    /\ bit_cnt \in 0..(W - 1) /\ step \in Bit
    /\ sclk_r \in Bit /\ mosi \in Bit /\ cs_n \in Bit
    /\ done \in Bit /\ busy \in Bit

(* The registers after a reset; sclk takes the polarity it finds. *)
MasterInit(cpol) ==
    /\ state = "IDLE" /\ div_cnt = 0 /\ half_tick = 0
    /\ tx_shift_reg = Zero /\ rx_shift_reg = Zero /\ rx_data = Zero
    /\ bit_cnt = 0 /\ step = 0 /\ sclk_r = cpol
    /\ mosi = 1 /\ cs_n = 1 /\ busy = 0 /\ done = 0

MasterReset(cpol) ==
    /\ state' = "IDLE" /\ div_cnt' = 0 /\ half_tick' = 0
    /\ tx_shift_reg' = Zero /\ rx_shift_reg' = Zero /\ rx_data' = Zero
    /\ bit_cnt' = 0 /\ step' = 0 /\ sclk_r' = cpol
    /\ mosi' = 1 /\ cs_n' = 1 /\ busy' = 0 /\ done' = 0

-----------------------------------------------------------------------------

(* Slips the checks must catch: the divider runs outside DATA; it compares  *)
(* one too far.                                                             *)
DividesAlways == TRUE
DivMatchLate(clk_div) == div_cnt = clk_div + 1

(* The clock divider: it runs only in DATA and keeps its registers between  *)
(* frames.  The counter is as wide as clk_div, so it wraps.                 *)
Divides == state = "DATA"
DivMatch(clk_div) == div_cnt = clk_div

Divider(clk_div) ==
    \/ /\ Divides /\ DivMatch(clk_div)
       /\ div_cnt' = 0 /\ half_tick' = 1
    \/ /\ Divides /\ ~DivMatch(clk_div)
       /\ div_cnt' = (div_cnt + 1) % (DivMax + 1) /\ half_tick' = 0
    \/ /\ ~Divides
       /\ UNCHANGED <<div_cnt, half_tick>>

(* Slip: the bit is put out but the register is not shifted. *)
DriveNoShift ==
    /\ mosi' = Msb(tx_shift_reg)
    /\ UNCHANGED <<tx_shift_reg, rx_shift_reg>>

(* One bit leaves on mosi, one bit enters from miso. *)
Drive ==
    /\ mosi' = Msb(tx_shift_reg)
    /\ tx_shift_reg' = ShiftIn(tx_shift_reg, 0)
    /\ UNCHANGED rx_shift_reg

Sample(miso) ==
    /\ rx_shift_reg' = ShiftIn(rx_shift_reg, miso)
    /\ UNCHANGED <<mosi, tx_shift_reg>>

(* Slip: one bit too many. *)
LastBitPlusOne == bit_cnt = W

LastBit == bit_cnt = W - 1

(* Slips: sclk keeps its level when the polarity is reprogrammed; done is   *)
(* not dropped after the frame.                                             *)
IdleOutputsKeepSclk(cpol) == done' = 0 /\ mosi' = 1 /\ UNCHANGED sclk_r
IdleOutputsKeepDone(cpol) == mosi' = 1 /\ sclk_r' = cpol /\ UNCHANGED done

IdleOutputs(cpol) == done' = 0 /\ mosi' = 1 /\ sclk_r' = cpol

(* IDLE: a start level takes the word to send. *)
IdleEdge(cpol, tx_data, start) ==
    /\ state = "IDLE"
    /\ IdleOutputs(cpol)
    /\ \/ /\ start = 0
          /\ cs_n' = 1
          /\ UNCHANGED <<state, tx_shift_reg, bit_cnt, step, busy>>
       \/ /\ start = 1
          /\ tx_shift_reg' = tx_data
          /\ bit_cnt' = 0 /\ step' = 0 /\ busy' = 1 /\ cs_n' = 0
          /\ state' = "START"
    /\ UNCHANGED <<rx_shift_reg, rx_data>>

StartEdge(cpha) ==
    /\ state = "START"
    /\ state' = "DATA" /\ done' = 0
    /\ \/ cpha = 0 /\ Drive
       \/ cpha = 1 /\ UNCHANGED <<mosi, tx_shift_reg, rx_shift_reg>>
    /\ UNCHANGED <<bit_cnt, step, sclk_r, rx_data, busy, cs_n>>

(* DATA between two half ticks. *)
WaitEdge ==
    /\ state = "DATA" /\ half_tick = 0
    /\ done' = 0
    /\ UNCHANGED <<state, tx_shift_reg, rx_shift_reg, bit_cnt, step,
                   sclk_r, rx_data, busy, mosi, cs_n>>

(* First half of a bit: CPHA 0 samples, CPHA 1 drives. *)
LeadingEdge(cpha, miso) ==
    /\ state = "DATA" /\ half_tick = 1 /\ step = 0
    /\ step' = 1 /\ sclk_r' = 1 - sclk_r /\ done' = 0
    /\ \/ cpha = 0 /\ Sample(miso)
       \/ cpha = 1 /\ Drive
    /\ UNCHANGED <<state, bit_cnt, rx_data, busy, cs_n>>

(* Second half of a bit that is not the last one. *)
TrailingEdge(cpha, miso) ==
    /\ state = "DATA" /\ half_tick = 1 /\ step = 1 /\ ~LastBit
    /\ step' = 0 /\ sclk_r' = 1 - sclk_r /\ done' = 0
    /\ \/ cpha = 0 /\ Drive
       \/ cpha = 1 /\ Sample(miso)
    /\ bit_cnt' = bit_cnt + 1
    /\ UNCHANGED <<state, rx_data, busy, cs_n>>

(* Slip: with CPHA 1 the last bit misses the receive register (line 233 of  *)
(* the source still shows it, commented out).                               *)
ReceivedWithoutLast(cpha, miso) == rx_shift_reg

Received(cpha, miso) ==
    IF cpha = 0 THEN rx_shift_reg ELSE ShiftIn(rx_shift_reg, miso)

(* Second half of the last bit: the received word becomes visible. *)
LastEdge(cpha, miso) ==
    /\ state = "DATA" /\ half_tick = 1 /\ step = 1 /\ LastBit
    /\ step' = 0 /\ sclk_r' = 1 - sclk_r /\ done' = 0
    /\ \/ cpha = 0 /\ UNCHANGED <<mosi, tx_shift_reg, rx_shift_reg>>
       \/ cpha = 1 /\ Sample(miso)
    /\ rx_data' = Received(cpha, miso)
    /\ state' = "STOP"
    /\ UNCHANGED <<bit_cnt, busy, cs_n>>

(* Slips: the frame ends without done; it ends still busy.                 *)
StopOutputsKeepBusy(cpol) ==
    sclk_r' = cpol /\ cs_n' = 1 /\ done' = 1 /\ mosi' = 1 /\ UNCHANGED busy

StopOutputsNoDone(cpol) ==
    sclk_r' = cpol /\ cs_n' = 1 /\ done' = 0 /\ busy' = 0 /\ mosi' = 1

StopOutputs(cpol) ==
    sclk_r' = cpol /\ cs_n' = 1 /\ done' = 1 /\ busy' = 0 /\ mosi' = 1

StopEdge(cpol) ==
    /\ state = "STOP"
    /\ state' = "IDLE" /\ StopOutputs(cpol)
    /\ UNCHANGED <<tx_shift_reg, rx_shift_reg, bit_cnt, step, rx_data>>

Fsm(cpol, cpha, tx_data, start, miso) ==
    \/ IdleEdge(cpol, tx_data, start)
    \/ StartEdge(cpha)
    \/ WaitEdge
    \/ LeadingEdge(cpha, miso)
    \/ TrailingEdge(cpha, miso)
    \/ LastEdge(cpha, miso)
    \/ StopEdge(cpol)

(* One posedge of clk: both processes read the same old values. *)
MasterEdge(cpol, cpha, clk_div, tx_data, start, miso) ==
    /\ Divider(clk_div)
    /\ Fsm(cpol, cpha, tx_data, start, miso)

=============================================================================
