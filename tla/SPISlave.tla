------------------------------ MODULE SPISlave ------------------------------
(***************************************************************************)
(* spi_slave.sv, the SPI peer of the UVM bench: an oversampling slave that *)
(* looks at sclk and cs_n through two flip-flops and at mosi directly.     *)
(* Its ports are parameters of the actions; the actions read the values    *)
(* before the clock edge.  The four synchroniser flip-flops are not reset. *)
(***************************************************************************)
EXTENDS SPIBits

VARIABLES
    state, bit_cnt, tx_shift_reg, rx_shift_reg, rx_data, miso, busy, done,
    sclk_0, sclk_1, cs_n_0, cs_n_1

syncVars == <<sclk_0, sclk_1, cs_n_0, cs_n_1>>
slaveVars == <<state, bit_cnt, tx_shift_reg, rx_shift_reg, rx_data, miso,
               busy, done, syncVars>>

SlaveTypeOK ==
    /\ state \in {"IDLE", "DATA", "STOP"}
    /\ bit_cnt \in 0..(W - 1)
    /\ tx_shift_reg \in Word /\ rx_shift_reg \in Word /\ rx_data \in Word
    /\ miso \in Bit /\ busy \in Bit /\ done \in Bit
    /\ sclk_0 \in Bit /\ sclk_1 \in Bit /\ cs_n_0 \in Bit /\ cs_n_1 \in Bit

(* Power-up: the synchronisers hold whatever they hold. *)
SlaveInit ==
    /\ state = "IDLE" /\ bit_cnt = 0 /\ miso = 1 /\ busy = 0 /\ done = 0
    /\ tx_shift_reg = Zero /\ rx_shift_reg = Zero /\ rx_data = Zero
    /\ sclk_0 \in Bit /\ sclk_1 \in Bit /\ cs_n_0 \in Bit /\ cs_n_1 \in Bit

SlaveReset ==
    /\ state' = "IDLE" /\ bit_cnt' = 0 /\ miso' = 1 /\ busy' = 0 /\ done' = 0
    /\ tx_shift_reg' = Zero /\ rx_shift_reg' = Zero /\ rx_data' = Zero
    /\ UNCHANGED syncVars

-----------------------------------------------------------------------------
sclk_pose == sclk_1 = 0 /\ sclk_0 = 1
sclk_neg  == sclk_1 = 1 /\ sclk_0 = 0

(* Slips: the polarity left out; transmitting on every edge. *)
RxEdgeNoCpol(cpol, cpha)  == IF cpha = 0 THEN sclk_pose ELSE sclk_neg
TxEdgeAny(cpol, cpha)     == sclk_pose \/ sclk_neg

rx_edge(cpol, cpha) == IF cpol = cpha THEN sclk_pose ELSE sclk_neg
tx_edge(cpol, cpha) == IF cpol = cpha THEN sclk_neg ELSE sclk_pose

Synchronise(sclk, cs_n) ==
    /\ sclk_0' = sclk /\ sclk_1' = sclk_0
    /\ cs_n_0' = cs_n /\ cs_n_1' = cs_n_0

(* Slip: one bit too many. *)
LastRxBitPlusOne == bit_cnt = W

LastRxBit == bit_cnt = W - 1

(* IDLE: wait for the synchronised chip select, then load the reply. *)
SIdleEdge(tx_data) ==
    /\ state = "IDLE" /\ done' = 0
    /\ \/ /\ cs_n_1 = 1
          /\ miso' = 1 /\ tx_shift_reg' = Zero /\ busy' = 0
          /\ UNCHANGED <<state, bit_cnt>>
       \/ /\ cs_n_1 = 0
          /\ miso' = Msb(tx_data) /\ tx_shift_reg' = ShiftIn(tx_data, 0)
          /\ bit_cnt' = 0 /\ busy' = 1
          /\ state' = "DATA"
    /\ UNCHANGED <<rx_shift_reg, rx_data>>

(* The receive half of DATA; losing chip select sends the state to IDLE     *)
(* unless the last bit arrives in the same clock.                           *)
SReceive(cpol, cpha, mosi) ==
    \/ /\ rx_edge(cpol, cpha) /\ LastRxBit
       /\ rx_data' = ShiftIn(rx_shift_reg, mosi)
       /\ bit_cnt' = 0 /\ state' = "STOP"
       /\ UNCHANGED rx_shift_reg
    \/ /\ rx_edge(cpol, cpha) /\ ~LastRxBit
       /\ rx_shift_reg' = ShiftIn(rx_shift_reg, mosi)
       /\ bit_cnt' = bit_cnt + 1
       /\ state' = IF cs_n_1 = 1 THEN "IDLE" ELSE "DATA"
       /\ UNCHANGED rx_data
    \/ /\ ~rx_edge(cpol, cpha)
       /\ state' = IF cs_n_1 = 1 THEN "IDLE" ELSE "DATA"
       /\ UNCHANGED <<rx_shift_reg, rx_data, bit_cnt>>

(* The transmit half of DATA. *)
STransmit(cpol, cpha) ==
    IF tx_edge(cpol, cpha)
    THEN miso' = Msb(tx_shift_reg) /\ tx_shift_reg' = ShiftIn(tx_shift_reg, 0)
    ELSE miso' = (IF cs_n_1 = 1 THEN 1 ELSE miso) /\ UNCHANGED tx_shift_reg

SDataEdge(cpol, cpha, mosi) ==
    /\ state = "DATA"
    /\ SReceive(cpol, cpha, mosi) /\ STransmit(cpol, cpha)
    /\ IF cs_n_1 = 1 THEN done' = 0 /\ busy' = 0 ELSE UNCHANGED <<done, busy>>

SStopEdge ==
    /\ state = "STOP" /\ state' = "IDLE"
    /\ IF cs_n_1 = 1 THEN done' = 0 /\ busy' = 0 /\ miso' = 1
                     ELSE UNCHANGED <<done, busy, miso>>
    /\ UNCHANGED <<bit_cnt, tx_shift_reg, rx_shift_reg, rx_data>>

SlaveEdge(sclk, mosi, cs_n, tx_data, cpol, cpha) ==
    /\ Synchronise(sclk, cs_n)
    /\ SIdleEdge(tx_data) \/ SDataEdge(cpol, cpha, mosi) \/ SStopEdge

=============================================================================
