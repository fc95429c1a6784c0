---------------------------- MODULE SPILoopback ----------------------------
(***************************************************************************)
(* spi_master driven by its register file (the wires cpol .. start of      *)
(* slv_reg0 and slv_reg1) with miso tied to mosi, as in Verifi/tb.         *)
(*                                                                         *)
(* Software may rewrite the registers between any two clock edges, also    *)
(* while a word is on the line.  The one restriction is that CPHA is left  *)
(* alone then: every user of the registers in the repository writes CPHA   *)
(* only while the master is idle.                                          *)
(***************************************************************************)
EXTENDS SPIMaster

CONSTANTS Controls,     \* control words software writes to slv_reg0
          TxWords       \* bytes software writes to slv_reg1

Control == [cpol : Bit, cpha : Bit, clk_div : 0..DivMax, start : Bit]

ASSUME SoftwareAssumption == Controls \subseteq Control /\ TxWords \subseteq Word

VARIABLES
    cpol, cpha, clk_div, start,     \* fields of slv_reg0
    tx_data,                        \* slv_reg1[7:0]
    sent, pol                       \* history: word and sclk level at acceptance

regVars == <<cpol, cpha, clk_div, start, tx_data>>
vars == <<masterVars, regVars, sent, pol>>

(* Every register and wire of the master holds a value of its width. *)
TypeOK ==
    /\ MasterTypeOK
    /\ cpol \in Bit /\ cpha \in Bit /\ clk_div \in 0..DivMax /\ start \in Bit
    /\ tx_data \in Word /\ sent \in Word /\ pol \in Bit

miso == mosi

Init ==
    /\ cpol = 0 /\ cpha = 0 /\ clk_div = 0 /\ start = 0 /\ tx_data = Zero
    /\ MasterInit(cpol)
    /\ sent = Zero /\ pol = cpol

-----------------------------------------------------------------------------
WriteControl(c) ==
    /\ busy = 1 => c.cpha = cpha
    /\ cpol' = c.cpol /\ cpha' = c.cpha
    /\ clk_div' = c.clk_div /\ start' = c.start
    /\ UNCHANGED <<masterVars, tx_data, sent, pol>>

WriteTx(d) ==
    /\ tx_data' = d
    /\ UNCHANGED <<masterVars, cpol, cpha, clk_div, start, sent, pol>>

Clock ==
    /\ MasterEdge(cpol, cpha, clk_div, tx_data, start, miso)
    /\ IF state = "IDLE" /\ start = 1
       THEN sent' = tx_data /\ pol' = cpol
       ELSE UNCHANGED <<sent, pol>>
    /\ UNCHANGED regVars

(* aresetn clears the registers and, through them, leaves sclk low. *)
Reset ==
    /\ MasterReset(0)
    /\ cpol' = 0 /\ cpha' = 0 /\ clk_div' = 0 /\ start' = 0 /\ tx_data' = Zero
    /\ sent' = Zero /\ pol' = 0

Next ==
    \/ Clock
    \/ \E c \in Controls : WriteControl(c)
    \/ \E d \in TxWords : WriteTx(d)
    \/ Reset

Spec == Init /\ [][Next]_vars

(* The clock never stops. *)
FairSpec == Spec /\ WF_vars(Clock)

-----------------------------------------------------------------------------
(* Whenever software reads busy as 0, rx_data is the whole word that was    *)
(* latched when the last start was taken, whatever software did to polarity, *)
(* divider, transmit register and start bit while it was on the line.        *)
EchoIntegrity == busy = 0 => rx_data = sent

(* Every frame is W whole sclk pulses around the level sclk had when       *)
(* chip select fell, and ends at that level.                               *)
FrameClocking ==
    /\ state = "DATA" => sclk_r = (pol + step) % 2
    /\ state = "STOP" => sclk_r = pol /\ LastBit /\ step = 0

(* How many bits of the frame are on, or have left, mosi; how many came back. *)
Driven == IF state = "START" THEN 0
          ELSE bit_cnt + (IF cpha = 0 THEN 1 ELSE step)
Sampled == bit_cnt + (IF cpha = 0 THEN step ELSE 0)

(* Why EchoIntegrity holds.  In the middle of a frame the three places that *)
(* hold the word agree with it bit by bit: what is still to be driven, the  *)
(* bit on the wire, and what has come back.  busy is up exactly then, and   *)
(* the receive register holds the whole word when the frame ends.           *)
FrameInv ==
    /\ busy = (IF state = "IDLE" THEN 0 ELSE 1)
    /\ done = 1 => state = "IDLE"
    /\ state = "START" => bit_cnt = 0 /\ step = 0 /\ sclk_r = pol
    /\ state \in {"START", "DATA"} =>
         /\ \A i \in 1..W : i > Driven => tx_shift_reg[i - Driven] = sent[i]
         /\ Driven > 0 => mosi = sent[Driven]
         /\ \A i \in 1..W : i <= Sampled => rx_shift_reg[W - Sampled + i] = sent[i]
    /\ state \in {"STOP", "IDLE"} => rx_data = sent

(* A frame always ends, provided the divider is eventually left alone.     *)
FrameEnds == <>[][clk_div' = clk_div]_vars => (busy = 1 ~> busy = 0)

(* The registers of the master seen as one transfer of a word. *)
Phase == [IDLE |-> "idle", START |-> "busy", DATA |-> "busy", STOP |-> "ending"]

Transfer == INSTANCE SPITransfer WITH
    Words <- Word, ResetWord <- Zero,
    tx <- tx_data, phase <- Phase[state], out <- sent, peer <- sent, rx <- rx_data

(* The clocked master implements the word-level transfer. *)
TransferSpec == Transfer!Spec

=============================================================================
