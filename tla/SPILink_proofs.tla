--------------------------- MODULE SPILink_proofs ---------------------------
(***************************************************************************)
(* TLAPS proofs about SPILink: in mode CPHA 0 both words arrive, for every *)
(* width of at least two bits, both polarities, every set of dividers of   *)
(* two or more, and every set of words, whenever reset comes.              *)
(***************************************************************************)
EXTENDS SPILink, SPIMaster_proofs

USE DEF Bit

(* What the bench straps, and what the slave needs: it looks at sclk three  *)
(* clocks after it moved, so a half period has to be that long.             *)
Mode0 == W > 1 /\ CPHA = 0 /\ \A d \in Divs : d > 1

(* A clock edge of the two ends, without what software does about it. *)
LineEdge ==
    /\ MasterEdge(cpol, cpha, clk_div, tx_data, start, miso)
    /\ S!SlaveEdge(sclk_r, mosi, cs_n, s_tx_data, s_cpol, CPHA)

(* A clock edge keeps the slave's registers in range. *)
LEMMA SlaveType ==
    ASSUME MasterTypeOK, S!SlaveTypeOK, s_tx_data \in Word, LineEdge
    PROVE  S!SlaveTypeOK'
<1> USE DEF S!SlaveTypeOK
<1>0. S!Bit = Bit /\ S!Word = Word
  BY DEF S!Bit, S!Word, Word
<1>1. S!SlaveEdge(sclk_r, mosi, cs_n, s_tx_data, s_cpol, CPHA)
  BY DEF LineEdge
<1>2. ASSUME NEW w \in Word, NEW b \in Bit
      PROVE  S!ShiftIn(w, b) \in Word /\ S!Msb(w) \in Bit
  BY ShiftInWord DEF S!ShiftIn, S!Msb, ShiftIn, Msb
<1>3. sclk_0' \in Bit /\ sclk_1' \in Bit /\ cs_n_0' \in Bit /\ cs_n_1' \in Bit
  BY <1>1 DEF S!SlaveEdge, S!Synchronise, MasterTypeOK, S!Bit
<1>4. 0 \in 0..(W - 1) /\ S!Zero \in Word
  BY ZeroWord, WidthAssumption DEF S!Zero, Zero
<1>5. CASE S!SIdleEdge(s_tx_data)
  BY <1>0, <1>2, <1>4, <1>3, <1>5 DEF S!SIdleEdge
<1>6. CASE S!SDataEdge(s_cpol, CPHA, mosi)
  <2>1. S!SReceive(s_cpol, CPHA, mosi) /\ S!STransmit(s_cpol, CPHA)
    BY <1>6 DEF S!SDataEdge
  <2>2. s_rx_data' \in Word /\ s_rx_shift_reg' \in Word /\ s_bit_cnt' \in 0..(W - 1)
        /\ s_state' \in {"IDLE", "DATA", "STOP"}
    BY <1>0, <1>2, <1>4, <2>1, WidthAssumption
    DEF S!SReceive, S!LastRxBit, MasterTypeOK
  <2>3. miso' \in Bit /\ s_tx_shift_reg' \in Word
    BY <1>0, <1>2, <2>1 DEF S!STransmit
  <2>4. s_done' \in Bit /\ s_busy' \in Bit
    BY <1>0, <1>6 DEF S!SDataEdge
  <2>5. QED
    BY <1>0, <1>3, <2>2, <2>3, <2>4
<1>7. CASE S!SStopEdge
  BY <1>0, <1>3, <1>7 DEF S!SStopEdge
<1>8. QED
  BY <1>1, <1>5, <1>6, <1>7 DEF S!SlaveEdge

(* The reset values are in range. *)
LEMMA TypeInit == Init => TypeOK
<1> SUFFICES ASSUME Init PROVE TypeOK
  OBVIOUS
<1>1. MasterTypeOK
  BY ResetType DEF Init
<1>2. S!SlaveTypeOK
  BY ZeroWord, WidthAssumption
  DEF Init, S!SlaveInit, S!SlaveTypeOK, S!Bit, S!Word, S!Zero, Word, Zero
<1>3. QED
  BY <1>1, <1>2, ZeroWord, DivMaxAssumption, LinkAssumption DEF Init, TypeOK

(* Every step keeps the registers in range. *)
LEMMA TypeNext == TypeOK /\ [Next]_vars => TypeOK'
<1> SUFFICES ASSUME TypeOK, [Next]_vars PROVE TypeOK'
  OBVIOUS
<1>1. CASE Clock
  <2>1. MasterTypeOK'
    <3>1. cpol \in Bit /\ tx_data \in Word /\ miso \in Bit
      BY DEF TypeOK, S!SlaveTypeOK, S!Bit
    <3>2. QED
      BY <1>1, <3>1, EdgeType DEF Clock, TypeOK
  <2>2. sent' \in Word /\ reply' \in Word /\ UNCHANGED <<regVars, s_cpol, s_tx_data>>
    BY <1>1 DEF Clock, TypeOK
  <2>3. QED
    BY <1>1, <2>1, <2>2, SlaveType DEF Clock, LineEdge, TypeOK, regVars
<1>2. CASE Reset
  <2>1. MasterTypeOK' /\ Zero \in Word /\ 0 \in 0..DivMax
    BY <1>2, ResetType, ZeroWord, DivMaxAssumption DEF Reset
  <2>2. S!SlaveTypeOK'
    BY <1>2, ZeroWord, WidthAssumption
    DEF Reset, S!SlaveReset, S!syncVars, S!SlaveTypeOK, S!Bit, S!Word, S!Zero, Word, Zero,
        TypeOK
  <2>3. QED
    BY <1>2, <2>1, <2>2 DEF Reset, TypeOK
<1>3. CASE UNCHANGED <<masterVars, slaveVars>>
  <2>1. MasterTypeOK' /\ S!SlaveTypeOK'
    BY <1>3 DEF TypeOK, MasterTypeOK, S!SlaveTypeOK, masterVars, slaveVars
  <2>2. ASSUME NEW d \in Divs, Configure(d) PROVE TypeOK'
    BY <2>1, <2>2, LinkAssumption DEF Configure, TypeOK
  <2>3. ASSUME NEW b \in Bit, WriteStart(b) PROVE TypeOK'
    BY <2>1, <2>3 DEF WriteStart, TypeOK
  <2>4. ASSUME NEW d \in TxWords, WriteTx(d) PROVE TypeOK'
    BY <2>1, <2>4, LinkAssumption DEF WriteTx, TypeOK
  <2>5. ASSUME NEW d \in Replies, LoadReply(d) PROVE TypeOK'
    BY <2>1, <2>5, LinkAssumption DEF LoadReply, TypeOK, regVars
  <2>6. CASE UNCHANGED vars
    BY <2>1, <2>6 DEF vars, regVars, TypeOK
  <2>7. QED
    BY <1>1, <1>2, <2>2, <2>3, <2>4, <2>5, <2>6 DEF Next
<1>4. QED
  BY <1>1, <1>2, <1>3
  DEF Next, Configure, WriteStart, WriteTx, LoadReply, vars

(* All registers and wires stay in the range of their declarations, in any  *)
(* mode and at any speed.                                                   *)
THEOREM TypeCorrect == Spec => []TypeOK
  BY TypeInit, TypeNext, PTL DEF Spec

-----------------------------------------------------------------------------
(* The two ends of the line during a frame.                                 *)

(* The slave's synchroniser has caught up with sclk; it shows an edge at    *)
(* which the slave samples, now or after the next clock.                    *)
Quiet == sclk_0 = sclk_r /\ sclk_1 = sclk_r
RxNow == sclk_1 = s_cpol /\ sclk_0 # s_cpol
RxNext == sclk_0 = s_cpol /\ sclk_r # s_cpol
TxNow == sclk_1 # s_cpol /\ sclk_0 = s_cpol

(* Bits of the frame the slave has sampled, and edges at which it has put   *)
(* out a further bit: those of the master but for the one under way.        *)
Got == bit_cnt + (IF step = 1 /\ Quiet THEN 1 ELSE 0)
Put == bit_cnt - (IF step = 0 /\ ~Quiet THEN 1 ELSE 0)

(* A frame runs in the slave's mode; the reply is not touched meanwhile.    *)
ModeInv ==
    /\ start = 1 \/ busy = 1 => cpol = s_cpol /\ cpha = CPHA /\ clk_div \in Divs
    /\ sclk_r = s_cpol => cpol = s_cpol
    /\ busy = (IF state = "IDLE" THEN 0 ELSE 1)
    /\ cs_n = (IF state = "IDLE" THEN 1 ELSE 0)
    /\ busy = 1 => reply = s_tx_data
    /\ done = 1 => state = "IDLE"

(* The divider enters a frame at most one clock ahead. *)
DividerInv ==
    /\ state # "DATA" => half_tick = 0 /\ div_cnt \in {0, 1}
    /\ state = "DATA" => div_cnt <= clk_div /\ (half_tick = 1 => div_cnt = 0)

(* Until the slave sees chip select it may still take one edge of what came *)
(* before (a frame cut off by reset), which is too few to finish a word.    *)
Asleep == state \in {"IDLE", "START", "STOP"} \/ (state = "DATA" /\ cs_n_1 = 1)

AsleepInv ==
    Asleep /\ s_state = "DATA" =>
        s_bit_cnt = 0 \/ (s_bit_cnt = 1 /\ ~RxNow /\ ~RxNext)

(* The master's three places of a word, as in SPILoopback, with the reply   *)
(* coming back. *)
MasterInv ==
    /\ state \in {"START", "STOP"} => sclk_r = s_cpol
    /\ state = "START" => bit_cnt = 0 /\ step = 0 /\ cs_n_0 = 1 /\ tx_shift_reg = sent
    /\ state = "DATA" =>
         /\ sclk_r = s_cpol <=> step = 0
         /\ cs_n_0 = 0
         /\ mosi = sent[bit_cnt + 1]
         /\ RestOf(tx_shift_reg, sent, bit_cnt + 1)
         /\ FrontOf(rx_shift_reg, reply, bit_cnt + step)
    /\ state \in {"STOP", "IDLE"} => rx_data = reply

(* The divider's count tells how far an edge of sclk, or the chip select,   *)
(* has come through the synchroniser: it is through before the next edge.   *)
LineInv ==
    state = "DATA" =>
       IF cs_n_1 = 1
       THEN bit_cnt = 0 /\ step = 0 /\ half_tick = 0 /\ div_cnt <= 1 /\ sclk_0 = sclk_r
       ELSE /\ sclk_0 # sclk_r => half_tick = 0 /\ div_cnt = 1 /\ sclk_1 = sclk_0
            /\ sclk_0 = sclk_r /\ sclk_1 # sclk_r => half_tick = 0 /\ div_cnt = 2
            /\ bit_cnt = 0 /\ step = 0 => Quiet

(* The slave's two shift registers; it wakes before the first edge, and has *)
(* the whole word before the master is through with the last bit.           *)
SlaveInv ==
    /\ state = "DATA" /\ cs_n_1 = 0 /\ Got < W =>
         \/ /\ s_state = "IDLE" /\ bit_cnt = 0 /\ step = 0
            /\ half_tick = 0 /\ div_cnt <= 2
         \/ /\ s_state = "DATA" /\ s_bit_cnt = Got
            /\ FrontOf(s_rx_shift_reg, sent, Got)
            /\ miso = reply[Put + 1]
            /\ RestOf(s_tx_shift_reg, reply, Put + 1)
    /\ state = "DATA" /\ cs_n_1 = 0 /\ Got = W =>
         s_rx_data = sent /\ (s_state = "DATA" => s_bit_cnt = 0)
    /\ state \in {"STOP", "IDLE"} => s_rx_data = sent

LinkInv == ModeInv /\ DividerInv /\ AsleepInv /\ MasterInv /\ LineInv /\ SlaveInv

Inv == TypeOK /\ LinkInv

(* The variables' ranges, as the steps below need them. *)
Ranges ==
    /\ state \in {"IDLE", "START", "DATA", "STOP"}
    /\ div_cnt \in Nat /\ half_tick \in {0, 1} /\ step \in {0, 1}
    /\ bit_cnt \in Nat /\ bit_cnt < W /\ W \in Nat
    /\ cpol \in {0, 1} /\ clk_div \in Nat /\ start \in {0, 1}
    /\ sclk_r \in {0, 1} /\ sclk_0 \in {0, 1} /\ sclk_1 \in {0, 1} /\ s_cpol \in {0, 1}
    /\ cs_n \in {0, 1} /\ cs_n_0 \in {0, 1} /\ cs_n_1 \in {0, 1} /\ busy \in {0, 1}
    /\ mosi \in {0, 1} /\ miso \in {0, 1}
    /\ s_state \in {"IDLE", "DATA", "STOP"} /\ s_bit_cnt \in Nat /\ s_bit_cnt < W
    /\ tx_shift_reg \in Word /\ rx_shift_reg \in Word /\ rx_data \in Word
    /\ s_tx_shift_reg \in Word /\ s_rx_shift_reg \in Word /\ s_rx_data \in Word
    /\ tx_data \in Word /\ s_tx_data \in Word /\ sent \in Word /\ reply \in Word

(* They follow from the type invariant. *)
LEMMA RangesHold == TypeOK => Ranges
<1> SUFFICES ASSUME TypeOK PROVE Ranges
  OBVIOUS
<1>1. S!Word = Word /\ S!Bit = {0, 1}
  BY DEF S!Bit, S!Word, Word
<1>2. s_cpol \in {0, 1}
  BY LinkAssumption DEF TypeOK
<1>3. QED
  BY <1>1, <1>2, WidthAssumption, DivMaxAssumption
  DEF TypeOK, MasterTypeOK, S!SlaveTypeOK, Ranges

-----------------------------------------------------------------------------
(* What a clock edge does to each part, told apart no more than needed.     *)

(* The divider of a master that keeps its divider below the match. *)
LEMMA DividerStep ==
    ASSUME MasterTypeOK, clk_div \in 0..DivMax, LineEdge, div_cnt <= clk_div
    PROVE  /\ state # "DATA" => UNCHANGED <<div_cnt, half_tick>>
           /\ state = "DATA" => IF div_cnt = clk_div THEN div_cnt' = 0 /\ half_tick' = 1
                                ELSE div_cnt' = div_cnt + 1 /\ half_tick' = 0
  BY DividerSteps DEF LineEdge, MasterEdge

(* The master, in phase 0 whenever it is in a frame. *)
LEMMA MasterSteps ==
    ASSUME Mode0, Ranges, ModeInv, LineEdge
    PROVE  Phase0(cpol, tx_data, start, miso)
<1>1. Fsm(cpol, cpha, tx_data, start, miso)
  BY DEF LineEdge, MasterEdge
<1>2. (state # "IDLE" => cpha = 0) /\ start \in {0, 1}
  BY DEF ModeInv, Mode0, Ranges
<1>3. QED
  BY <1>1, <1>2, Phase0Steps

(* The slave in phase 0. *)
SlaveStep ==
    /\ sclk_0' = sclk_r /\ sclk_1' = sclk_0 /\ cs_n_0' = cs_n /\ cs_n_1' = cs_n_0
    /\ s_state = "IDLE" =>
         /\ UNCHANGED <<s_rx_data, s_rx_shift_reg>>
         /\ IF cs_n_1 = 1 THEN s_state' = "IDLE"
            ELSE /\ s_state' = "DATA" /\ s_bit_cnt' = 0
                 /\ miso' = Msb(s_tx_data) /\ s_tx_shift_reg' = ShiftIn(s_tx_data, 0)
    /\ s_state = "STOP" => s_state' = "IDLE" /\ UNCHANGED s_rx_data
    /\ s_state = "DATA" /\ ~RxNow =>
         /\ UNCHANGED <<s_rx_data, s_rx_shift_reg, s_bit_cnt>>
         /\ s_state' = IF cs_n_1 = 1 THEN "IDLE" ELSE "DATA"
    /\ s_state = "DATA" /\ RxNow =>
         IF s_bit_cnt = W - 1
         THEN s_state' = "STOP" /\ s_rx_data' = ShiftIn(s_rx_shift_reg, mosi)
         ELSE /\ s_state' = IF cs_n_1 = 1 THEN "IDLE" ELSE "DATA"
              /\ s_bit_cnt' = s_bit_cnt + 1 /\ UNCHANGED s_rx_data
              /\ s_rx_shift_reg' = ShiftIn(s_rx_shift_reg, mosi)
    /\ s_state = "DATA" /\ TxNow =>
         miso' = Msb(s_tx_shift_reg) /\ s_tx_shift_reg' = ShiftIn(s_tx_shift_reg, 0)
    /\ s_state = "DATA" /\ ~TxNow =>
         UNCHANGED s_tx_shift_reg /\ (cs_n_1 = 0 => UNCHANGED miso)

(* The cases of the slave are those. *)
LEMMA SlaveSteps ==
    ASSUME Mode0, Ranges, LineEdge
    PROVE  SlaveStep
<1> USE DEF SlaveStep
<1>1. S!SlaveEdge(sclk_r, mosi, cs_n, s_tx_data, s_cpol, 0)
  BY DEF LineEdge, Mode0
<1>2. /\ S!rx_edge(s_cpol, 0) = RxNow /\ S!tx_edge(s_cpol, 0) = TxNow
  BY DEF S!rx_edge, S!tx_edge, S!sclk_pose, S!sclk_neg, RxNow, TxNow, Ranges
<1>3. \A w, b : S!ShiftIn(w, b) = ShiftIn(w, b) /\ S!Msb(w) = Msb(w)
  BY DEF S!ShiftIn, S!Msb, ShiftIn, Msb
<1>4. sclk_0' = sclk_r /\ sclk_1' = sclk_0 /\ cs_n_0' = cs_n /\ cs_n_1' = cs_n_0
  BY <1>1 DEF S!SlaveEdge, S!Synchronise
<1>5. cs_n_1 \in {0, 1}
  BY DEF Ranges
<1>6. CASE S!SIdleEdge(s_tx_data)
  BY <1>3, <1>4, <1>5, <1>6 DEF S!SIdleEdge
<1>7. CASE S!SDataEdge(s_cpol, 0, mosi)
  <2>1. s_state = "DATA" /\ S!SReceive(s_cpol, 0, mosi) /\ S!STransmit(s_cpol, 0)
    BY <1>7 DEF S!SDataEdge
  <2>2. QED
    BY <1>2, <1>3, <1>4, <1>5, <2>1 DEF S!SReceive, S!STransmit, S!LastRxBit
<1>8. CASE S!SStopEdge
  BY <1>4, <1>8 DEF S!SStopEdge
<1>9. QED
  BY <1>1, <1>6, <1>7, <1>8 DEF S!SlaveEdge

(* What the link adds: a frame remembers the words it starts with. *)
LinkStep ==
    /\ s_cpol' = s_cpol
    /\ IF state = "IDLE" /\ start = 1 THEN sent' = tx_data /\ reply' = s_tx_data
       ELSE sent' = sent /\ reply' = reply

(* The wires from software hold still at the edge. *)
WiresHold ==
    /\ cpol' = cpol /\ cpha' = cpha /\ clk_div' = clk_div /\ start' = start
    /\ s_tx_data' = s_tx_data

DividerMove ==
    /\ state # "DATA" => div_cnt' = div_cnt /\ half_tick' = half_tick
    /\ state = "DATA" => IF div_cnt = clk_div THEN div_cnt' = 0 /\ half_tick' = 1
                         ELSE div_cnt' = div_cnt + 1 /\ half_tick' = 0
    /\ state # "IDLE" => clk_div > 1
    /\ state = "DATA" => div_cnt <= clk_div

(* A clock edge from a state of the invariant. *)
ClockStep ==
    /\ Ranges /\ Ranges' /\ Phase0(cpol, tx_data, start, miso)
    /\ SlaveStep /\ LinkStep /\ DividerMove

(* Every clock edge is such a step. *)
LEMMA ClockSteps ==
    ASSUME Mode0, TypeOK, TypeOK', LinkInv, Clock
    PROVE  ClockStep /\ WiresHold
<1>1. LinkStep /\ WiresHold /\ LineEdge
  BY DEF Clock, LinkStep, WiresHold, LineEdge, regVars
<1>2. DividerMove
  <2>1. state # "IDLE" => clk_div > 1
    BY DEF LinkInv, ModeInv, Mode0
  <2>2. CASE state = "DATA"
    <3>1. div_cnt <= clk_div
      BY <2>2 DEF LinkInv, DividerInv
    <3>2. QED
      BY <1>1, <2>1, <2>2, <3>1, DividerStep DEF DividerMove, TypeOK
  <2>3. CASE state # "DATA"
    BY <1>1, <2>1, <2>3 DEF LineEdge, MasterEdge, Divider, Divides, DividerMove
  <2>4. QED
    BY <2>2, <2>3
<1>3. Ranges'
  <2>1. S!Word = Word /\ S!Bit = {0, 1}
    BY DEF S!Bit, S!Word, Word
  <2>2. s_cpol' \in {0, 1}
    BY LinkAssumption DEF TypeOK
  <2>3. QED
    BY <2>1, <2>2, WidthAssumption, DivMaxAssumption
    DEF TypeOK, MasterTypeOK, S!SlaveTypeOK, Ranges
<1>4. QED
  BY <1>1, <1>2, <1>3, RangesHold, MasterSteps, SlaveSteps DEF LinkInv, ClockStep

(* The mode is kept, and chip select and busy follow the state. *)
LEMMA ModeClock ==
    ASSUME LinkInv, ClockStep, WiresHold
    PROVE  ModeInv'
  BY DEF LinkInv, ModeInv, ClockStep, Ranges, Phase0, LinkStep, WiresHold

(* The divider is at rest outside a frame. *)
LEMMA DividerClock ==
    ASSUME LinkInv, ClockStep, WiresHold
    PROVE  DividerInv'
  BY DEF LinkInv, DividerInv, LineInv, MasterInv, ModeInv, ClockStep, Ranges, Phase0, WiresHold,
         DividerMove

(* The line between the divider and the slave's synchroniser. *)
LEMMA LineClock ==
    ASSUME LinkInv, ClockStep
    PROVE  LineInv'
  BY DEF LinkInv, DividerInv, LineInv, MasterInv, ModeInv, ClockStep, Ranges, Phase0,
         SlaveStep, LinkStep, DividerMove, Quiet

(* A slave that is not yet selected takes no more than one stray bit. *)
LEMMA AsleepClock ==
    ASSUME Mode0, LinkInv, ClockStep
    PROVE  AsleepInv'
<1> USE DEF ClockStep, Ranges, RxNow, RxNext
<1>1. ASSUME Asleep, s_state = "DATA" PROVE AsleepInv'
  <2>1. sclk_r = s_cpol => sclk_r' = s_cpol
    BY <1>1 DEF Asleep, LinkInv, ModeInv, LineInv, Phase0
  <2>2. W > 1
    BY DEF Mode0
  <2>3. QED
    BY <1>1, <2>1, <2>2 DEF LinkInv, AsleepInv, SlaveStep, LinkStep
<1>2. CASE s_state # "DATA"
  BY <1>2 DEF AsleepInv, SlaveStep
<1>3. ASSUME ~Asleep, s_state = "DATA", Asleep' PROVE AsleepInv'
  <2>1. state = "DATA" /\ cs_n_1 = 0 /\ half_tick = 1 /\ step = 1 /\ bit_cnt = W - 1
    BY <1>3 DEF Asleep, LinkInv, MasterInv, Phase0, SlaveStep
  <2>2. Quiet
    BY <2>1 DEF LinkInv, LineInv, Quiet
  <2>3. s_bit_cnt = 0 /\ ~RxNow
    BY <1>3, <2>1, <2>2 DEF LinkInv, SlaveInv, Got, Quiet
  <2>4. QED
    BY <1>3, <2>3 DEF AsleepInv, SlaveStep
<1>4. QED
  BY <1>1, <1>2, <1>3 DEF AsleepInv

(* What the slave puts on miso is what the master is about to sample. *)
LEMMA ReplyBit ==
    ASSUME LinkInv, Ranges, state = "DATA", half_tick = 1
    PROVE  /\ cs_n_1 = 0 /\ Quiet /\ div_cnt = 0
           /\ step = 0 => miso = reply[bit_cnt + 1]
           /\ step = 1 /\ bit_cnt = W - 1 => s_rx_data = sent
<1>1. cs_n_1 = 0 /\ Quiet /\ div_cnt = 0
  BY DEF LinkInv, LineInv, DividerInv, Ranges, Quiet
<1>2. step = 0 => miso = reply[bit_cnt + 1]
  BY <1>1 DEF LinkInv, SlaveInv, Ranges, Got, Put
<1>3. step = 1 /\ bit_cnt = W - 1 => s_rx_data = sent
  BY <1>1 DEF LinkInv, SlaveInv, Ranges, Got
<1>4. QED
  BY <1>1, <1>2, <1>3

(* The master's registers hold the two words bit by bit. *)
LEMMA MasterClock ==
    ASSUME LinkInv, ClockStep
    PROVE  MasterInv'
<1> USE DEF ClockStep, Ranges
<1>1. CASE state = "IDLE"
  BY <1>1 DEF LinkInv, ModeInv, MasterInv, Phase0, SlaveStep, LinkStep
<1>2. CASE state = "START"
  <2>1. /\ Msb(tx_shift_reg) = sent[bit_cnt + 1]
        /\ RestOf(ShiftIn(tx_shift_reg, 0), sent, bit_cnt + 1)
    <3>1. 0 \in 0..(W - 1) /\ bit_cnt = 0 /\ tx_shift_reg = sent
      BY <1>2, WidthAssumption DEF LinkInv, MasterInv
    <3>2. RestOf(tx_shift_reg, sent, 0)
      BY <3>1, WordEnds
    <3>3. QED
      BY <3>1, <3>2, BitLeaves
  <2>2. FrontOf(rx_shift_reg, reply, 0)
    BY WordEnds
  <2>3. QED
    BY <1>2, <2>1, <2>2 DEF LinkInv, ModeInv, MasterInv, Phase0, SlaveStep, LinkStep
<1>3. CASE state = "DATA" /\ half_tick = 0
  BY <1>3 DEF LinkInv, ModeInv, MasterInv, Phase0, SlaveStep, LinkStep
<1>4. CASE state = "DATA" /\ half_tick = 1 /\ step = 0
  <2>1. FrontOf(ShiftIn(rx_shift_reg, miso), reply, bit_cnt + 1)
    <3>1. bit_cnt \in 0..(W - 1) /\ FrontOf(rx_shift_reg, reply, bit_cnt)
      BY <1>4 DEF LinkInv, MasterInv
    <3>2. QED
      BY <1>4, <3>1, ReplyBit, BitArrives
  <2>2. QED
    BY <1>4, <2>1 DEF LinkInv, ModeInv, MasterInv, Phase0, SlaveStep, LinkStep
<1>5. CASE state = "DATA" /\ half_tick = 1 /\ step = 1 /\ bit_cnt # W - 1
  <2>1. /\ Msb(tx_shift_reg) = sent[bit_cnt + 2]
        /\ RestOf(ShiftIn(tx_shift_reg, 0), sent, bit_cnt + 2)
    <3>1. bit_cnt + 1 \in 0..(W - 1) /\ RestOf(tx_shift_reg, sent, bit_cnt + 1)
          /\ (bit_cnt + 1) + 1 = bit_cnt + 2
      BY <1>5 DEF LinkInv, MasterInv
    <3>2. QED
      BY <3>1, BitLeaves
  <2>2. bit_cnt' + 1 = bit_cnt + 2 /\ bit_cnt' + step' = bit_cnt + step
    BY <1>5 DEF Phase0
  <2>3. QED
    BY <1>5, <2>1, <2>2 DEF LinkInv, ModeInv, MasterInv, Phase0, SlaveStep, LinkStep
<1>6. CASE state = "DATA" /\ half_tick = 1 /\ step = 1 /\ bit_cnt = W - 1
  <2>1. rx_shift_reg = reply
    <3>1. FrontOf(rx_shift_reg, reply, W)
      BY <1>6 DEF LinkInv, MasterInv
    <3>2. QED
      BY <3>1, WordEnds
  <2>2. QED
    BY <1>6, <2>1 DEF LinkInv, ModeInv, MasterInv, Phase0, SlaveStep, LinkStep
<1>7. CASE state = "STOP"
  BY <1>7 DEF LinkInv, ModeInv, MasterInv, Phase0, SlaveStep, LinkStep
<1>8. QED
  BY <1>1, <1>2, <1>3, <1>4, <1>5, <1>6, <1>7

(* The slave while the master is in a frame and the slave is selected. *)
LEMMA SlaveInFrame ==
    ASSUME LinkInv, ClockStep, state = "DATA", cs_n_1 = 0, state' = "DATA"
    PROVE  SlaveInv'
<1> USE DEF ClockStep, Ranges
<1> DEFINE Selected ==
             /\ s_state = "DATA" /\ s_bit_cnt = Got
             /\ FrontOf(s_rx_shift_reg, sent, Got)
             /\ miso = reply[Put + 1]
             /\ RestOf(s_tx_shift_reg, reply, Put + 1)
           Waking == /\ s_state = "IDLE" /\ bit_cnt = 0 /\ step = 0
                     /\ half_tick = 0 /\ div_cnt <= 2
           Full == Got = W /\ s_rx_data = sent /\ (s_state = "DATA" => s_bit_cnt = 0)
<1>0. sent' = sent /\ reply' = reply /\ reply = s_tx_data /\ cs_n_0 = 0 /\ cs_n_1' = 0
  BY DEF LinkInv, ModeInv, MasterInv, LinkStep, SlaveStep
<1>1. Got \in 0..W /\ Put \in -1..(W - 1) /\ (Got < W => Selected \/ Waking) /\ (Got = W => Full)
  BY DEF LinkInv, SlaveInv, Got, Put
<1>2. SUFFICES (Got' < W /\ Selected') \/ Full'
  BY DEF SlaveInv
<1>3. CASE Quiet /\ half_tick = 0
  <2>1. Quiet' /\ Got' = Got /\ Put' = Put /\ ~RxNow /\ ~TxNow
    BY <1>3 DEF Quiet, Got, Put, RxNow, TxNow, Phase0, SlaveStep
  <2>2. ASSUME Selected PROVE Selected'
    BY <1>0, <2>1, <2>2 DEF SlaveStep
  <2>3. ASSUME Waking PROVE Selected'
    <3>1. Got' = 0 /\ Put' = 0
      BY <2>1, <2>3, <1>3 DEF Got, Put
    <3>2. Msb(s_tx_data) = reply[1] /\ RestOf(ShiftIn(s_tx_data, 0), reply, 1)
      BY <1>0, WordEnds, BitLeaves, WidthAssumption
    <3>3. FrontOf(s_rx_shift_reg', sent, 0)
      BY WordEnds
    <3>4. QED
      BY <1>0, <2>3, <3>1, <3>2, <3>3 DEF SlaveStep
  <2>4. ASSUME Full PROVE Full'
    BY <1>0, <2>1, <2>4 DEF SlaveStep
  <2>5. QED
    BY <1>1, <2>1, <2>2, <2>3, <2>4
<1>4. CASE Quiet /\ half_tick = 1
  <2>1. ~Quiet' /\ ~RxNow /\ ~TxNow /\ ~Waking
    BY <1>4 DEF Quiet, RxNow, TxNow, Phase0, SlaveStep
  <2>2. step' = 1 - step /\ bit_cnt' = bit_cnt + step
    BY <1>4 DEF Phase0
  <2>3. Got' = Got /\ Put' = Put
    BY <1>4, <2>1, <2>2 DEF Got, Put
  <2>4. QED
    BY <1>0, <1>1, <2>1, <2>3 DEF SlaveStep
<1>5. CASE sclk_0 # sclk_r
  <2>1. Got' = Got /\ Put' = Put /\ ~RxNow /\ ~TxNow /\ ~Waking
    BY <1>5 DEF LinkInv, LineInv, Quiet, Got, Put, RxNow, TxNow, Phase0, SlaveStep
  <2>2. QED
    BY <1>0, <1>1, <2>1 DEF SlaveStep
<1>6. CASE sclk_0 = sclk_r /\ sclk_1 # sclk_r /\ step = 1
  <2>1. RxNow /\ ~TxNow /\ ~Waking /\ Got = bit_cnt /\ Got' = Got + 1 /\ Put' = Put
        /\ mosi = sent[Got + 1]
    BY <1>6 DEF LinkInv, LineInv, MasterInv, Quiet, Got, Put, RxNow, TxNow, Phase0, SlaveStep
  <2>2. Selected /\ Got \in 0..(W - 1)
    BY <1>1, <2>1
  <2>3. FrontOf(ShiftIn(s_rx_shift_reg, mosi), sent, Got + 1)
    BY <2>1, <2>2, BitArrives
  <2>4. CASE Got = W - 1
    <3>1. ShiftIn(s_rx_shift_reg, mosi) \in Word
      BY ShiftInWord
    <3>2. ShiftIn(s_rx_shift_reg, mosi) = sent
      BY <2>3, <2>4, <3>1, WordEnds
    <3>3. QED
      BY <1>0, <2>1, <2>2, <2>4, <3>2 DEF SlaveStep
  <2>5. CASE Got # W - 1
    BY <1>0, <2>1, <2>2, <2>3, <2>5 DEF SlaveStep
  <2>6. QED
    BY <2>4, <2>5
<1>7. CASE sclk_0 = sclk_r /\ sclk_1 # sclk_r /\ step = 0
  <2>1. ~RxNow /\ TxNow /\ ~Waking /\ Got' = Got /\ Put' = Put + 1 /\ Got < W
        /\ bit_cnt > 0 /\ Put = bit_cnt - 1
    BY <1>7 DEF LinkInv, LineInv, MasterInv, Quiet, Got, Put, RxNow, TxNow, Phase0, SlaveStep
  <2>2. Msb(s_tx_shift_reg) = reply[Put + 2] /\ RestOf(ShiftIn(s_tx_shift_reg, 0), reply, Put + 2)
    <3>1. Selected /\ Put + 1 \in 0..(W - 1) /\ (Put + 1) + 1 = Put + 2
      BY <1>1, <2>1
    <3>2. QED
      BY <3>1, BitLeaves
  <2>3. QED
    BY <1>0, <1>1, <2>1, <2>2 DEF SlaveStep
<1>8. QED
  BY <1>3, <1>4, <1>5, <1>6, <1>7 DEF Quiet

(* A slave that is not selected loses no word it has. *)
LEMMA SlaveClock ==
    ASSUME Mode0, LinkInv, ClockStep
    PROVE  SlaveInv'
<1> USE DEF ClockStep, Ranges
<1>0. W > 1
  BY DEF Mode0
<1>1. CASE state = "IDLE" \/ state = "STOP"
  <2>1. s_rx_data' = s_rx_data
    BY <1>0, <1>1 DEF LinkInv, AsleepInv, Asleep, SlaveStep
  <2>2. s_rx_data = sent /\ state' \in {"IDLE", "START"} /\ (state' = "IDLE" => sent' = sent)
    BY <1>1 DEF LinkInv, SlaveInv, Phase0, LinkStep
  <2>3. QED
    BY <2>1, <2>2 DEF SlaveInv
<1>2. CASE state = "START"
  BY <1>2 DEF LinkInv, MasterInv, SlaveInv, Phase0, SlaveStep
<1>3. CASE state = "DATA" /\ cs_n_1 = 1
  <2>1. /\ bit_cnt' = 0 /\ step' = 0 /\ half_tick' = 0 /\ div_cnt' <= 2
        /\ state' = "DATA" /\ cs_n_1' = 0
    BY <1>3 DEF LinkInv, LineInv, MasterInv, Phase0, SlaveStep, DividerMove
  <2>2. s_state' = "IDLE"
    BY <1>0, <1>3 DEF LinkInv, AsleepInv, Asleep, SlaveStep
  <2>3. Got' = 0
    <3>1. sclk_0' = sclk_r' /\ sclk_1' = sclk_r'
      BY <1>3 DEF LinkInv, LineInv, Phase0, SlaveStep
    <3>2. QED
      BY <2>1, <3>1 DEF Got, Quiet
  <2>4. QED
    BY <1>0, <2>1, <2>2, <2>3 DEF SlaveInv
<1>4. CASE state = "DATA" /\ cs_n_1 = 0 /\ state' = "DATA"
  BY <1>4, SlaveInFrame
<1>5. CASE state = "DATA" /\ cs_n_1 = 0 /\ state' # "DATA"
  <2>1. state' = "STOP" /\ half_tick = 1 /\ step = 1 /\ bit_cnt = W - 1
    BY <1>5 DEF Phase0
  <2>2. s_rx_data = sent /\ ~RxNow
    BY <1>5, <2>1, ReplyBit DEF Quiet, RxNow
  <2>3. s_rx_data' = s_rx_data /\ sent' = sent
    BY <1>5, <2>2 DEF SlaveStep, LinkStep
  <2>4. QED
    BY <2>1, <2>2, <2>3 DEF SlaveInv
<1>6. QED
  BY <1>1, <1>2, <1>3, <1>4, <1>5

-----------------------------------------------------------------------------
(* It holds when the two are reset. *)
LEMMA InvInit == Init => Inv
<1> SUFFICES ASSUME Init PROVE Inv
  OBVIOUS
<1>1. TypeOK
  BY TypeInit
<1>2. QED
  BY <1>1
  DEF Inv, Init, MasterInit, S!SlaveInit, S!Zero, Zero, LinkInv, ModeInv, DividerInv, AsleepInv,
      MasterInv, LineInv, SlaveInv

(* Resetting the peripheral and its peer drops the frame on both sides; the *)
(* synchroniser still holds what was on the line.                           *)
LEMMA ResetInv ==
    ASSUME Inv, Reset
    PROVE  LinkInv'
  BY DEF Inv, Reset, MasterReset, S!SlaveReset, S!syncVars, S!Zero, Zero, LinkInv, ModeInv,
         DividerInv, AsleepInv, MasterInv, LineInv, SlaveInv

(* A register write, a new reply, or no step at all: the line stays as it is. *)
LEMMA SoftwareInv ==
    ASSUME Inv, UNCHANGED <<masterVars, slaveVars, s_cpol, sent, reply>>,
           \/ \E d \in Divs : Configure(d)
           \/ \E b \in Bit : WriteStart(b)
           \/ \E d \in TxWords : WriteTx(d)
           \/ \E d \in Replies : LoadReply(d)
           \/ UNCHANGED vars
    PROVE  LinkInv'
<1> USE DEF Inv, LinkInv, masterVars, slaveVars
<1>1. ModeInv'
  <2>1. CASE \E d \in Divs : Configure(d)
    BY <2>1 DEF ModeInv, Configure
  <2>2. CASE \E b \in Bit : WriteStart(b)
    BY <2>2 DEF ModeInv, WriteStart
  <2>3. CASE \E d \in TxWords : WriteTx(d)
    BY <2>3 DEF ModeInv, WriteTx
  <2>4. CASE \E d \in Replies : LoadReply(d)
    BY <2>4 DEF ModeInv, LoadReply, regVars
  <2>5. CASE UNCHANGED vars
    BY <2>5 DEF ModeInv, vars, regVars
  <2>6. QED
    BY <2>1, <2>2, <2>3, <2>4, <2>5
<1>2. state = "DATA" => clk_div' = clk_div
  BY RangesHold DEF Ranges, ModeInv, Configure, WriteStart, WriteTx, LoadReply, vars, regVars
<1>3. DividerInv'
  BY <1>2 DEF DividerInv
<1>4. AsleepInv'
  BY DEF AsleepInv, Asleep, RxNow, RxNext
<1>5. MasterInv' /\ LineInv'
  BY DEF MasterInv, LineInv, Quiet, RestOf, FrontOf
<1>6. SlaveInv'
  BY DEF SlaveInv, Quiet, Got, Put, RestOf, FrontOf
<1>7. QED
  BY <1>1, <1>3, <1>4, <1>5, <1>6

(* Every step of the link keeps the invariant. *)
LEMMA InvNext == Mode0 /\ Inv /\ [Next]_vars => Inv'
<1> SUFFICES ASSUME Mode0, Inv, [Next]_vars PROVE Inv'
  OBVIOUS
<1>1. TypeOK'
  BY TypeNext DEF Inv
<1>2. CASE Clock
  <2>1. ClockStep /\ WiresHold
    BY <1>1, <1>2, ClockSteps DEF Inv
  <2>2. ModeInv' /\ DividerInv' /\ AsleepInv' /\ MasterInv' /\ LineInv' /\ SlaveInv'
    BY <2>1, ModeClock, DividerClock, AsleepClock, MasterClock, LineClock, SlaveClock DEF Inv
  <2>3. QED
    BY <1>1, <2>2 DEF Inv, LinkInv
<1>3. CASE Reset
  BY <1>1, <1>3, ResetInv DEF Inv
<1>4. CASE ~Clock /\ ~Reset
  <2>1. UNCHANGED <<masterVars, slaveVars, s_cpol, sent, reply>>
    BY <1>4 DEF Next, Configure, WriteStart, WriteTx, LoadReply, vars
  <2>2. QED
    BY <1>1, <1>4, <2>1, SoftwareInv DEF Next, Inv
<1>5. QED
  BY <1>2, <1>3, <1>4

(* The invariant holds throughout. *)
LEMMA InvAlways == Mode0 /\ Spec => []Inv
<1> SUFFICES ASSUME Mode0 PROVE Spec => []Inv
  OBVIOUS
<1>1. Inv /\ [Next]_vars => Inv'
  BY InvNext
<1>2. QED
  BY InvInit, <1>1, PTL DEF Spec

(* Slave to master: whenever software reads busy as 0, rx_data is the word  *)
(* the slave had when the last frame began, whatever was written meanwhile. *)
THEOREM ReplyCorrect == Mode0 /\ Spec => []MasterGotReply
<1>1. Inv => MasterGotReply
  BY DEF Inv, LinkInv, ModeInv, MasterInv, MasterGotReply
<1>2. QED
  BY <1>1, InvAlways, PTL

(* Master to slave: whenever busy reads 0, the slave holds the word the     *)
(* master was given; a frame cut off by reset leaves nothing behind.        *)
THEOREM WordCorrect == Mode0 /\ Spec => []SlaveGotWord
<1>1. Inv => SlaveGotWord
  BY DEF Inv, LinkInv, ModeInv, SlaveInv, SlaveGotWord
<1>2. QED
  BY <1>1, InvAlways, PTL

-----------------------------------------------------------------------------
(* The two ends implement the word-level transfer, with the slave's reply   *)
(* as the peer's word.                                                      *)

(* A clock edge is one of the steps of the transfer: idle clocks rest or    *)
(* accept, the last half bit delivers, STOP finishes; the others change     *)
(* nothing that the transfer speaks of.                                     *)
LEMMA ClockRefines ==
    ASSUME Mode0, Inv, TypeOK', Clock
    PROVE  Transfer!Next
<1> USE DEF Phase
<1>1. /\ Transfer!Inputs /\ s_tx_data' = s_tx_data /\ s_tx_data \in Word
      /\ state # "IDLE" => sent' = sent /\ done = 0
  BY DEF Clock, TypeOK, Transfer!Inputs, Inv, MasterTypeOK, LinkInv, ModeInv
<1>2. ModeInv /\ MasterInv /\ ClockStep
  BY ClockSteps DEF Inv, LinkInv
<1>3. CASE IdleEdge(cpol, tx_data, start)
  <2>1. CASE start = 0
    BY <1>1, <1>3, <2>1 DEF Clock, IdleEdge, IdleOutputs, Transfer!Rest, Transfer!Next
  <2>2. CASE start = 1
    BY <1>1, <1>3, <2>2 DEF Clock, IdleEdge, IdleOutputs, Transfer!Accept, Transfer!Next
  <2>3. QED
    BY <2>1, <2>2 DEF Inv, TypeOK
<1>4. CASE LastEdge(cpha, miso)
  <2>1. rx_data' = s_tx_data
    <3>1. rx_data' = reply' /\ reply' = reply
      BY <1>2, <1>4, MasterClock DEF LastEdge, MasterInv, Inv, Clock
    <3>2. QED
      BY <1>2, <1>4, <3>1 DEF LastEdge, ModeInv
  <2>2. QED
    BY <1>1, <1>4, <2>1 DEF LastEdge, Transfer!Deliver, Transfer!Next
<1>5. CASE StopEdge(cpol)
  BY <1>1, <1>5 DEF StopEdge, StopOutputs, Transfer!Finish, Transfer!Next
<1>6. CASE StartEdge(cpha) \/ WaitEdge \/ LeadingEdge(cpha, miso) \/ TrailingEdge(cpha, miso)
  <2>1. state # "IDLE" /\ Phase[state'] = Phase[state] /\ done' = 0 /\ rx_data' = rx_data
    BY <1>6 DEF StartEdge, WaitEdge, LeadingEdge, TrailingEdge
  <2>2. QED
    BY <1>1, <1>6, <2>1 DEF Transfer!Command, Transfer!Next
<1>7. QED
  BY <1>3, <1>4, <1>5, <1>6 DEF Clock, MasterEdge, Fsm

(* Every behaviour of master and slave is one of the word-level transfer:   *)
(* what is delivered, once and as a whole, is the slave's reply.            *)
THEOREM TransferCorrect == Mode0 /\ Spec => TransferSpec
<1> SUFFICES ASSUME Mode0 PROVE Spec => TransferSpec
  OBVIOUS
<1>1. Init => Transfer!Init
  BY TypeInit, ZeroWord DEF Init, TypeOK, MasterInit, Phase, Transfer!Init
<1>2. Inv /\ Inv' /\ [Next]_vars => [Transfer!Next]_(Transfer!vars)
  <2> SUFFICES ASSUME Inv, Inv', [Next]_vars
               PROVE  Transfer!Next \/ UNCHANGED Transfer!vars
    OBVIOUS
  <2>1. CASE Clock
    BY <2>1, ClockRefines DEF Inv
  <2>2. Transfer!Inputs /\ s_tx_data' \in Word /\ sent' \in Word
    BY DEF Inv, TypeOK, Transfer!Inputs
  <2>3. ASSUME NEW d \in Divs, Configure(d) PROVE Transfer!Next
    BY <2>2, <2>3 DEF Configure, masterVars, Transfer!Command, Transfer!Next
  <2>4. ASSUME NEW b \in Bit, WriteStart(b) PROVE Transfer!Next
    BY <2>2, <2>4 DEF WriteStart, masterVars, Transfer!Command, Transfer!Next
  <2>5. ASSUME NEW d \in TxWords, WriteTx(d) PROVE Transfer!Next
    BY <2>2, <2>5 DEF WriteTx, masterVars, Transfer!Command, Transfer!Next
  <2>6. ASSUME NEW d \in Replies, LoadReply(d) PROVE Transfer!Next
    <3>1. state = "IDLE"
      BY <2>6 DEF LoadReply, Inv, LinkInv, ModeInv
    <3>2. Phase[state] = "idle" /\ Phase[state'] = "idle"
      BY <2>6, <3>1 DEF LoadReply, masterVars, Phase
    <3>3. QED
      BY <2>2, <2>6, <3>2 DEF LoadReply, masterVars, Transfer!Rest, Transfer!Next
  <2>7. CASE Reset
    BY <2>2, <2>7 DEF Reset, MasterReset, Phase, Transfer!Reset, Transfer!Next
  <2>8. CASE UNCHANGED vars
    BY <2>8 DEF vars, masterVars, regVars, Transfer!vars
  <2>9. QED
    BY <2>1, <2>3, <2>4, <2>5, <2>6, <2>7, <2>8 DEF Next
<1>3. QED
  BY <1>1, <1>2, InvAlways, PTL DEF Spec, TransferSpec, Transfer!Spec

=============================================================================
