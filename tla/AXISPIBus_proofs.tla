-------------------------- MODULE AXISPIBus_proofs --------------------------
(***************************************************************************)
(* TLAPS proofs about AXISPIBus: the whole peripheral, for every width of  *)
(* a byte and every set of writes and reads.                               *)
(***************************************************************************)
EXTENDS AXISPIBus, SPIMaster_proofs

(* The proofs about the bus, with the peripheral's registers behind it. *)
Bus == INSTANCE AXIBus_proofs WITH
    Lanes <- 0..3, Bytes <- ByteValues, MaxReads <- 2,
    Statuses <- Axi!RegWord, RxWords <- Axi!RegWord,
    status <- STATE_REG, rx <- RX_REG

USE DEF Bit

(* The assumptions those proofs rest on. *)
LEMMA BusParameters ==
    /\ 0..3 # {} /\ 0 \in ByteValues
    /\ Writes \subseteq Bus!WriteOp /\ ReadAddrs \subseteq Bus!Regs
    /\ Axi!RegWord \subseteq Bus!RegWord /\ 2 \in Nat \ {0}
<1>1. 0 \in ByteValues
  BY DivMaxAssumption, DividerIsAByte DEF ByteValues
<1>2. B!WriteOp = Bus!WriteOp /\ B!Regs = Bus!Regs /\ Axi!RegWord = Bus!RegWord
  BY DEF B!WriteOp, Bus!WriteOp, B!Regs, Bus!Regs, Axi!RegWord, B!RegWord, Bus!RegWord
<1>3. QED
  BY <1>1, <1>2, BusAssumption

(* A clock edge of the peripheral is one of the bus. *)
LEMMA BusClock == B!Clock <=> Bus!Clock
  BY DEF B!Clock, B!AxiEdge, B!AwReady, B!TakesWrite, B!AwAddr, B!WReady, B!RegisterWrite,
         B!slv_reg_wren, B!Strobed, B!BValid, B!ArReady, B!RValid, B!slv_reg_rden, B!RData,
         B!reg_data_out, B!MasterEdge, B!TakeWriteAnswer, B!TakeReadAnswer, B!Valid, B!Flag,
         Bus!Clock, Bus!AxiEdge, Bus!AwReady, Bus!TakesWrite, Bus!AwAddr, Bus!WReady,
         Bus!RegisterWrite, Bus!slv_reg_wren, Bus!Strobed, Bus!BValid, Bus!ArReady, Bus!RValid,
         Bus!slv_reg_rden, Bus!RData, Bus!reg_data_out, Bus!MasterEdge, Bus!TakeWriteAnswer,
         Bus!TakeReadAnswer, Bus!Valid, Bus!Flag

(* Every step of the system is a step of the bus, or none. *)
LEMMA BusNext == [Next]_vars => [Bus!Next]_(Bus!vars)
<1> SUFFICES ASSUME [Next]_vars PROVE Bus!Next \/ UNCHANGED Bus!vars
  OBVIOUS
<1>1. CASE Clock
  BY <1>1, BusClock DEF Clock, Bus!Next
<1>2. ASSUME NEW op \in Writes, AskWrite(op) PROVE Bus!Next
  BY <1>2 DEF AskWrite, B!AskWrite, B!axiVars, B!sideVars, Bus!AskWrite, Bus!axiVars,
              Bus!sideVars, Bus!Next
<1>3. ASSUME NEW a \in ReadAddrs, AskRead(a) PROVE Bus!Next
  BY <1>3 DEF AskRead, B!AskRead, B!axiVars, B!sideVars, Bus!AskRead, Bus!axiVars,
              Bus!sideVars, Bus!Next
<1>4. CASE BusStep
  BY <1>4 DEF BusStep, B!PresentAddress, B!PresentData, B!OfferBReady, B!OfferRReady,
              B!axiVars, B!sideVars, Bus!PresentAddress, Bus!PresentData, Bus!OfferBReady,
              Bus!OfferRReady, Bus!axiVars, Bus!sideVars, Bus!Next
<1>5. CASE Reset
  BY <1>5 DEF Reset, B!Reset, B!AxiReset, B!Cleared, B!Regs, Bus!Reset, Bus!AxiReset,
              Bus!Cleared, Bus!Regs, Bus!Next
<1>6. CASE UNCHANGED vars
  <2>1. STATE_REG' = STATE_REG /\ RX_REG' = RX_REG
    BY <1>6 DEF vars, masterVars, STATE_REG, RX_REG
  <2>2. QED
    BY <1>6, <2>1 DEF vars, axiVars, busVars, Bus!vars, Bus!axiVars, Bus!busVars, Bus!sideVars
<1>7. QED
  BY <1>1, <1>2, <1>3, <1>4, <1>5, <1>6 DEF Next

(* The handshakes stay in order, with spi_master behind the registers. *)
LEMMA HandshakesNext == Bus!Handshakes /\ [Next]_vars => Bus!Handshakes'
  BY BusNext, BusParameters, Bus!HandshakesNext

(* They are in order when the peripheral is reset. *)
LEMMA HandshakesInit == Init => Bus!Handshakes
<1> SUFFICES ASSUME Init PROVE Bus!Handshakes
  OBVIOUS
<1>1. Bus!AxiInit /\ wop \in Writes /\ bready \in Bus!Flag /\ rready \in Bus!Flag
  BY DEF Init, PeripheralInit, Axi!AxiInit, Axi!Cleared, Axi!Regs, Bus!AxiInit, Bus!Cleared,
         Bus!Regs, Bus!Flag
<1>2. QED
  BY <1>1, BusParameters, Bus!HandshakesInit DEF Init

-----------------------------------------------------------------------------
(* The frame on the serial side, told by the edges of sclk. *)
SerialType ==
    /\ state \in {"IDLE", "START", "DATA", "STOP"}
    /\ bit_cnt \in 0..(W - 1) /\ step \in Bit /\ sclk_r \in Bit /\ done \in Bit
    /\ busy = (IF state = "IDLE" THEN 0 ELSE 1)

EdgesInv ==
    /\ state = "START" => edges = 0 /\ bit_cnt = 0 /\ step = 0
    /\ state = "DATA" => edges = 2 * bit_cnt + step
    /\ state = "STOP" => edges = 2 * W /\ bit_cnt = W - 1

(* A start that was written and not yet taken: the write's response has     *)
(* just been raised.                                                        *)
OwedInv == owed /\ busy = 0 => state = "IDLE" /\ start = 1 /\ bvalid = 1

(* A fair read is ahead of every write asked after it.                      *)
FairInv == arvalid = 1 /\ fair => bvalid = 0 /\ (arready = 0 => awready = 0)

Inv ==
    /\ Bus!Handshakes /\ SerialType /\ EdgesInv
    /\ OwedInv /\ FairInv /\ told = FALSE

(* The bytes of a register are numbers; the wires read from them are bits.  *)
LEMMA WireTypes ==
    ASSUME Bus!HandshakeType
    PROVE  cpol \in Bit /\ cpha \in Bit
<1>1. slv_reg[0][0] \in Nat
  <2>1. ByteValues \subseteq Nat
    BY DivMaxAssumption, DividerIsAByte DEF ByteValues
  <2>2. slv_reg[0] \in [0..3 -> ByteValues]
    BY DEF Bus!HandshakeType, Bus!Regs, Bus!RegWord
  <2>3. slv_reg[0][0] \in ByteValues
    BY <2>2
  <2>4. QED
    BY <2>1, <2>3
<1>2. QED
  BY <1>1 DEF cpol, cpha

(* The registers of the FSM keep their ranges. *)
LEMMA SerialClock == Inv /\ Clock => SerialType' /\ EdgesInv'
<1> SUFFICES ASSUME Inv, Clock PROVE SerialType' /\ EdgesInv'
  OBVIOUS
<1> USE DEF Inv, SerialType, EdgesInv
<1>0. /\ W \in Nat /\ 0 \in 0..(W - 1)
      /\ Fsm(cpol, cpha, tx_data, start, mosi) /\ cpol \in Bit /\ 1 - sclk_r \in Bit
      /\ edges' = CASE state = "IDLE" -> 0
                    [] state = "DATA" /\ sclk_r' # sclk_r -> edges + 1
                    [] OTHER -> edges
  BY WidthAssumption, WireTypes DEF Clock, MasterEdge, Bus!Handshakes
<1>1. CASE IdleEdge(cpol, tx_data, start)
  BY <1>0, <1>1 DEF IdleEdge, IdleOutputs
<1>2. CASE StartEdge(cpha)
  BY <1>0, <1>2 DEF StartEdge
<1>3. CASE WaitEdge
  BY <1>0, <1>3 DEF WaitEdge
<1>4. CASE LeadingEdge(cpha, mosi)
  BY <1>0, <1>4 DEF LeadingEdge
<1>5. CASE TrailingEdge(cpha, mosi)
  BY <1>0, <1>5 DEF TrailingEdge, LastBit
<1>6. CASE LastEdge(cpha, mosi)
  BY <1>0, <1>6 DEF LastEdge, LastBit
<1>7. CASE StopEdge(cpol)
  BY <1>0, <1>7 DEF StopEdge, StopOutputs
<1>8. QED
  BY <1>0, <1>1, <1>2, <1>3, <1>4, <1>5, <1>6, <1>7 DEF Fsm

(* A start level is taken one clock after it was written. *)
LEMMA OwedClock == Inv /\ Clock => OwedInv'
<1> SUFFICES ASSUME Inv, Clock, owed', busy' = 0 PROVE OwedInv'
  BY DEF OwedInv
<1> USE DEF Inv, SerialType, OwedInv
<1>1. /\ state # "STOP" /\ (owed \/ (busy = 0 /\ start = 0 /\ start' = 1))
      /\ Fsm(cpol, cpha, tx_data, start, mosi)
  BY DEF Clock, MasterEdge
<1>2. state = "IDLE" /\ start # 1 /\ state' = "IDLE"
  BY <1>1 DEF Fsm, IdleEdge, StartEdge, WaitEdge, LeadingEdge, TrailingEdge, LastEdge, StopEdge
<1>3. start = 0 /\ start' = 1
  BY <1>1, <1>2
<1>4. Bus!slv_reg_wren(Bus!Valid(aw), Bus!Valid(w))
  <2>1. slv_reg' # slv_reg
    BY <1>3 DEF start
  <2>2. QED
    BY <2>1, BusClock DEF Clock, Bus!Clock, Bus!AxiEdge, Bus!RegisterWrite
<1>5. bvalid' = 1
  BY <1>4, BusClock
  DEF Clock, Bus!Clock, Bus!AxiEdge, Bus!BValid, Bus!slv_reg_wren, Bus!Handshakes, Bus!WriteInv
<1>6. QED
  BY <1>2, <1>3, <1>5

(* A read that was asked first is served before a later write shows. *)
LEMMA FairClock == Inv /\ Clock => FairInv'
<1> SUFFICES ASSUME Inv, Clock, arvalid' = 1, fair' PROVE FairInv'
  BY DEF FairInv
<1> USE DEF Inv, FairInv, Bus!Handshakes, Bus!HandshakeType, Bus!Flag
<1>1. Bus!Clock /\ fair
  <2>1. arvalid' # 0
    OBVIOUS
  <2>2. QED
    BY <2>1, BusClock DEF Clock
<1>2. arvalid = 1 /\ arready = 0 /\ arready' = 1
  BY <1>1 DEF Bus!Clock, Bus!AxiEdge, Bus!MasterEdge, Bus!ArReady
<1>3. bvalid = 0 /\ awready = 0
  BY <1>1, <1>2
<1>4. bvalid' = 0
  BY <1>1, <1>3 DEF Bus!Clock, Bus!AxiEdge, Bus!BValid, Bus!slv_reg_wren
<1>5. QED
  BY <1>2, <1>4

(* A fair answer given while a start is owed says "busy". *)
LEMMA ToldClock == Inv /\ Clock => told' = FALSE
<1> SUFFICES ASSUME Inv, Clock, rvalid = 0, rvalid' = 1, araddr = 2, fair, owed
             PROVE  ~(rdata'[0] < 2)
  BY DEF Inv, Clock
<1> USE DEF Inv, Bus!Handshakes, Bus!HandshakeType, Bus!Flag
<1>1. Bus!Clock
  BY BusClock DEF Clock
<1>2. arready = 1 /\ arvalid = 1 /\ rdata' = STATE_REG
  BY <1>1 DEF Bus!Clock, Bus!AxiEdge, Bus!RValid, Bus!RData, Bus!slv_reg_rden, Bus!reg_data_out
<1>3. busy = 1
  BY <1>2 DEF FairInv, OwedInv, SerialType
<1>4. STATE_REG[0] = 2 * busy + done
  BY DEF STATE_REG, Reg
<1>5. QED
  BY <1>2, <1>3, <1>4 DEF SerialType

-----------------------------------------------------------------------------
(* The invariant holds when the peripheral is reset ... *)
LEMMA InvInit == Init => Inv
  BY HandshakesInit, WidthAssumption
  DEF Init, PeripheralInit, MasterInit, Inv, SerialType, EdgesInv, OwedInv, FairInv

(* ... and every step keeps it. *)
LEMMA InvNext == Inv /\ [Next]_vars => Inv'
<1> SUFFICES ASSUME Inv, [Next]_vars PROVE Inv'
  OBVIOUS
<1>1. Bus!Handshakes'
  BY HandshakesNext DEF Inv
<1>2. CASE Clock
  BY <1>1, <1>2, SerialClock, OwedClock, FairClock, ToldClock DEF Inv
<1>3. CASE Reset
  <2>1. /\ MasterReset(0) /\ arvalid' = 0 /\ ~owed' /\ edges' = 0 /\ told' = told
    BY <1>3 DEF Reset, B!Reset
  <2>2. QED
    BY <1>1, <2>1, WidthAssumption
    DEF MasterReset, Inv, SerialType, EdgesInv, OwedInv, FairInv
<1>4. CASE UNCHANGED <<masterVars, axiVars, owed, told, edges, sent, torn>>
  <2>1. SerialType' /\ EdgesInv' /\ OwedInv' /\ told' = FALSE
    BY <1>4 DEF Inv, SerialType, EdgesInv, OwedInv, masterVars, axiVars, start
  <2>2. FairInv'
    <3>1. CASE UNCHANGED <<fair, arvalid>>
      BY <1>4, <3>1 DEF Inv, FairInv, axiVars
    <3>2. ASSUME NEW a \in ReadAddrs, AskRead(a) PROVE FairInv'
      BY <1>4, <3>2 DEF AskRead, Inv, FairInv, axiVars, Bus!Handshakes, Bus!HandshakeType,
                        Bus!WriteInv, Bus!Flag
    <3>3. QED
      BY <1>2, <1>3, <1>4, <3>1, <3>2
      DEF Inv, Next, AskWrite, B!AskWrite, BusStep, B!PresentAddress, B!PresentData,
          B!OfferBReady, B!OfferRReady, vars, busVars, histVars
  <2>3. QED
    BY <1>1, <2>1, <2>2 DEF Inv
<1>5. QED
  BY <1>2, <1>3, <1>4
  DEF Next, AskWrite, B!AskWrite, AskRead, B!AskRead, BusStep, B!PresentAddress,
      B!PresentData, B!OfferBReady, B!OfferRReady, B!axiVars, axiVars, vars, histVars

(* The invariant holds throughout. *)
LEMMA InvAlways == Spec => []Inv
  BY InvInit, InvNext, PTL DEF Spec

(* A status read asked after the answer to the write of a start level does  *)
(* not say "not busy" before the frame of that start has ended, whatever    *)
(* else is on the two channels.                                             *)
THEOREM PollCorrect == Spec => []PollTellsTheTruth
<1>1. Inv => PollTellsTheTruth
  BY DEF Inv, PollTellsTheTruth
<1>2. QED
  BY <1>1, InvAlways, PTL

(* An answer stands until it is taken, with a second read accepted behind   *)
(* it or not: the slave serves no read while an answer waits.               *)
THEOREM AnswerCorrect == Spec => AnswerStands
<1>1. ASSUME Inv, [Next]_vars, rvalid = 1, rready = 0, ~Reset
      PROVE  rvalid' = 1 /\ UNCHANGED rdata
  <2>1. CASE Clock
    <3>1. Bus!AxiEdge([valid |-> Bus!Valid(aw), addr |-> wop.addr],
                      [valid |-> Bus!Valid(w), data |-> wop.data, strb |-> wop.strb], bready,
                      [valid |-> arvalid, addr |-> araddr_in], rready, STATE_REG, RX_REG)
      BY <2>1, BusClock DEF Clock, Bus!Clock
    <3>2. QED
      BY <1>1, <3>1 DEF Bus!AxiEdge, Bus!RValid, Bus!RData, Bus!slv_reg_rden
  <2>2. CASE UNCHANGED axiVars
    BY <1>1, <2>2 DEF axiVars
  <2>3. QED
    BY <1>1, <2>1, <2>2
    DEF Next, AskWrite, B!AskWrite, AskRead, B!AskRead, BusStep, B!PresentAddress,
        B!PresentData, B!OfferBReady, B!OfferRReady, B!axiVars, axiVars, vars
<1>2. Inv /\ [Next]_vars
        => [rvalid = 1 /\ rready = 0 /\ ~Reset => rvalid' = 1 /\ UNCHANGED rdata]_vars
  BY <1>1
<1>3. QED
  BY <1>2, InvAlways, PTL DEF Spec, AnswerStands

-----------------------------------------------------------------------------
(* The ranges of the registers, at the width of the source.                 *)
RangeInv ==
    /\ Inv /\ MasterTypeOK /\ rdata \in Axi!RegWord
    /\ owed \in BOOLEAN /\ fair \in BOOLEAN /\ told \in BOOLEAN /\ edges \in 0..2*W
    /\ sent \in Word /\ torn \in BOOLEAN

(* The word to send, and the two registers that read as the master's state. *)
LEMMA PortTypes ==
    ASSUME W = 8, MasterTypeOK, Bus!HandshakeType
    PROVE  /\ tx_data \in Word
           /\ STATE_REG \in Axi!RegWord /\ RX_REG \in Axi!RegWord
<1>0. ByteValues = 0..255
  BY Powers DEF ByteValues
<1>1. tx_data \in Word
  <2>1. slv_reg[1] \in [0..3 -> ByteValues]
    BY DEF Bus!HandshakeType, Bus!Regs, Bus!RegWord
  <2>2. slv_reg[1][0] \in Nat
    BY <2>1, <1>0
  <2>3. QED
    BY <2>2, BitsOfWord DEF tx_data
<1>2. ASSUME NEW b \in ByteValues PROVE Reg(b, 0, 0, 0) \in Axi!RegWord
  <2>1. \A lane \in 0..3 : <<b, 0, 0, 0>>[lane + 1] \in ByteValues
    BY <1>0, <1>2
  <2>2. QED
    BY <2>1 DEF Reg, Axi!RegWord
<1>3. 2 * busy + done \in ByteValues /\ NumberOf(rx_data) \in ByteValues
  BY <1>0, NumberOfByte DEF MasterTypeOK
<1>4. QED
  BY <1>1, <1>2, <1>3 DEF STATE_REG, RX_REG

(* A clock edge keeps the ranges that the handshakes do not speak of. *)
LEMMA RangeClock ==
    ASSUME W = 8, RangeInv, Clock
    PROVE  /\ MasterTypeOK' /\ rdata' \in Axi!RegWord
           /\ owed' \in BOOLEAN /\ fair' \in BOOLEAN /\ told' \in BOOLEAN
           /\ edges' \in 0..2*W /\ sent' \in Word /\ torn' \in BOOLEAN
<1> USE DEF RangeInv
<1>0. Bus!HandshakeType /\ SerialType /\ EdgesInv
  BY DEF Inv, Bus!Handshakes
<1>1. MasterTypeOK'
  <2>1. cpol \in Bit /\ tx_data \in Word /\ mosi \in Bit
    BY <1>0, WireTypes, PortTypes DEF MasterTypeOK
  <2>2. MasterEdge(cpol, cpha, clk_div, tx_data, start, mosi)
    BY DEF Clock
  <2>3. QED
    BY <2>1, <2>2, EdgeType
<1>2. rdata' \in Axi!RegWord
  <2>1. rdata' \in {rdata, STATE_REG, RX_REG, slv_reg[araddr]}
    BY BusClock DEF Clock, Bus!Clock, Bus!AxiEdge, Bus!RData, Bus!reg_data_out
  <2>2. slv_reg[araddr] \in Axi!RegWord
    BY <1>0 DEF Bus!HandshakeType, Bus!Regs, Bus!RegWord, Axi!RegWord
  <2>3. QED
    BY <1>0, <2>1, <2>2, PortTypes
<1>3. owed' \in BOOLEAN /\ fair' \in BOOLEAN /\ torn' \in BOOLEAN
  BY DEF Clock
<1>4. told' \in BOOLEAN
  BY ToldClock
<1>5. edges' \in 0..2*W
  <2>1. state = "DATA" => edges + 1 \in 0..2*W
    BY <1>0 DEF SerialType, EdgesInv
  <2>2. edges' \in {0, edges} \/ (state = "DATA" /\ edges' = edges + 1)
    BY DEF Clock
  <2>3. QED
    BY <2>1, <2>2
<1>6. sent' \in Word
  BY <1>0, PortTypes DEF Clock
<1>7. QED
  BY <1>1, <1>2, <1>3, <1>4, <1>5, <1>6

(* Every step keeps the ranges. *)
LEMMA RangeNext ==
    ASSUME W = 8, RangeInv, [Next]_vars
    PROVE  RangeInv'
<1> USE DEF RangeInv
<1>0. Inv'
  BY InvNext
<1>1. CASE Clock
  BY <1>0, <1>1, RangeClock
<1>2. CASE Reset
  <2>1. MasterTypeOK'
    BY <1>2, ResetType DEF Reset
  <2>2. rdata' \in Axi!RegWord
    BY <1>2, BusParameters DEF Reset, B!Reset, B!AxiReset, B!Cleared, Axi!RegWord
  <2>3. edges' \in 0..2*W
    BY <1>2, WidthAssumption DEF Reset
  <2>4. sent' \in Word
    BY <1>2, ZeroWord DEF Reset
  <2>5. QED
    BY <1>0, <1>2, <2>1, <2>2, <2>3, <2>4, Zenon DEF Reset
<1>3. CASE UNCHANGED <<masterVars, axiVars, owed, told, edges, sent, torn>>
  <2>1. MasterTypeOK'
    BY <1>3 DEF MasterTypeOK, masterVars
  <2>2. rdata' \in Axi!RegWord
    BY <1>3 DEF axiVars
  <2>3. fair' \in BOOLEAN
    BY <1>1, <1>2, <1>3
    DEF Next, AskWrite, AskRead, BusStep, vars, histVars
  <2>4. QED
    BY <1>0, <1>3, <2>1, <2>2, <2>3
<1>4. QED
  BY <1>1, <1>2, <1>3
  DEF Next, AskWrite, B!AskWrite, AskRead, B!AskRead, BusStep, B!PresentAddress,
      B!PresentData, B!OfferBReady, B!OfferRReady, B!axiVars, axiVars, vars, histVars

(* They hold after reset ... *)
LEMMA RangeInit == Init => RangeInv
<1> SUFFICES ASSUME Init PROVE RangeInv
  OBVIOUS
<1>1. MasterTypeOK
  BY ResetType DEF Init, PeripheralInit
<1>2. rdata \in Axi!RegWord
  BY BusParameters DEF Init, PeripheralInit, Axi!AxiInit, Axi!Cleared, Axi!RegWord
<1>3. edges \in 0..2*W /\ sent \in Word
  BY WidthAssumption, ZeroWord DEF Init
<1>4. QED
  BY <1>1, <1>2, <1>3, InvInit, Zenon DEF Init, RangeInv

(* ... and so throughout. *)
LEMMA RangeAlways == ASSUME W = 8 PROVE Spec => []RangeInv
  BY RangeInit, RangeNext, PTL DEF Spec

(* All registers of both halves, and the bus, stay in range at the source's *)
(* width: what is read back over the bus is always made of bytes.           *)
THEOREM TypeCorrect == W = 8 /\ Spec => []TypeOK
<1> SUFFICES ASSUME W = 8 PROVE Spec => []TypeOK
  OBVIOUS
<1>1. RangeInv => TypeOK
  <2> SUFFICES ASSUME RangeInv PROVE TypeOK
    OBVIOUS
  <2>1. Bus!HandshakeType /\ STATE_REG \in Axi!RegWord /\ RX_REG \in Axi!RegWord
    BY PortTypes DEF RangeInv, Inv, Bus!Handshakes
  <2>2. B!TypeOK
    BY <2>1
    DEF RangeInv, B!TypeOK, B!AxiTypeOK, B!Flag, B!Regs, B!RegWord, B!WriteOp, Axi!RegWord,
        Bus!HandshakeType, Bus!Flag, Bus!Regs, Bus!RegWord, Bus!WriteOp
  <2>3. QED
    BY <2>2 DEF RangeInv, TypeOK
<1>2. QED
  BY <1>1, RangeAlways, PTL

-----------------------------------------------------------------------------
(* The word on the line.  As long as CPHA was left alone since the first    *)
(* edge could use it, every bit of the word is where that phase puts it:    *)
(* Driven bits have been on mosi, Sampled bits have come back.              *)
Driven == IF state = "START" THEN 0
          ELSE bit_cnt + (IF cpha = 0 THEN 1 ELSE step)
Sampled == bit_cnt + (IF cpha = 0 THEN step ELSE 0)

Placed ==
    /\ RestOf(tx_shift_reg, sent, Driven)
    /\ Driven > 0 => mosi = sent[Driven]
    /\ FrontOf(rx_shift_reg, sent, Sampled)

WordInv ==
    ~torn => /\ state \in {"START", "DATA"} => Placed
             /\ state \in {"STOP", "IDLE"} => rx_data = sent

(* The next bit is put out: nothing else moves. *)
LEMMA DriveStep ==
    ASSUME MasterTypeOK, sent \in Word, Drive, NEW n \in 0..(W - 1),
           RestOf(tx_shift_reg, sent, n)
    PROVE  /\ RestOf(tx_shift_reg', sent, n + 1) /\ mosi' = sent[n + 1]
           /\ rx_shift_reg' = rx_shift_reg
  BY BitLeaves DEF Drive, MasterTypeOK

(* The bit on the wire comes back. *)
LEMMA SampleStep ==
    ASSUME MasterTypeOK, sent \in Word, Sample(mosi), NEW n \in 0..(W - 1),
           FrontOf(rx_shift_reg, sent, n), mosi = sent[n + 1]
    PROVE  /\ FrontOf(rx_shift_reg', sent, n + 1)
           /\ UNCHANGED <<mosi, tx_shift_reg>>
  BY BitArrives DEF Sample, MasterTypeOK

(* An edge inside the frame, in either phase. *)
LEMMA PlacedClock ==
    ASSUME RangeInv, Placed, cpha \in Bit, cpha' = cpha, sent' = sent,
           state \in {"START", "DATA"}, state' = "DATA",
           Fsm(cpol, cpha, tx_data, start, mosi)
    PROVE  Placed'
<1> USE DEF RangeInv, Inv, SerialType
<1>0. /\ MasterTypeOK /\ bit_cnt \in 0..(W - 1) /\ W \in Nat
      /\ 0 \in 0..(W - 1) /\ 0 + 1 = 1
  BY WidthAssumption
<1>1. CASE StartEdge(cpha)
  <2>1. /\ bit_cnt = 0 /\ step = 0 /\ bit_cnt' = 0 /\ step' = 0 /\ state = "START"
    BY <1>1 DEF StartEdge, EdgesInv
  <2>2. /\ Driven = 0 /\ Sampled = 0 /\ Sampled' = 0
        /\ Driven' = (IF cpha = 0 THEN 1 ELSE 0)
    BY <2>1 DEF Driven, Sampled
  <2>3. CASE cpha = 0
    <3>1. Drive
      BY <1>1, <2>3 DEF StartEdge
    <3>2. RestOf(tx_shift_reg, sent, 0)
      BY <2>2 DEF Placed
    <3>3. /\ RestOf(tx_shift_reg', sent, 1) /\ mosi' = sent[1]
          /\ rx_shift_reg' = rx_shift_reg
      BY <1>0, <3>1, <3>2, DriveStep
    <3>4. QED
      BY <2>2, <2>3, <3>3 DEF Placed
  <2>4. CASE cpha = 1
    BY <1>1, <2>2, <2>4 DEF StartEdge, Placed
  <2>5. QED
    BY <2>3, <2>4
<1>2. CASE WaitEdge
  <2>1. UNCHANGED <<state, bit_cnt, step, tx_shift_reg, rx_shift_reg, mosi>>
    BY <1>2 DEF WaitEdge
  <2>2. Driven' = Driven /\ Sampled' = Sampled
    BY <2>1 DEF Driven, Sampled
  <2>3. QED
    BY <2>1, <2>2 DEF Placed
<1>3. CASE LeadingEdge(cpha, mosi)
  <2>1. state = "DATA" /\ step = 0 /\ step' = 1 /\ bit_cnt' = bit_cnt
    BY <1>3 DEF LeadingEdge
  <2>2. CASE cpha = 0
    <3>1. /\ Sample(mosi) /\ Driven = bit_cnt + 1 /\ Sampled = bit_cnt
          /\ Driven' = bit_cnt + 1 /\ Sampled' = bit_cnt + 1
      BY <1>0, <1>3, <2>1, <2>2 DEF LeadingEdge, Driven, Sampled
    <3>2. QED
      BY <1>0, <3>1, SampleStep DEF Placed
  <2>3. CASE cpha = 1
    <3>1. /\ Drive /\ Driven = bit_cnt /\ Sampled = bit_cnt
          /\ Driven' = bit_cnt + 1 /\ Sampled' = bit_cnt
      BY <1>0, <1>3, <2>1, <2>3 DEF LeadingEdge, Driven, Sampled
    <3>2. QED
      BY <1>0, <3>1, DriveStep DEF Placed
  <2>4. QED
    BY <2>2, <2>3
<1>4. CASE TrailingEdge(cpha, mosi)
  <2>1. /\ state = "DATA" /\ step = 1 /\ step' = 0 /\ bit_cnt' = bit_cnt + 1
        /\ bit_cnt + 1 \in 0..(W - 1)
    BY <1>0, <1>4 DEF TrailingEdge, LastBit
  <2>2. CASE cpha = 0
    <3>1. /\ Drive /\ Driven = bit_cnt + 1 /\ Sampled = bit_cnt + 1
          /\ Driven' = (bit_cnt + 1) + 1 /\ Sampled' = bit_cnt + 1
      BY <1>0, <1>4, <2>1, <2>2 DEF TrailingEdge, Driven, Sampled
    <3>2. QED
      BY <1>0, <2>1, <3>1, DriveStep DEF Placed
  <2>3. CASE cpha = 1
    <3>1. /\ Sample(mosi) /\ Driven = bit_cnt + 1 /\ Sampled = bit_cnt
          /\ Driven' = bit_cnt + 1 /\ Sampled' = bit_cnt + 1
      BY <1>0, <1>4, <2>1, <2>3 DEF TrailingEdge, Driven, Sampled
    <3>2. QED
      BY <1>0, <3>1, SampleStep DEF Placed
  <2>4. QED
    BY <2>2, <2>3
<1>5. QED
  BY <1>1, <1>2, <1>3, <1>4 DEF Fsm, IdleEdge, LastEdge, StopEdge

(* The last edge, in either phase: the whole word is there. *)
LEMMA LastWord ==
    ASSUME RangeInv, Placed, cpha \in Bit, LastEdge(cpha, mosi)
    PROVE  rx_data' = sent
<1> USE DEF RangeInv
<1>1. /\ state = "DATA" /\ step = 1 /\ bit_cnt = W - 1 /\ W \in Nat \ {0}
      /\ W - 1 \in 0..(W - 1) /\ (W - 1) + 1 = W
  BY WidthAssumption DEF LastEdge, LastBit
<1>2. CASE cpha = 0
  <2>1. Sampled = W /\ rx_data' = rx_shift_reg
    BY <1>1, <1>2 DEF Sampled, LastEdge, Received
  <2>2. FrontOf(rx_shift_reg, sent, W)
    BY <2>1 DEF Placed
  <2>3. QED
    BY <2>1, <2>2, WordEnds DEF MasterTypeOK
<1>3. CASE cpha = 1
  <2>1. /\ Driven = W /\ Sampled = W - 1 /\ Sample(mosi)
        /\ rx_data' = ShiftIn(rx_shift_reg, mosi) /\ rx_shift_reg' = rx_data'
    BY <1>1, <1>3 DEF Driven, Sampled, LastEdge, Received, Sample
  <2>2. mosi = sent[(W - 1) + 1] /\ FrontOf(rx_shift_reg, sent, W - 1)
    BY <1>1, <2>1 DEF Placed
  <2>3. FrontOf(rx_data', sent, W)
    BY <1>1, <2>1, <2>2, SampleStep
  <2>4. rx_data' \in Word
    BY <2>1, ShiftInWord DEF MasterTypeOK
  <2>5. QED
    BY <2>3, <2>4, WordEnds
<1>4. QED
  BY <1>2, <1>3

(* Every clock edge; one that changes CPHA inside the frame tears it. *)
LEMMA WordClock == RangeInv /\ WordInv /\ tx_data \in Word /\ Clock => WordInv'
<1> SUFFICES ASSUME RangeInv, WordInv, tx_data \in Word, Clock, ~torn' PROVE WordInv'
  BY DEF WordInv
<1> USE DEF RangeInv, WordInv
<1>1. /\ Fsm(cpol, cpha, tx_data, start, mosi) /\ cpha \in Bit
      /\ sent' = (IF state = "IDLE" /\ start = 1 THEN tx_data ELSE sent)
  BY WireTypes DEF Clock, MasterEdge, Inv, Bus!Handshakes
<1>2. ~(state = "IDLE" /\ start = 1) => ~torn /\ sent' = sent
  BY DEF Clock
<1>3. CASE IdleEdge(cpol, tx_data, start)
  <2>1. CASE start = 0
    <3>1. state' = "IDLE" /\ rx_data' = rx_data
      BY <1>3, <2>1 DEF IdleEdge
    <3>2. QED
      BY <1>2, <1>3, <2>1, <3>1 DEF IdleEdge
  <2>2. CASE start = 1
    <3>1. /\ state' = "START" /\ bit_cnt' = 0 /\ step' = 0 /\ tx_shift_reg' = tx_data
          /\ rx_shift_reg' = rx_shift_reg /\ sent' = tx_data
      BY <1>1, <1>3, <2>2 DEF IdleEdge
    <3>2. Driven' = 0 /\ Sampled' = 0
      BY <3>1 DEF Driven, Sampled
    <3>3. RestOf(tx_data, tx_data, 0) /\ FrontOf(rx_shift_reg, tx_data, 0)
      BY WordEnds DEF MasterTypeOK
    <3>4. QED
      BY <3>1, <3>2, <3>3 DEF Placed
  <2>3. QED
    BY <1>3, <2>1, <2>2 DEF IdleEdge
<1>4. CASE state' = "DATA"
  <2>1. state \in {"START", "DATA"}
    BY <1>1, <1>4 DEF Fsm, IdleEdge, StartEdge, WaitEdge, LeadingEdge, TrailingEdge, LastEdge,
                      StopEdge
  <2>2. cpha' = cpha
    BY <1>4, <2>1 DEF Clock
  <2>3. Placed'
    BY <1>1, <1>2, <1>4, <2>1, <2>2, PlacedClock
  <2>4. QED
    BY <1>4, <2>3
<1>5. CASE LastEdge(cpha, mosi)
  <2>1. state = "DATA" /\ state' = "STOP"
    BY <1>5 DEF LastEdge
  <2>2. QED
    BY <1>1, <1>2, <1>5, <2>1, LastWord
<1>6. CASE StopEdge(cpol)
  BY <1>2, <1>6 DEF StopEdge
<1>7. QED
  BY <1>1, <1>3, <1>4, <1>5, <1>6 DEF Fsm, StartEdge, WaitEdge, LeadingEdge, TrailingEdge

(* Every step: between clock edges the registers do not change. *)
LEMMA WordNext ==
    ASSUME W = 8, RangeInv, WordInv, [Next]_vars
    PROVE  WordInv'
<1>1. CASE Clock
  <2>1. tx_data \in Word
    BY PortTypes DEF RangeInv, Inv, Bus!Handshakes
  <2>2. QED
    BY <1>1, <2>1, WordClock
<1>2. CASE Reset
  BY <1>2 DEF Reset, MasterReset, WordInv
<1>3. CASE UNCHANGED <<masterVars, axiVars, owed, told, edges, sent, torn>>
  BY <1>3 DEF WordInv, Placed, Driven, Sampled, masterVars, axiVars, cpha
<1>4. QED
  BY <1>1, <1>2, <1>3
  DEF Next, AskWrite, B!AskWrite, AskRead, B!AskRead, BusStep, B!PresentAddress,
      B!PresentData, B!OfferBReady, B!OfferRReady, B!axiVars, axiVars, vars, histVars

(* At the width of the source: whatever is written in mid frame, a frame    *)
(* has the edges of W bits, and it returns its word unless CPHA was changed *)
(* under that very frame.                                                   *)
THEOREM FrameCorrect == W = 8 /\ Spec => []DamageContained
<1> SUFFICES ASSUME W = 8 PROVE Spec => []DamageContained
  OBVIOUS
<1>1. Init => WordInv
  BY DEF Init, PeripheralInit, MasterInit, WordInv
<1>2. RangeInv /\ WordInv /\ [Next]_vars => WordInv'
  BY WordNext
<1>3. RangeInv /\ WordInv => DamageContained
  BY DEF RangeInv, Inv, SerialType, EdgesInv, WordInv, DamageContained
<1>4. QED
  BY <1>1, <1>2, <1>3, RangeAlways, PTL DEF Spec

=============================================================================
