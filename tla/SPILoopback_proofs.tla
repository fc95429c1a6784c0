------------------------- MODULE SPILoopback_proofs -------------------------
(***************************************************************************)
(* TLAPS proofs about spi_master by itself: SPILoopback, for every width,  *)
(* divider range DivMax and every set of control words and bytes software  *)
(* may write; and SPITiming, which adds to it how long bits and frames     *)
(* last.                                                                   *)
(***************************************************************************)
EXTENDS SPITiming, SPIMaster_proofs

USE DEF Bit

(* Software writes words and control words; the wires are bits. *)
LEMMA WireTypes ==
    ASSUME TypeOK
    PROVE  cpol \in Bit /\ tx_data \in Word /\ miso \in Bit
  BY DEF TypeOK, MasterTypeOK, miso

(* All registers and wires stay in the range of their declarations. *)
THEOREM TypeCorrect == Spec => []TypeOK
<1>1. Init => TypeOK
  BY DivMaxAssumption, ResetType, ZeroWord DEF Init, TypeOK
<1>2. TypeOK /\ [Next]_vars => TypeOK'
  <2> SUFFICES ASSUME TypeOK, [Next]_vars PROVE TypeOK'
    OBVIOUS
  <2>1. CASE Clock
    <3>1. MasterTypeOK'
      BY <2>1, WireTypes, EdgeType DEF Clock, TypeOK
    <3>2. UNCHANGED regVars /\ sent' \in Word /\ pol' \in Bit
      BY <2>1 DEF Clock, TypeOK
    <3>3. QED
      BY <3>1, <3>2 DEF TypeOK, regVars
  <2>2. ASSUME NEW c \in Controls, WriteControl(c) PROVE TypeOK'
    <3>1. c \in Control
      BY SoftwareAssumption
    <3>2. QED
      BY <2>2, <3>1 DEF WriteControl, Control, TypeOK, MasterTypeOK, masterVars
  <2>3. ASSUME NEW d \in TxWords, WriteTx(d) PROVE TypeOK'
    BY <2>3, SoftwareAssumption DEF WriteTx, TypeOK, MasterTypeOK, masterVars
  <2>4. CASE Reset
    BY <2>4, DivMaxAssumption, ResetType, ZeroWord DEF Reset, TypeOK
  <2>5. CASE UNCHANGED vars
    BY <2>5 DEF vars, masterVars, regVars, TypeOK, MasterTypeOK
  <2>6. QED
    BY <2>1, <2>2, <2>3, <2>4, <2>5 DEF Next
<1>3. QED
  BY <1>1, <1>2, PTL DEF Spec

-----------------------------------------------------------------------------
(* The frame.  Inv is inductive: FrameInv names the place of every bit of   *)
(* the word while it travels, and FrameClocking the level of sclk.          *)

Inv == TypeOK /\ FrameInv /\ FrameClocking

(* One more bit driven: the rest of the word moves up, its first bit is on  *)
(* the wire.                                                                *)
LEMMA DriveStep ==
    ASSUME NEW n \in 0..(W - 1), TypeOK, Drive,
           \A i \in 1..W : i > n => tx_shift_reg[i - n] = sent[i]
    PROVE  /\ \A i \in 1..W : i > n + 1 => tx_shift_reg'[i - (n + 1)] = sent[i]
           /\ mosi' = sent[n + 1]
<1>1. RestOf(tx_shift_reg, sent, n)
  BY DEF RestOf
<1>2. Msb(tx_shift_reg) = sent[n + 1] /\ RestOf(ShiftIn(tx_shift_reg, 0), sent, n + 1)
  BY <1>1, BitLeaves DEF TypeOK, MasterTypeOK
<1>3. QED
  BY <1>2 DEF Drive, RestOf

(* One more bit sampled: the bit on the wire joins those received. *)
LEMMA SampleStep ==
    ASSUME NEW n \in 0..(W - 1), TypeOK, Sample(miso), mosi = sent[n + 1],
           \A i \in 1..W : i <= n => rx_shift_reg[W - n + i] = sent[i]
    PROVE  \A i \in 1..W : i <= n + 1 => rx_shift_reg'[W - (n + 1) + i] = sent[i]
<1>1. FrontOf(rx_shift_reg, sent, n)
  BY DEF FrontOf
<1>2. FrontOf(ShiftIn(rx_shift_reg, sent[n + 1]), sent, n + 1)
  BY <1>1, BitArrives DEF TypeOK, MasterTypeOK
<1>3. QED
  BY <1>2 DEF Sample, FrontOf, miso

(* A word of which all W bits came back is the word. *)
LEMMA WholeWord ==
    ASSUME NEW r \in Word, NEW s \in Word,
           \A i \in 1..W : i <= W => r[W - W + i] = s[i]
    PROVE  r = s
<1>1. FrontOf(r, s, W)
  BY DEF FrontOf
<1>2. QED
  BY <1>1, WordEnds

(* Reset leaves no frame and no pulse counted. *)
LEMMA InitInv == Init => FrameInv /\ FrameClocking
  BY DEF Init, MasterInit, FrameInv, FrameClocking, Zero

(* Clock edges, one lemma per branch of the master: each preserves what the  *)
(* frame invariant says of the state it leads to.                           *)
LEMMA IdleInv ==
    ASSUME Inv, IdleEdge(cpol, tx_data, start), UNCHANGED regVars,
           IF state = "IDLE" /\ start = 1
           THEN sent' = tx_data /\ pol' = cpol
           ELSE UNCHANGED <<sent, pol>>
    PROVE  FrameInv' /\ FrameClocking'
<1> USE DEF IdleEdge, IdleOutputs, Inv, FrameInv, FrameClocking, TypeOK, MasterTypeOK
<1>1. CASE start = 0
  <2>1. state' = "IDLE" /\ done' = 0 /\ UNCHANGED <<busy, rx_data, sent>>
    BY <1>1
  <2>2. QED
    BY <2>1
<1>2. CASE start = 1
  <2>1. /\ state' = "START" /\ done' = 0 /\ busy' = 1 /\ bit_cnt' = 0 /\ step' = 0
        /\ sent' = tx_data /\ tx_shift_reg' = tx_data
        /\ sclk_r' = pol' /\ cpha' = cpha
    BY <1>2 DEF regVars
  <2>2. Driven' = 0 /\ Sampled' = 0
    BY <2>1 DEF Driven, Sampled
  <2>3. \A i \in 1..W : i - 0 = i /\ ~(i <= 0)
    BY WidthAssumption
  <2>4. QED
    BY <2>1, <2>2, <2>3
<1>3. QED
  BY <1>1, <1>2

(* A start takes the word into the shifter and opens a frame. *)
LEMMA StartInv ==
    ASSUME Inv, StartEdge(cpha), UNCHANGED <<regVars, sent, pol>>
    PROVE  FrameInv' /\ FrameClocking'
<1> USE DEF StartEdge, Inv, FrameInv, FrameClocking, TypeOK, MasterTypeOK
<1>1. /\ state' = "DATA" /\ done' = 0 /\ busy' = 1 /\ bit_cnt' = 0 /\ step' = 0
      /\ sclk_r' = sclk_r /\ UNCHANGED <<cpha, sent, pol, rx_shift_reg>>
  BY DEF regVars, Drive
<1>2. Driven = 0 /\ Sampled' = 0 /\ Driven' = (IF cpha = 0 THEN 1 ELSE 0)
  BY <1>1 DEF Driven, Sampled
<1>3. FrameClocking'
  BY <1>1
<1>4. \A i \in 1..W : i <= Sampled' => rx_shift_reg'[W - Sampled' + i] = sent'[i]
  BY <1>2, WidthAssumption
<1>5. CASE cpha = 0
  <2>1. Drive
    BY <1>5
  <2>2. 0 \in 0..(W - 1) /\ 0 + 1 = 1
    BY WidthAssumption
  <2>3. /\ \A i \in 1..W : i > 1 => tx_shift_reg'[i - 1] = sent[i]
        /\ mosi' = sent[1]
    BY <1>2, <2>1, <2>2, DriveStep
  <2>4. QED
    BY <1>1, <1>2, <1>3, <1>4, <1>5, <2>3
<1>6. CASE cpha = 1
  BY <1>1, <1>2, <1>3, <1>4, <1>6
<1>7. QED
  BY <1>5, <1>6

(* The half bits that only count the prescaler disturb nothing. *)
LEMMA WaitInv ==
    ASSUME Inv, WaitEdge, UNCHANGED <<regVars, sent, pol>>
    PROVE  FrameInv' /\ FrameClocking'
<1>1. done' = 0 /\ UNCHANGED <<state, tx_shift_reg, rx_shift_reg, bit_cnt, step,
        sclk_r, rx_data, busy, mosi, cpha, sent, pol>>
  BY DEF WaitEdge, regVars
<1>2. Driven' = Driven /\ Sampled' = Sampled
  BY <1>1 DEF Driven, Sampled
<1>3. QED
  BY <1>1, <1>2 DEF Inv, FrameInv, FrameClocking, LastBit

(* The end of the first half of a bit. *)
LEMMA LeadingInv ==
    ASSUME Inv, LeadingEdge(cpha, miso), UNCHANGED <<regVars, sent, pol>>
    PROVE  FrameInv' /\ FrameClocking'
<1> USE DEF LeadingEdge, Inv, FrameInv, FrameClocking, TypeOK, MasterTypeOK
<1>1. /\ state = "DATA" /\ state' = "DATA" /\ done' = 0 /\ step = 0 /\ step' = 1
      /\ sclk_r' = 1 - sclk_r
      /\ UNCHANGED <<bit_cnt, rx_data, busy, cpha, sent, pol>>
  BY DEF regVars
<1>2. FrameClocking'
  BY <1>1
<1>3. bit_cnt \in 0..(W - 1)
  OBVIOUS
<1>4. CASE cpha = 0
  <2>1. Sample(miso) /\ Driven = bit_cnt + 1 /\ Sampled = bit_cnt
        /\ Driven' = bit_cnt + 1 /\ Sampled' = bit_cnt + 1
    BY <1>1, <1>4 DEF Driven, Sampled
  <2>2. mosi = sent[bit_cnt + 1]
    BY <1>1, <1>3, <2>1
  <2>3. \A i \in 1..W : i <= bit_cnt + 1
            => rx_shift_reg'[W - (bit_cnt + 1) + i] = sent[i]
    BY <1>1, <1>3, <2>1, <2>2, SampleStep
  <2>4. UNCHANGED <<mosi, tx_shift_reg>>
    BY <2>1 DEF Sample
  <2>5. QED
    BY <1>1, <1>2, <2>1, <2>3, <2>4
<1>5. CASE cpha = 1
  <2>1. Drive /\ Driven = bit_cnt /\ Sampled = bit_cnt
        /\ Driven' = bit_cnt + 1 /\ Sampled' = bit_cnt
    BY <1>1, <1>5 DEF Driven, Sampled
  <2>2. /\ \A i \in 1..W : i > bit_cnt + 1
              => tx_shift_reg'[i - (bit_cnt + 1)] = sent[i]
        /\ mosi' = sent[bit_cnt + 1]
    BY <1>1, <1>3, <2>1, DriveStep
  <2>3. UNCHANGED rx_shift_reg
    BY <2>1 DEF Drive
  <2>4. QED
    BY <1>1, <1>2, <2>1, <2>2, <2>3
<1>6. QED
  BY <1>4, <1>5

(* The end of the second half of a bit that is not the last. *)
LEMMA TrailingInv ==
    ASSUME Inv, TrailingEdge(cpha, miso), UNCHANGED <<regVars, sent, pol>>
    PROVE  FrameInv' /\ FrameClocking'
<1> USE DEF TrailingEdge, Inv, FrameInv, FrameClocking, TypeOK, MasterTypeOK
<1>1. /\ state = "DATA" /\ state' = "DATA" /\ done' = 0 /\ step = 1 /\ step' = 0
      /\ sclk_r' = 1 - sclk_r /\ bit_cnt' = bit_cnt + 1
      /\ UNCHANGED <<rx_data, busy, cpha, sent, pol>>
  BY DEF regVars
<1>2. FrameClocking'
  BY <1>1
<1>3. bit_cnt \in 0..(W - 1) /\ bit_cnt + 1 \in 0..(W - 1)
  BY WidthAssumption DEF LastBit
<1>4. CASE cpha = 0
  <2>1. Drive /\ Driven = bit_cnt + 1 /\ Sampled = bit_cnt + 1
        /\ Driven' = (bit_cnt + 1) + 1 /\ Sampled' = bit_cnt + 1
    BY <1>1, <1>4 DEF Driven, Sampled
  <2>2. /\ \A i \in 1..W : i > (bit_cnt + 1) + 1
              => tx_shift_reg'[i - ((bit_cnt + 1) + 1)] = sent[i]
        /\ mosi' = sent[(bit_cnt + 1) + 1]
    BY <1>1, <1>3, <2>1, DriveStep
  <2>3. UNCHANGED rx_shift_reg
    BY <2>1 DEF Drive
  <2>4. QED
    BY <1>1, <1>2, <2>1, <2>2, <2>3
<1>5. CASE cpha = 1
  <2>1. Sample(miso) /\ Driven = bit_cnt + 1 /\ Sampled = bit_cnt
        /\ Driven' = bit_cnt + 1 /\ Sampled' = bit_cnt + 1
    BY <1>1, <1>5 DEF Driven, Sampled
  <2>2. mosi = sent[bit_cnt + 1]
    BY <1>1, <1>3, <2>1
  <2>3. \A i \in 1..W : i <= bit_cnt + 1
            => rx_shift_reg'[W - (bit_cnt + 1) + i] = sent[i]
    BY <1>1, <1>3, <2>1, <2>2, SampleStep
  <2>4. UNCHANGED <<mosi, tx_shift_reg>>
    BY <2>1 DEF Sample
  <2>5. QED
    BY <1>1, <1>2, <2>1, <2>3, <2>4
<1>6. QED
  BY <1>4, <1>5

(* The last half bit completes the word, whichever edge samples. *)
LEMMA LastWord ==
    ASSUME Inv, LastEdge(cpha, miso)
    PROVE  rx_data' = sent
<1> USE DEF LastEdge, Received, Inv, FrameInv, FrameClocking, TypeOK, MasterTypeOK, LastBit
<1>1. state = "DATA" /\ step = 1 /\ bit_cnt = W - 1
  OBVIOUS
<1>2. CASE cpha = 0
  <2>1. Sampled = W /\ rx_data' = rx_shift_reg
    BY <1>1, <1>2, WidthAssumption DEF Sampled
  <2>2. \A i \in 1..W : i <= W => rx_shift_reg[W - W + i] = sent[i]
    BY <1>1, <2>1
  <2>3. QED
    BY <2>1, <2>2, WholeWord
<1>3. CASE cpha = 1
  <2>1. /\ Sample(miso) /\ rx_data' = rx_shift_reg'
        /\ Driven = W /\ Sampled = W - 1
    BY <1>1, <1>3, WidthAssumption DEF Driven, Sampled, Sample
  <2>2. W - 1 \in 0..(W - 1) /\ (W - 1) + 1 = W /\ W > 0
    BY WidthAssumption
  <2>3. mosi = sent[(W - 1) + 1]
    BY <1>1, <2>1, <2>2
  <2>4. \A i \in 1..W : i <= W - 1 => rx_shift_reg[W - (W - 1) + i] = sent[i]
    BY <1>1, <2>1
  <2>5. \A i \in 1..W : i <= W => rx_shift_reg'[W - W + i] = sent[i]
    BY <2>1, <2>2, <2>3, <2>4, SampleStep
  <2>6. rx_shift_reg' \in Word
    BY <2>1, ShiftInWord DEF Sample, miso
  <2>7. QED
    BY <2>1, <2>5, <2>6, WholeWord
<1>4. QED
  BY <1>2, <1>3

(* The end of the last bit closes the frame with all W bits back. *)
LEMMA LastInv ==
    ASSUME Inv, LastEdge(cpha, miso), UNCHANGED <<regVars, sent, pol>>
    PROVE  FrameInv' /\ FrameClocking'
<1>1. rx_data' = sent'
  BY LastWord
<1>2. state' = "STOP" /\ done' = 0 /\ busy' = 1 /\ step' = 0 /\ LastBit'
  BY DEF LastEdge, LastBit, Inv, FrameInv
<1>3. sclk_r' = pol'
  BY DEF LastEdge, Inv, FrameClocking, TypeOK, MasterTypeOK
<1>4. QED
  BY <1>1, <1>2, <1>3 DEF FrameInv, FrameClocking

(* The step back to idle. *)
LEMMA StopInv ==
    ASSUME Inv, StopEdge(cpol), UNCHANGED <<regVars, sent, pol>>
    PROVE  FrameInv' /\ FrameClocking'
BY DEF StopEdge, StopOutputs, Inv, FrameInv, FrameClocking

(* Every clock edge. *)
LEMMA ClockInv == Inv /\ Clock => FrameInv' /\ FrameClocking'
<1> SUFFICES ASSUME Inv, Clock PROVE FrameInv' /\ FrameClocking'
  OBVIOUS
<1>1. UNCHANGED regVars
  BY DEF Clock
<1>2. CASE IdleEdge(cpol, tx_data, start)
  BY <1>1, <1>2, IdleInv DEF Clock
<1>3. CASE state # "IDLE"
  <2>1. UNCHANGED <<sent, pol>>
    BY <1>3 DEF Clock
  <2>2. \/ StartEdge(cpha) \/ WaitEdge \/ LeadingEdge(cpha, miso)
        \/ TrailingEdge(cpha, miso) \/ LastEdge(cpha, miso) \/ StopEdge(cpol)
    BY <1>3 DEF Clock, MasterEdge, Fsm, IdleEdge
  <2>3. QED
    BY <1>1, <2>1, <2>2, StartInv, WaitInv, LeadingInv, TrailingInv, LastInv,
       StopInv
<1>4. QED
  BY <1>2, <1>3 DEF Clock, MasterEdge, Fsm, StartEdge, WaitEdge, LeadingEdge,
     TrailingEdge, LastEdge, StopEdge

(* Register writes between clock edges: only CPHA could disturb the frame.  *)
LEMMA WriteInv ==
    ASSUME Inv, UNCHANGED <<masterVars, sent, pol>>, busy = 1 => cpha' = cpha
    PROVE  FrameInv' /\ FrameClocking'
<1>1. UNCHANGED <<state, tx_shift_reg, rx_shift_reg, bit_cnt, step, sclk_r,
                  rx_data, busy, done, mosi, sent, pol>>
  BY DEF masterVars
<1>2. state # "IDLE" => Driven' = Driven /\ Sampled' = Sampled
  BY <1>1 DEF Driven, Sampled, Inv, FrameInv
<1>3. QED
  BY <1>1, <1>2 DEF Inv, FrameInv, FrameClocking, LastBit

(* Clock edges, register writes and stuttering all keep the invariant. *)
LEMMA InvInductive == Inv /\ TypeOK' /\ [Next]_vars => Inv'
<1> SUFFICES ASSUME Inv, TypeOK', [Next]_vars PROVE FrameInv' /\ FrameClocking'
  BY DEF Inv
<1>1. CASE Clock
  BY <1>1, ClockInv
<1>2. ASSUME NEW c \in Controls, WriteControl(c)
      PROVE  FrameInv' /\ FrameClocking'
  BY <1>2, WriteInv DEF WriteControl
<1>3. ASSUME NEW d \in TxWords, WriteTx(d) PROVE FrameInv' /\ FrameClocking'
  BY <1>3, WriteInv DEF WriteTx
<1>4. CASE Reset
  BY <1>4 DEF Reset, MasterReset, FrameInv, FrameClocking
<1>5. CASE UNCHANGED vars
  BY <1>5, WriteInv DEF vars, regVars
<1>6. QED
  BY <1>1, <1>2, <1>3, <1>4, <1>5 DEF Next

(* The inductive invariant holds in every reachable state. *)
LEMMA InvAlways == Spec => []Inv
<1>1. Init /\ TypeOK => Inv
  BY InitInv DEF Inv
<1>2. QED
  BY <1>1, InvInductive, TypeCorrect, PTL DEF Spec

(* A busy read as 0 means the whole word came back. *)
THEOREM EchoCorrect == Spec => []EchoIntegrity
<1>1. Inv => EchoIntegrity
  BY DEF Inv, FrameInv, EchoIntegrity, TypeOK, MasterTypeOK
<1>2. QED
  BY <1>1, InvAlways, PTL

(* In the middle of a frame every bit of the word is where it should be, in *)
(* both clock phases, and busy is up exactly then.                          *)
THEOREM FrameCorrect == Spec => []FrameInv
<1>1. Inv => FrameInv
  BY DEF Inv
<1>2. QED
  BY <1>1, InvAlways, PTL

(* Every frame has W whole sclk pulses around the level it started from. *)
THEOREM ClockingCorrect == Spec => []FrameClocking
<1>1. Inv => FrameClocking
  BY DEF Inv
<1>2. QED
  BY <1>1, InvAlways, PTL

-----------------------------------------------------------------------------
(* The clocked master implements the word-level transfer.                   *)

(* A clock edge is one of the steps of the transfer, or none: idle clocks   *)
(* rest or accept, the last half bit delivers, STOP finishes, the others    *)
(* change nothing that the transfer speaks of.                              *)
LEMMA ClockRefines == Inv /\ Clock => Transfer!Next
<1> SUFFICES ASSUME Inv, Clock PROVE Transfer!Next
  OBVIOUS
<1> USE DEF Phase, Inv, FrameInv, TypeOK, MasterTypeOK
<1>1. UNCHANGED regVars /\ Transfer!Inputs
  BY DEF Clock, regVars, Transfer!Inputs
<1>2. CASE IdleEdge(cpol, tx_data, start)
  <2>1. CASE start = 0
    BY <1>1, <1>2, <2>1 DEF Clock, IdleEdge, IdleOutputs, Transfer!Rest, Transfer!Next
  <2>2. CASE start = 1
    BY <1>1, <1>2, <2>2 DEF Clock, IdleEdge, IdleOutputs, Transfer!Accept, Transfer!Next
  <2>3. QED
    BY <2>1, <2>2
<1>3. CASE state # "IDLE"
  <2>1. UNCHANGED sent /\ done = 0
    BY <1>3 DEF Clock
  <2>2. CASE LastEdge(cpha, miso)
    <3>1. rx_data' = sent
      BY <2>2, LastWord
    <3>2. QED
      BY <1>1, <2>1, <2>2, <3>1 DEF LastEdge, Transfer!Deliver, Transfer!Next
  <2>3. CASE StopEdge(cpol)
    BY <1>1, <2>1, <2>3 DEF StopEdge, StopOutputs, Transfer!Finish, Transfer!Next
  <2>4. CASE StartEdge(cpha) \/ WaitEdge \/ LeadingEdge(cpha, miso)
             \/ TrailingEdge(cpha, miso)
    <3>1. Phase[state'] = Phase[state] /\ done' = 0 /\ UNCHANGED rx_data
      BY <2>4 DEF StartEdge, WaitEdge, LeadingEdge, TrailingEdge
    <3>2. QED
      BY <1>1, <2>1, <3>1 DEF Transfer!Command, Transfer!Next
  <2>5. QED
    BY <1>3, <2>2, <2>3, <2>4 DEF Clock, MasterEdge, Fsm, IdleEdge
<1>4. QED
  BY <1>2, <1>3 DEF Clock, MasterEdge, Fsm, StartEdge, WaitEdge, LeadingEdge,
     TrailingEdge, LastEdge, StopEdge

(* Every behaviour of the clocked master is one of the word-level transfer. *)
THEOREM TransferCorrect == Spec => TransferSpec
<1>1. Init => Transfer!Init
  BY ZeroWord DEF Init, MasterInit, Phase, Transfer!Init
<1>2. Inv /\ TypeOK' /\ [Next]_vars => [Transfer!Next]_(Transfer!vars)
  <2> SUFFICES ASSUME Inv, TypeOK', [Next]_vars
               PROVE  Transfer!Next \/ UNCHANGED Transfer!vars
    OBVIOUS
  <2>1. CASE Clock
    BY <2>1, ClockRefines
  <2>2. Transfer!Inputs
    BY DEF TypeOK, Transfer!Inputs
  <2>3. ASSUME NEW c \in Controls, WriteControl(c) PROVE Transfer!Next
    BY <2>2, <2>3 DEF WriteControl, masterVars, Transfer!Command, Transfer!Next
  <2>4. ASSUME NEW d \in TxWords, WriteTx(d) PROVE Transfer!Next
    BY <2>2, <2>4 DEF WriteTx, masterVars, Transfer!Command, Transfer!Next
  <2>5. CASE Reset
    BY <2>2, <2>5 DEF Reset, MasterReset, Phase, TypeOK, Transfer!Reset, Transfer!Next
  <2>6. CASE UNCHANGED vars
    BY <2>6 DEF vars, masterVars, regVars, Transfer!vars
  <2>7. QED
    BY <2>1, <2>3, <2>4, <2>5, <2>6 DEF Next
<1>3. QED
  BY <1>1, <1>2, InvAlways, TypeCorrect, PTL DEF Spec, TransferSpec, Transfer!Spec

-----------------------------------------------------------------------------
(* How long bits and frames last.                                           *)

(* Counting clocks changes nothing: the timed master is a master in loopback. *)
LEMMA TimedIsLoopback == TimingSpec => Spec
<1>1. TimingInit => Init
  BY DEF TimingInit
<1>2. [TimingNext]_timedVars => [Next]_vars
  BY DEF TimingNext, TimedClock, TimedControl, TimedReset, timedVars, Next
<1>3. QED
  BY <1>1, <1>2, PTL DEF TimingSpec, Spec

(* What software does to the timed master. *)
SoftwareStep ==
    /\ UNCHANGED <<masterVars, history>>
    /\ clk_div' # clk_div => busy = 0 /\ (Reprogram \/ ~used)

LEMMA TimedSteps ==
    ASSUME [TimingNext]_timedVars
    PROVE  TimedClock \/ SoftwareStep \/ TimedReset
<1>1. ASSUME NEW c \in Controls, TimedControl(c) PROVE SoftwareStep
  BY <1>1 DEF TimedControl, WriteControl, SoftwareStep
<1>2. ASSUME NEW d \in TxWords, WriteTx(d) /\ UNCHANGED history PROVE SoftwareStep
  BY <1>2 DEF WriteTx, SoftwareStep
<1>3. CASE UNCHANGED timedVars
  BY <1>3 DEF timedVars, vars, regVars, SoftwareStep
<1>4. QED
  BY <1>1, <1>2, <1>3 DEF TimingNext

(* The registers stay in range and the history variables count. *)
THEOREM TimingTypeCorrect == TimingSpec => []TimingTypeOK
<1>1. TimingInit => used \in BOOLEAN /\ gap \in Nat /\ age \in Nat
  <2>1. TimingInit => gap \in Nat /\ age \in Nat
    BY DEF TimingInit
  <2>2. used = FALSE => used \in BOOLEAN
    OBVIOUS
  <2>3. QED
    BY <2>1, <2>2 DEF TimingInit
<1>2. ASSUME used \in BOOLEAN, gap \in Nat, age \in Nat, [TimingNext]_timedVars
      PROVE  used' \in BOOLEAN /\ gap' \in Nat /\ age' \in Nat
  <2>1. CASE TimedClock
    <3>1. used' \in BOOLEAN
      BY <2>1 DEF TimedClock, Measure
    <3>2. gap' \in Nat /\ age' \in Nat
      BY <1>2, <2>1 DEF TimedClock, Measure
    <3>3. QED
      BY <3>1, <3>2
  <2>2. CASE SoftwareStep
    BY <1>2, <2>2 DEF SoftwareStep, history
  <2>3. CASE TimedReset
    <3>1. gap' \in Nat /\ age' \in Nat
      BY <2>3 DEF TimedReset
    <3>2. used' = FALSE => used' \in BOOLEAN
      OBVIOUS
    <3>3. QED
      BY <2>3, <3>1, <3>2 DEF TimedReset
  <2>4. QED
    BY <1>2, <2>1, <2>2, <2>3, TimedSteps
<1> DEFINE Counts == used \in BOOLEAN /\ gap \in Nat /\ age \in Nat
<1>3. TimingInit => Counts
  BY <1>1
<1>4. Counts /\ [TimingNext]_timedVars => Counts'
  BY <1>2
<1>5. TypeOK /\ Counts => TimingTypeOK
  BY DEF TimingTypeOK
<1> HIDE DEF Counts
<1>6. QED
  BY <1>3, <1>4, <1>5, TimedIsLoopback, TypeCorrect, PTL DEF TimingSpec

-----------------------------------------------------------------------------
(* The half periods.  HalfInv relates the divider's counter to the cycles  *)
(* since sclk last moved, once it has moved in this frame.                 *)

FrameStates ==
    /\ busy = 0 <=> state = "IDLE"
    /\ state = "START" => bit_cnt = 0 /\ step = 0
    /\ half_tick = 1 => div_cnt = 0

FirstHalf == state = "DATA" /\ bit_cnt = 0 /\ step = 0
LaterHalf == state = "DATA" /\ (bit_cnt > 0 \/ step = 1)

HalfInv ==
    LaterHalf => IF half_tick = 1 THEN gap = clk_div
                 ELSE div_cnt = gap + 1 /\ div_cnt <= clk_div

TimingInv == TimingTypeOK /\ FrameStates /\ HalfInv

(* The counter counts up to the divider without wrapping. *)
LEMMA DividerCounts ==
    ASSUME TimingTypeOK, state = "DATA", div_cnt <= clk_div, Divider(clk_div)
    PROVE  IF div_cnt = clk_div THEN div_cnt' = 0 /\ half_tick' = 1
           ELSE div_cnt' = div_cnt + 1 /\ half_tick' = 0
  BY DividerSteps DEF TimingTypeOK, TypeOK

(* What a clock edge does to the position in the frame. *)
LEMMA Moves ==
    ASSUME TimingTypeOK, FrameStates, TimedClock
    PROVE  /\ state = "IDLE" =>
                 \/ state' = "IDLE" /\ busy' = 0
                 \/ state' = "START" /\ busy' = 1 /\ bit_cnt' = 0 /\ step' = 0 /\ start = 1
           /\ state = "START" =>
                 state' = "DATA" /\ busy' = 1 /\ bit_cnt' = 0 /\ step' = 0
           /\ state = "STOP" => state' = "IDLE" /\ busy' = 0
           /\ state = "DATA" /\ half_tick = 0 =>
                 /\ state' = "DATA" /\ busy' = 1 /\ sclk_r' = sclk_r
                 /\ bit_cnt' = bit_cnt /\ step' = step
           /\ state = "DATA" /\ half_tick = 1 =>
                 /\ busy' = 1 /\ sclk_r' = 1 - sclk_r /\ step' = 1 - step
                 /\ \/ /\ state' = "DATA"
                       /\ bit_cnt' = IF step = 0 THEN bit_cnt ELSE bit_cnt + 1
                    \/ state' = "STOP" /\ step = 1 /\ bit_cnt = W - 1
<1> USE DEF TimingTypeOK, TypeOK, MasterTypeOK, FrameStates
<1>1. Fsm(cpol, cpha, tx_data, start, miso)
  BY DEF TimedClock, Clock, MasterEdge
<1>2. CASE IdleEdge(cpol, tx_data, start)
  BY <1>2 DEF IdleEdge
<1>3. CASE StartEdge(cpha)
  BY <1>3 DEF StartEdge
<1>4. CASE WaitEdge
  BY <1>4 DEF WaitEdge
<1>5. CASE LeadingEdge(cpha, miso)
  BY <1>5 DEF LeadingEdge
<1>6. CASE TrailingEdge(cpha, miso)
  BY <1>6 DEF TrailingEdge, LastBit
<1>7. CASE LastEdge(cpha, miso)
  BY <1>7 DEF LastEdge, LastBit
<1>8. CASE StopEdge(cpol)
  BY <1>8 DEF StopEdge, StopOutputs
<1>9. QED
  BY <1>1, <1>2, <1>3, <1>4, <1>5, <1>6, <1>7, <1>8 DEF Fsm

(* After reset the divider is at zero and no frame is running. *)
LEMMA TimingStart == TimingInit => FrameStates /\ HalfInv
  BY DEF TimingInit, Init, MasterInit, FrameStates, HalfInv, LaterHalf

(* The divider's tick and the frame's position stay together. *)
LEMMA TimingClock ==
    ASSUME TimingInv, TimedClock
    PROVE  FrameStates' /\ HalfInv'
<1> USE DEF TimingInv
<1>1. Divider(clk_div) /\ UNCHANGED <<clk_div, start>> /\ Measure
  BY DEF TimedClock, Clock, regVars, MasterEdge
<1>2. state \in {"IDLE", "START", "DATA", "STOP"} /\ step \in Bit
        /\ bit_cnt \in Nat /\ sclk_r \in Bit /\ half_tick \in Bit
        /\ gap \in Nat /\ div_cnt \in Nat /\ clk_div \in Nat
  BY DivMaxAssumption, WidthAssumption DEF TimingTypeOK, TypeOK, MasterTypeOK
<1>3. half_tick' = 1 => div_cnt' = 0
  BY <1>1 DEF Divider, FrameStates
<1>4. FrameStates'
  BY <1>2, <1>3, Moves DEF FrameStates
<1>5. HalfInv'
  <2>1. CASE state # "DATA"
    BY <2>1, <1>2, Moves DEF HalfInv, LaterHalf
  <2>2. CASE state = "DATA" /\ half_tick = 1
    <3>1. div_cnt = 0 /\ 0 <= clk_div
      BY <1>2, <2>2 DEF FrameStates
    <3>2. IF clk_div = 0 THEN half_tick' = 1 ELSE div_cnt' = 1 /\ half_tick' = 0
      BY <1>1, <1>2, <2>2, <3>1, DividerCounts
    <3>3. gap' = 0
      BY <1>1, <1>2, <2>2, Moves DEF Measure
    <3>4. QED
      BY <1>1, <1>2, <3>2, <3>3 DEF HalfInv
  <2>3. CASE state = "DATA" /\ half_tick = 0
    <3>1. gap' = gap + 1 /\ bit_cnt' = bit_cnt /\ step' = step
      BY <1>1, <2>3, Moves DEF Measure
    <3>2. SUFFICES ASSUME LaterHalf PROVE HalfInv'
      BY <3>1, <2>3, Moves DEF HalfInv, LaterHalf
    <3>3. div_cnt = gap + 1 /\ div_cnt <= clk_div
      BY <2>3, <3>2 DEF HalfInv
    <3>4. IF div_cnt = clk_div THEN half_tick' = 1
          ELSE div_cnt' = div_cnt + 1 /\ half_tick' = 0
      BY <1>1, <2>3, <3>3, DividerCounts
    <3>5. QED
      BY <1>1, <1>2, <3>1, <3>3, <3>4 DEF HalfInv
  <2>4. QED
    BY <1>2, <2>1, <2>2, <2>3
<1>6. QED
  BY <1>4, <1>5

(* Software reprograms the divider only between frames, a reset ends one. *)
LEMMA TimingSoftware ==
    ASSUME TimingInv, SoftwareStep \/ TimedReset
    PROVE  FrameStates' /\ HalfInv'
<1>1. CASE SoftwareStep
  BY <1>1 DEF TimingInv, FrameStates, HalfInv, LaterHalf, SoftwareStep, masterVars, history
<1>2. CASE TimedReset
  BY <1>2 DEF TimedReset, Reset, MasterReset, FrameStates, HalfInv, LaterHalf
<1>3. QED
  BY <1>1, <1>2

(* The invariant holds in every reachable state. *)
LEMMA TimingAlways == TimingSpec => []TimingInv
<1>1. TimingInv /\ [TimingNext]_timedVars => FrameStates' /\ HalfInv'
  BY TimingClock, TimingSoftware, TimedSteps
<1>2. TimingTypeOK' /\ FrameStates' /\ HalfInv' => TimingInv'
  BY DEF TimingInv
<1>3. QED
  <2>1. TimingTypeOK /\ FrameStates /\ HalfInv => TimingInv
    BY DEF TimingInv
  <2>2. QED
    BY TimingStart, TimingTypeCorrect, <1>1, <1>2, <2>1, PTL DEF TimingSpec

(* Between two moves of sclk in one frame pass exactly clk_div + 1 cycles,  *)
(* however often the divider is reprogrammed between frames.                *)
THEOREM HalfPeriodsCorrect == TimingSpec => HalfPeriodsExact
<1> DEFINE P == SclkMoves /\ (bit_cnt > 0 \/ step = 1) => gap + 1 = HalfPeriod
<1>1. TimingInv /\ [TimingNext]_timedVars => [P]_timedVars
  <2> SUFFICES ASSUME TimingInv, TimingNext, SclkMoves, bit_cnt > 0 \/ step = 1
               PROVE  gap + 1 = HalfPeriod
    BY DEF timedVars, vars, SclkMoves
  <2>1. TimedClock
    BY TimedSteps DEF SoftwareStep, TimedReset, Reset, MasterReset, masterVars, SclkMoves
  <2>2. half_tick = 1
    BY <2>1, Moves DEF TimingInv, SclkMoves, TimingTypeOK, TypeOK, MasterTypeOK
  <2>3. QED
    BY <2>2 DEF TimingInv, HalfInv, LaterHalf, SclkMoves, HalfPeriod
<1>2. QED
  BY <1>1, TimingAlways, PTL DEF TimingSpec, HalfPeriodsExact

-----------------------------------------------------------------------------
(* The first half period and the frame, when the divider is programmed      *)
(* once, as the firmware does.  FirstInv says what the divider's registers  *)
(* carry over from the frame before, AgeInv counts the halves that passed.  *)

FirstInv ==
    /\ ~used => state \in {"IDLE", "START"} /\ div_cnt = 0 /\ half_tick = 0
    /\ used /\ state # "DATA" =>
          IF clk_div = 0 THEN half_tick = 1 ELSE half_tick = 0 /\ div_cnt = 1
    /\ FirstHalf =>
          IF half_tick = 1 THEN gap \in {clk_div, clk_div + 1}
          ELSE div_cnt <= clk_div /\ gap \in {div_cnt - 1, div_cnt}

Halves == 2 * bit_cnt + step

AgeInv ==
    /\ state = "START" => age = 0
    /\ FirstHalf => age = gap + 1
    /\ LaterHalf => age <= Halves * HalfPeriod + gap + 2
    /\ state = "STOP" => age <= 2 * W * HalfPeriod + 2

(* The next half of a bit adds one half period to the bound. *)
LEMMA NextHalf ==
    ASSUME NEW n \in Nat, NEW h \in Nat, NEW g \in Nat, NEW a \in Nat,
           a <= n * h + g + 2, g + 1 = h
    PROVE  a + 1 <= (n + 1) * h + 2
<1>1. (n + 1) * h = n * h + h
  OBVIOUS
<1>2. n * h \in Nat
  OBVIOUS
<1>3. QED
  BY <1>1, <1>2

(* The divider enters a frame at 0 or 1, or with its tick up if it divides *)
(* by one; after that it counts with gap or one ahead of it.                *)
LEMMA FirstStep ==
    ASSUME Reprogram = FALSE, TimingInv, FirstInv, [TimingNext]_timedVars
    PROVE  FirstInv'
<1> USE DEF TimingInv
<1>1. state \in {"IDLE", "START", "DATA", "STOP"} /\ step \in Bit
        /\ bit_cnt \in Nat /\ sclk_r \in Bit /\ half_tick \in Bit
        /\ gap \in Nat /\ div_cnt \in Nat /\ clk_div \in Nat /\ used \in BOOLEAN
  BY DivMaxAssumption, WidthAssumption DEF TimingTypeOK, TypeOK, MasterTypeOK
<1>2. CASE TimedClock
  <2>1. Divider(clk_div) /\ clk_div' = clk_div /\ Measure
    BY <1>2 DEF TimedClock, Clock, regVars, MasterEdge
  <2>2. CASE state \in {"IDLE", "STOP"}
    <3>1. state' # "DATA" /\ (~used => state' \in {"IDLE", "START"})
      BY <1>2, <2>2, Moves DEF FirstInv
    <3>2. used' = used
      BY <1>1, <2>1, <2>2 DEF Measure
    <3>3. QED
      BY <2>1, <2>2, <3>1, <3>2 DEF FirstInv, FirstHalf, Divider, Divides
  <2>3. CASE state = "START"
    <3>1. used' = TRUE /\ gap' = 0 /\ state' = "DATA"
      BY <1>2, <2>1, <2>3, Moves DEF Measure
    <3>2. UNCHANGED <<div_cnt, half_tick>>
      BY <2>1, <2>3 DEF Divider, Divides
    <3>3. IF half_tick = 1 THEN clk_div = 0 ELSE div_cnt <= clk_div /\ div_cnt \in {0, 1}
      BY <1>1, <2>3 DEF FirstInv
    <3>4. QED
      BY <1>1, <2>1, <3>1, <3>2, <3>3 DEF FirstInv, FirstHalf
  <2>4. CASE state = "DATA" /\ half_tick = 1
    <3>1. used' = TRUE /\ gap' = 0
      BY <1>1, <1>2, <2>1, <2>4, Moves DEF Measure, FirstInv
    <3>2. div_cnt = 0 /\ 0 <= clk_div
      BY <1>1, <2>4 DEF FrameStates
    <3>3. IF clk_div = 0 THEN div_cnt' = 0 /\ half_tick' = 1
          ELSE div_cnt' = 1 /\ half_tick' = 0
      BY <1>1, <2>1, <2>4, <3>2, DividerCounts
    <3>4. ~FirstHalf'
      BY <1>1, <1>2, <2>4, Moves DEF FirstHalf
    <3>5. QED
      BY <1>1, <2>1, <3>1, <3>3, <3>4 DEF FirstInv
  <2>5. CASE state = "DATA" /\ half_tick = 0
    <3>1. used' = TRUE /\ gap' = gap + 1 /\ state' = "DATA"
            /\ bit_cnt' = bit_cnt /\ step' = step
      BY <1>1, <1>2, <2>1, <2>5, Moves DEF Measure, FirstInv
    <3>2. SUFFICES ASSUME FirstHalf PROVE FirstInv'
      BY <3>1, <2>5 DEF FirstInv, FirstHalf
    <3>3. div_cnt <= clk_div /\ gap \in {div_cnt - 1, div_cnt}
      BY <2>5, <3>2 DEF FirstInv
    <3>4. IF div_cnt = clk_div THEN half_tick' = 1
          ELSE div_cnt' = div_cnt + 1 /\ half_tick' = 0
      BY <2>1, <2>5, <3>3, DividerCounts
    <3>5. QED
      BY <1>1, <2>1, <3>1, <3>3, <3>4 DEF FirstInv
  <2>6. QED
    BY <1>1, <2>2, <2>3, <2>4, <2>5
<1>3. CASE SoftwareStep
  BY <1>3 DEF SoftwareStep, FirstInv, FirstHalf, FrameStates, masterVars, history
<1>4. CASE TimedReset
  BY <1>4 DEF TimedReset, Reset, MasterReset, FirstInv, FirstHalf
<1>5. QED
  BY <1>2, <1>3, <1>4, TimedSteps

(* Every half of a bit adds at most one half period to the age of a frame. *)
LEMMA AgeStep ==
    ASSUME TimingInv, FirstInv, AgeInv, [TimingNext]_timedVars
    PROVE  AgeInv'
<1> USE DEF TimingInv
<1>1. state \in {"IDLE", "START", "DATA", "STOP"} /\ step \in Bit
        /\ bit_cnt \in Nat /\ sclk_r \in Bit /\ half_tick \in Bit
        /\ gap \in Nat /\ age \in Nat /\ clk_div \in Nat /\ HalfPeriod \in Nat
        /\ Halves \in Nat
  BY DivMaxAssumption, WidthAssumption
     DEF TimingTypeOK, TypeOK, MasterTypeOK, HalfPeriod, Halves
<1>2. CASE TimedClock
  <2>1. clk_div' = clk_div /\ HalfPeriod' = HalfPeriod /\ Measure
    BY <1>2 DEF TimedClock, Clock, regVars, HalfPeriod
  <2>2. CASE state = "IDLE"
    BY <1>2, <2>1, <2>2, Moves DEF Measure, AgeInv, FirstHalf, LaterHalf
  <2>3. CASE state = "START"
    BY <1>1, <1>2, <2>1, <2>3, Moves DEF Measure, AgeInv, FirstHalf, LaterHalf
  <2>4. CASE state = "STOP"
    BY <1>2, <2>1, <2>4, Moves DEF AgeInv, FirstHalf, LaterHalf
  <2>5. CASE state = "DATA" /\ half_tick = 0
    <3>1. gap' = gap + 1 /\ age' = age + 1 /\ state' = "DATA"
            /\ bit_cnt' = bit_cnt /\ step' = step /\ Halves' = Halves
      BY <1>2, <2>1, <2>5, Moves DEF Measure, Halves
    <3>2. Halves * HalfPeriod \in Nat
      BY <1>1
    <3>3. LaterHalf' => age' <= Halves' * HalfPeriod' + gap' + 2
      BY <1>1, <2>1, <2>5, <3>1, <3>2 DEF AgeInv, LaterHalf
    <3>4. FirstHalf' => age' = gap' + 1
      BY <1>1, <2>5, <3>1 DEF AgeInv, FirstHalf
    <3>5. QED
      BY <3>1, <3>3, <3>4 DEF AgeInv
  <2>6. CASE state = "DATA" /\ half_tick = 1
    <3>1. gap' = 0 /\ age' = age + 1 /\ ~FirstHalf'
      BY <1>1, <1>2, <2>1, <2>6, Moves DEF Measure, FirstHalf
    <3>2. age + 1 <= (Halves + 1) * HalfPeriod + 2
      <4>1. CASE FirstHalf
        <5>1. Halves = 0 /\ age = gap + 1 /\ gap <= HalfPeriod
          BY <1>1, <2>6, <4>1 DEF FirstHalf, FirstInv, AgeInv, Halves, HalfPeriod
        <5>2. (Halves + 1) * HalfPeriod = HalfPeriod
          BY <1>1, <5>1
        <5>3. QED
          BY <1>1, <5>1, <5>2
      <4>2. CASE LaterHalf
        <5>1. gap + 1 = HalfPeriod /\ age <= Halves * HalfPeriod + gap + 2
          BY <2>6, <4>2 DEF HalfInv, AgeInv, HalfPeriod
        <5>2. QED
          BY <1>1, <5>1, NextHalf
      <4>3. QED
        BY <1>1, <2>6, <4>1, <4>2 DEF FirstHalf, LaterHalf
    <3>3. CASE state' = "DATA"
      <4>1. Halves' = Halves + 1
        BY <1>1, <1>2, <2>6, <3>3, Moves DEF Halves
      <4>2. QED
        BY <1>1, <2>1, <3>1, <3>2, <3>3, <4>1 DEF AgeInv
    <3>4. CASE state' = "STOP"
      <4>1. Halves + 1 = 2 * W
        BY <1>1, <1>2, <2>6, <3>4, WidthAssumption, Moves DEF Halves
      <4>2. QED
        BY <2>1, <3>1, <3>2, <3>4, <4>1 DEF AgeInv, FirstHalf, LaterHalf
    <3>5. QED
      BY <1>2, <2>6, <3>3, <3>4, Moves
  <2>7. QED
    BY <1>1, <2>2, <2>3, <2>4, <2>5, <2>6
<1>3. CASE SoftwareStep
  <2>1. CASE clk_div' = clk_div
    BY <1>3, <2>1 DEF SoftwareStep, AgeInv, FirstHalf, LaterHalf, Halves, HalfPeriod,
                      masterVars, history
  <2>2. CASE clk_div' # clk_div
    BY <1>3, <2>2 DEF SoftwareStep, AgeInv, FirstHalf, LaterHalf, FrameStates, masterVars,
                      history
  <2>3. QED
    BY <2>1, <2>2
<1>4. CASE TimedReset
  BY <1>4 DEF TimedReset, Reset, MasterReset, AgeInv, FirstHalf, LaterHalf
<1>5. QED
  BY <1>2, <1>3, <1>4, TimedSteps

(* Both hold in every reachable state. *)
LEMMA FirstAlways ==
    ASSUME Reprogram = FALSE PROVE TimingSpec => [](FirstInv /\ AgeInv)
<1>1. TimingInit => FirstInv /\ AgeInv
  BY DEF TimingInit, Init, MasterInit, FirstInv, AgeInv, FirstHalf, LaterHalf
<1>2. TimingInv /\ FirstInv /\ AgeInv /\ [TimingNext]_timedVars => FirstInv' /\ AgeInv'
  BY FirstStep, AgeStep
<1>3. QED
  BY <1>1, <1>2, TimingAlways, PTL DEF TimingSpec

(* With one SPI_Init before the first frame, the first half period is as    *)
(* long as the others or one cycle longer.                                  *)
THEOREM FirstHalfCorrect ==
    ASSUME Reprogram = FALSE PROVE TimingSpec => FirstHalfExact
<1> DEFINE P == SclkMoves /\ bit_cnt = 0 /\ step = 0
                  => gap + 1 \in {HalfPeriod, HalfPeriod + 1}
<1>1. TimingInv /\ FirstInv /\ [TimingNext]_timedVars => [P]_timedVars
  <2> SUFFICES ASSUME TimingInv, FirstInv, TimingNext, SclkMoves, bit_cnt = 0, step = 0
               PROVE  gap + 1 \in {HalfPeriod, HalfPeriod + 1}
    BY DEF timedVars, vars, SclkMoves
  <2>1. TimedClock
    BY TimedSteps DEF SoftwareStep, TimedReset, Reset, MasterReset, masterVars, SclkMoves
  <2>2. half_tick = 1
    BY <2>1, Moves DEF TimingInv, SclkMoves, TimingTypeOK, TypeOK, MasterTypeOK
  <2>3. gap \in {clk_div, clk_div + 1}
    BY <2>2 DEF FirstInv, FirstHalf, SclkMoves
  <2>4. QED
    BY <2>3 DEF HalfPeriod
<1>2. QED
  BY <1>1, TimingAlways, FirstAlways, PTL DEF TimingSpec, FirstHalfExact

(* A frame ends within 2W half periods and three cycles, which is what lets *)
(* the firmware wait 50 ms instead of polling busy.                         *)
THEOREM FrameTimeCorrect ==
    ASSUME Reprogram = FALSE PROVE TimingSpec => []FrameBounded
<1>1. TimingInv /\ FirstInv /\ AgeInv => FrameBounded
  <2> SUFFICES ASSUME TimingInv, FirstInv, AgeInv, busy = 1 PROVE age < FrameMax
    BY DEF FrameBounded
  <2>1. /\ state \in {"IDLE", "START", "DATA", "STOP"} /\ step \in {0, 1}
        /\ bit_cnt \in Nat /\ bit_cnt <= W - 1 /\ gap \in Nat /\ age \in Nat
        /\ clk_div \in Nat /\ half_tick \in {0, 1} /\ div_cnt \in Nat /\ W \in Nat
    BY DivMaxAssumption, WidthAssumption
       DEF TimingInv, TimingTypeOK, TypeOK, MasterTypeOK
  <2>2. HalfPeriod \in Nat /\ HalfPeriod > 0 /\ Halves \in Nat /\ Halves + 1 <= 2 * W
    BY <2>1 DEF HalfPeriod, Halves
  <2>3. (Halves + 1) * HalfPeriod <= 2 * W * HalfPeriod
    <3>1. \A m, n, h \in Nat : m <= n => m * h <= n * h
      OBVIOUS
    <3>2. Halves + 1 \in Nat /\ 2 * W \in Nat
      BY <2>1, <2>2
    <3>3. QED
      BY <2>2, <3>1, <3>2
  <2>4. (Halves + 1) * HalfPeriod = Halves * HalfPeriod + HalfPeriod
          /\ Halves * HalfPeriod \in Nat /\ 2 * W * HalfPeriod \in Nat
    BY <2>1, <2>2
  <2>5. CASE state = "START" \/ state = "STOP"
    BY <2>1, <2>4, <2>5 DEF AgeInv, FrameMax
  <2>6. CASE LaterHalf
    <3>1. gap + 1 <= HalfPeriod
      BY <2>1, <2>6 DEF TimingInv, HalfInv, HalfPeriod
    <3>2. QED
      BY <2>1, <2>2, <2>3, <2>4, <2>6, <3>1 DEF AgeInv, FrameMax
  <2>7. CASE FirstHalf
    <3>1. gap <= HalfPeriod
      BY <2>1, <2>7 DEF FirstInv, HalfPeriod
    <3>2. QED
      BY <2>1, <2>2, <2>3, <2>4, <2>7, <3>1 DEF AgeInv, FrameMax
  <2>8. state # "IDLE"
    BY DEF TimingInv, FrameStates
  <2>9. QED
    BY <2>1, <2>5, <2>6, <2>7, <2>8 DEF FirstHalf, LaterHalf
<1>2. QED
  BY <1>1, TimingAlways, FirstAlways, PTL

=============================================================================
