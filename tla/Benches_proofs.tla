--------------------------- MODULE Benches_proofs ---------------------------
(***************************************************************************)
(* TLAPS proofs about Benches, at the width of the source and for every    *)
(* set of items: no handshake runs into its timeout, every item is         *)
(* compared once by its own words, and the comparison never fails.         *)
(***************************************************************************)
EXTENDS Benches, SPIMaster_proofs

USE DEF Bit

(* A handshake takes two clocks of waiting. *)
Source == W = 8 /\ TimeoutLimit > 1

Uvm == bench = "uvm"

Ops == {"tx", "start", "stop", "poll", "read"}

(* Everything in its range but the driver's place, which is below. *)
TypeInv ==
    /\ MasterTypeOK /\ Axi!AxiTypeOK /\ U!S!SlaveTypeOK
    /\ bench \in {"uvm", "loopback"}
    /\ op \in Ops /\ item \in Items /\ got \in Axi!RegWord
    /\ awvalid \in Bit /\ wvalid \in Bit /\ bready \in Bit
    /\ arvalid \in Bit /\ rready \in Bit
    /\ failed \in BOOLEAN
    /\ finished = <<>> \/ \E i \in Items : finished = <<i>>
    /\ s_tx_data \in ByteValues /\ temp_m_tx \in ByteValues /\ temp_s_tx \in ByteValues
    /\ temp_tx \in ByteValues /\ cur_araddr \in 0..3
    /\ warm \in 0..10
    /\ hand \in [U!Channels -> {"poll", "last", "idle"}]
    /\ waited \in [U!Channels \cup {"answer"} -> 0..2]

-----------------------------------------------------------------------------
(* Where an access of the driver stands, by the signals on the bus. *)
Beat ==
    IF awvalid = 0 /\ arvalid = 0
    THEN IF bvalid = 1 \/ rvalid = 1 THEN "last" ELSE "rest"
    ELSE IF bvalid = 1 \/ rvalid = 1 THEN "held"
    ELSE IF awready = 1 \/ arready = 1 THEN "taken"
    ELSE "ask"

(* The signals at each of these points.  In the UVM bench VALID stays up    *)
(* for a clock after the handshake, and the READY of the answer rises when  *)
(* it falls; in the loopback bench they rise and fall together.             *)
BusInv ==
    /\ awvalid = wvalid /\ awready = wready
    /\ awvalid = 1 \/ bvalid = 1 => Writing
    /\ arvalid = 1 \/ rvalid = 1 => ~Writing
    /\ Writing => arvalid = 0 /\ arready = 0 /\ rvalid = 0 /\ rready = 0
    /\ ~Writing => awvalid = 0 /\ awready = 0 /\ bvalid = 0 /\ bready = 0
    /\ aw_en = (IF awready = 1 \/ bvalid = 1 THEN 0 ELSE 1)
    /\ awready = 1 => awvalid = 1 /\ bvalid = 0 /\ awaddr = WriteOf[op].addr
    /\ arready = 1 => IF rvalid = 0 THEN arvalid = 1 /\ araddr = ReadOf[op]
                                    ELSE Uvm /\ arvalid = 0
    /\ Beat = "rest" => bready = 0 /\ rready = 0
    /\ Beat \in {"ask", "taken"} =>
         IF Writing THEN bready = (IF Uvm THEN 0 ELSE 1)
                    ELSE rready = (IF Uvm THEN 0 ELSE 1)
    /\ Beat = "held" => Uvm /\ bready = 0 /\ rready = 0
    /\ Beat = "last" => (IF Writing THEN bready ELSE rready) = 1
    /\ Beat = "last" /\ ~Writing => got = rdata

(* Where the driver of the UVM bench waits at each. *)
Waits == [rest |-> 0, ask |-> 0, taken |-> 1, held |-> 2, last |-> 2]

UvmInv ==
    /\ stage \in {"warm", "load", "begin", "hand", "last"}
    /\ stage \in {"warm", "load", "begin"} <=> Beat = "rest"
    /\ stage = "last" <=> Beat = "last"
    /\ stage \in {"warm", "load"} => op = "tx"
    /\ stage = "warm" => warm < 10
    /\ waited["answer"] = 0
    /\ stage # "hand" => hand = [c \in U!Channels |-> "idle"]
    /\ stage = "hand" =>
         \A c \in U!Channels :
            IF Writing <=> c # "ar"
            THEN waited[c] = Waits[Beat] /\ hand[c] = (IF Beat = "held" THEN "last" ELSE "poll")
            ELSE waited[c] = 0 /\ hand[c] = "idle"
    /\ stage # "warm" => s_tx_data = item.s
    /\ l_stage = "begin" /\ temp_tx = 0

LoopbackInv ==
    /\ stage = "warm"
    /\ l_stage = (CASE Beat = "rest" -> "begin" [] Beat = "ask" -> "ready"
                    [] Beat = "taken" -> "drop" [] Beat = "last" -> "last")

-----------------------------------------------------------------------------
(* The start bit is up from the response of one write to that of the next. *)
Started == (op = "start" /\ bvalid = 1) \/ (op = "stop" /\ bvalid = 0)
Stopped == (op = "stop" /\ bvalid = 1) \/ op \in {"poll", "read"}

RegInv ==
    /\ slv_reg[0] \in {Axi!Cleared, StartWord, StopWord}
    /\ Started => slv_reg[0] = StartWord
    /\ Stopped => slv_reg[0] = StopWord
    /\ ~Started => slv_reg[0] # StartWord
    /\ op # "tx" \/ bvalid = 1 => slv_reg[1] = item.m

(* Beats of the access that are over. *)
Over == [rest |-> 0, ask |-> 1, taken |-> 2, held |-> 3, last |-> 4]

(* The frame begins as soon as the start bit is written, and is not over    *)
(* before the driver looks at busy.  The UVM bench is a clock behind.       *)
FrameInv ==
    /\ busy = (IF state = "IDLE" THEN 0 ELSE 1) /\ cs_n = 1 - busy
    /\ done = 1 => state = "IDLE"
    /\ state = "START" => bit_cnt = 0 /\ step = 0
    /\ op \in {"tx", "read"} => state = "IDLE"
    /\ op = "start" =>
         state = IF Uvm /\ Beat = "last" THEN "START" ELSE "IDLE"
    /\ op = "stop" /\ bvalid = 0 =>
         IF Uvm \/ Beat # "rest"
         THEN /\ state = "DATA" /\ bit_cnt = 0 /\ step = 0 /\ half_tick = 0
              /\ div_cnt <= Over[Beat] + (IF Uvm THEN 1 ELSE 0)
         ELSE state = "START"
    /\ op = "poll" /\ rvalid = 1 /\ ~StillBusy(rdata) => state = "IDLE"

(* The divider enters a frame at most one clock ahead. *)
DividerInv ==
    /\ state # "DATA" => half_tick = 0 /\ div_cnt \in {0, 1}
    /\ state = "DATA" => div_cnt <= 4 /\ (half_tick = 1 => div_cnt = 0)

-----------------------------------------------------------------------------
(* The frame of the item has begun. *)
Begun == op \in {"stop", "poll", "read"} \/ state # "IDLE"

WordOut == IF Begun THEN BitsOf(item.m[0]) ELSE s_rx_data
WordBack == IF Begun THEN BitsOf(item.s) ELSE rx_data
Echoed == IF Begun THEN BitsOf(item.m[0]) ELSE rx_data

(* The line of the UVM bench is that of SPILink, in mode 0. *)
Line == INSTANCE SPILink_proofs WITH
    Polarities <- {0}, CPHA <- 0, Divs <- {4}, TxWords <- {}, Replies <- {},
    s_cpol <- 0, s_tx_data <- BitsOf(s_tx_data), sent <- WordOut, reply <- WordBack

LineInv ==
    /\ Line!AsleepInv /\ Line!MasterInv /\ Line!LineInv /\ Line!SlaveInv

(* The line of the loopback bench, which ends where it starts. *)
EchoInv ==
    /\ state = "START" => tx_shift_reg = Echoed
    /\ state = "DATA" =>
         /\ mosi = Echoed[bit_cnt + 1]
         /\ RestOf(tx_shift_reg, Echoed, bit_cnt + 1)
         /\ FrontOf(rx_shift_reg, Echoed, bit_cnt + step)
    /\ state \in {"STOP", "IDLE"} => rx_data = Echoed

-----------------------------------------------------------------------------
(* The monitors: what they caught, and that they caught nothing else. *)
ReadData == op = "read" /\ rvalid = 1 => rdata[0] = IF Uvm THEN item.s ELSE item.m[0]

UvmMonitorInv ==
    /\ (arvalid = 1 /\ rvalid = 1) \/ rready = 1 => cur_araddr = ReadOf[op]
    /\ bvalid = 1 \/ op # "tx" => temp_m_tx = item.m[0] /\ temp_s_tx = item.s
    /\ stage = "warm" => finished = <<>>
    /\ checked = IF stage = "load" /\ finished # <<>>
                 THEN <<<<finished[1].m[0], finished[1].s>>>> ELSE <<>>

LoopbackMonitorInv ==
    /\ bvalid = 1 \/ op # "tx" => temp_tx = item.m[0]
    /\ checked = IF op = "tx" /\ Beat = "rest" /\ finished # <<>>
                 THEN <<finished[1].m[0]>> ELSE <<>>

-----------------------------------------------------------------------------
(* Both benches share the peripheral. *)
LEMMA SameDut ==
    ASSUME NEW m
    PROVE  (U!DutEdge(m) <=> DutEdge(m)) /\ (L!DutEdge(m) <=> DutEdge(m))
<1>1. U!DutEdge(m) <=> DutEdge(m)
  BY
  DEF DutEdge, PeripheralEdge, Writing, WriteOf, ReadOf, StartWord, StopWord,
      Reg, STATE_REG, RX_REG, NumberOf, ByteValues, BitsOf, MasterEdge, Divider,
      Divides, DivMatch, Fsm, IdleEdge, IdleOutputs, StartEdge, WaitEdge,
      LeadingEdge, TrailingEdge, LastEdge, LastBit, Received, StopEdge,
      StopOutputs, Drive, Sample, ShiftIn, Msb, cpol, cpha, clk_div, start,
      tx_data, Axi!AxiEdge, Axi!AwReady, Axi!TakesWrite, Axi!AwAddr, Axi!WReady,
      Axi!RegisterWrite, Axi!slv_reg_wren, Axi!Strobed, Axi!BValid, Axi!ArReady,
      Axi!RValid, Axi!slv_reg_rden, Axi!RData, Axi!reg_data_out, U!DutEdge,
      U!PeripheralEdge, U!Writing, U!WriteOf, U!ReadOf, U!StartWord, U!StopWord,
      U!Reg, U!STATE_REG, U!RX_REG, U!NumberOf, U!ByteValues, U!BitsOf,
      U!MasterEdge, U!Divider, U!Divides, U!DivMatch, U!Fsm, U!IdleEdge,
      U!IdleOutputs, U!StartEdge, U!WaitEdge, U!LeadingEdge, U!TrailingEdge,
      U!LastEdge, U!LastBit, U!Received, U!StopEdge, U!StopOutputs, U!Drive,
      U!Sample, U!ShiftIn, U!Msb, U!cpol, U!cpha, U!clk_div, U!start, U!tx_data,
      U!Axi!AxiEdge, U!Axi!AwReady, U!Axi!TakesWrite, U!Axi!AwAddr,
      U!Axi!WReady, U!Axi!RegisterWrite, U!Axi!slv_reg_wren, U!Axi!Strobed,
      U!Axi!BValid, U!Axi!ArReady, U!Axi!RValid, U!Axi!slv_reg_rden,
      U!Axi!RData, U!Axi!reg_data_out
<1>2. L!DutEdge(m) <=> DutEdge(m)
  BY
  DEF DutEdge, PeripheralEdge, Writing, WriteOf, ReadOf, StartWord, StopWord,
      Reg, STATE_REG, RX_REG, NumberOf, ByteValues, BitsOf, MasterEdge, Divider,
      Divides, DivMatch, Fsm, IdleEdge, IdleOutputs, StartEdge, WaitEdge,
      LeadingEdge, TrailingEdge, LastEdge, LastBit, Received, StopEdge,
      StopOutputs, Drive, Sample, ShiftIn, Msb, cpol, cpha, clk_div, start,
      tx_data, Axi!AxiEdge, Axi!AwReady, Axi!TakesWrite, Axi!AwAddr, Axi!WReady,
      Axi!RegisterWrite, Axi!slv_reg_wren, Axi!Strobed, Axi!BValid, Axi!ArReady,
      Axi!RValid, Axi!slv_reg_rden, Axi!RData, Axi!reg_data_out, L!DutEdge,
      L!PeripheralEdge, L!Writing, L!WriteOf, L!ReadOf, L!StartWord, L!StopWord,
      L!Reg, L!STATE_REG, L!RX_REG, L!NumberOf, L!ByteValues, L!BitsOf,
      L!MasterEdge, L!Divider, L!Divides, L!DivMatch, L!Fsm, L!IdleEdge,
      L!IdleOutputs, L!StartEdge, L!WaitEdge, L!LeadingEdge, L!TrailingEdge,
      L!LastEdge, L!LastBit, L!Received, L!StopEdge, L!StopOutputs, L!Drive,
      L!Sample, L!ShiftIn, L!Msb, L!cpol, L!cpha, L!clk_div, L!start, L!tx_data,
      L!Axi!AxiEdge, L!Axi!AwReady, L!Axi!TakesWrite, L!Axi!AwAddr,
      L!Axi!WReady, L!Axi!RegisterWrite, L!Axi!slv_reg_wren, L!Axi!Strobed,
      L!Axi!BValid, L!Axi!ArReady, L!Axi!RValid, L!Axi!slv_reg_rden,
      L!Axi!RData, L!Axi!reg_data_out
<1>3. QED
  BY <1>1, <1>2

(* The accesses of the driver, one by one. *)
LEMMA Accesses ==
    /\ DOMAIN WriteOf = {"tx", "start", "stop"} /\ DOMAIN ReadOf = {"poll", "read"}
    /\ Writing <=> op \in {"tx", "start", "stop"}
    /\ WriteOf["tx"].addr = 1 /\ WriteOf["tx"].data = item.m
    /\ WriteOf["start"].addr = 0 /\ WriteOf["start"].data = StartWord
    /\ WriteOf["stop"].addr = 0 /\ WriteOf["stop"].data = StopWord
    /\ ReadOf["poll"] = 2 /\ ReadOf["read"] = 3
<1>1. DOMAIN WriteOf = {"tx", "start", "stop"}
  <2>1. \A a, b, c : DOMAIN [tx |-> a, start |-> b, stop |-> c] = {"tx", "start", "stop"}
    OBVIOUS
  <2>2. QED
    BY <2>1, Zenon DEF WriteOf
<1>2. DOMAIN ReadOf = {"poll", "read"}
  BY DEF ReadOf
<1>3. /\ WriteOf["tx"] = [addr |-> 1, data |-> item.m]
      /\ WriteOf["start"] = [addr |-> 0, data |-> StartWord]
      /\ WriteOf["stop"] = [addr |-> 0, data |-> StopWord]
  BY DEF WriteOf
<1>4. ReadOf["poll"] = 2 /\ ReadOf["read"] = 3
  BY DEF ReadOf
<1>5. QED
  BY <1>1, <1>2, <1>3, <1>4 DEF Writing

(* Bytes of the source, and words of four of them. *)
LEMMA Bytes ==
    ASSUME W = 8
    PROVE  /\ ByteValues = 0..255 /\ DivMax = 255 /\ 2^(W - 1) = 128
           /\ Axi!RegWord = [0..3 -> 0..255]
  BY Powers, DividerIsAByte DEF ByteValues, Axi!RegWord

(* The control words of the drivers: mode 0, divider 4, the start bit. *)
LEMMA ControlWords ==
    ASSUME W = 8
    PROVE  /\ StartWord \in Axi!RegWord /\ StopWord \in Axi!RegWord /\ Axi!Cleared \in Axi!RegWord
           /\ StartWord[0] = 0 /\ StartWord[1] = 4 /\ StartWord[3] = 128
           /\ StopWord[0] = 0 /\ StopWord[1] = 4 /\ StopWord[3] = 0
           /\ Axi!Cleared[0] = 0 /\ Axi!Cleared[1] = 0 /\ Axi!Cleared[3] = 0
<1>1. StartWord = [lane \in 0..3 |-> <<0, 4, 0, 128>>[lane + 1]]
  BY Bytes DEF StartWord, Reg
<1>2. StopWord = [lane \in 0..3 |-> <<0, 4, 0, 0>>[lane + 1]]
  BY DEF StopWord, Reg
<1>3. /\ \A lane \in 0..3 : <<0, 4, 0, 128>>[lane + 1] \in 0..255
      /\ \A lane \in 0..3 : <<0, 4, 0, 0>>[lane + 1] \in 0..255
  OBVIOUS
<1>4. StartWord \in [0..3 -> 0..255] /\ StopWord \in [0..3 -> 0..255]
  BY <1>1, <1>2, <1>3
<1>5. Axi!Cleared = [lane \in 0..3 |-> 0]
  BY DEF Axi!Cleared
<1>6. QED
  BY <1>1, <1>2, <1>4, <1>5, Bytes

(* What is written is a word, and it goes to one of the first two registers. *)
LEMMA WrittenWord ==
    ASSUME W = 8, item \in Items, NEW o \in {"tx", "start", "stop"}
    PROVE  /\ WriteOf[o].addr \in {0, 1} /\ WriteOf[o].data \in [0..3 -> 0..255]
<1>1. item.m \in [0..3 -> 0..255]
  BY ItemsAssumption, Bytes
<1>2. StartWord \in [0..3 -> 0..255] /\ StopWord \in [0..3 -> 0..255]
  BY ControlWords, Bytes
<1>3. QED
  BY <1>1, <1>2, Accesses

-----------------------------------------------------------------------------
(* A clock edge of the peripheral, by the driver's access. *)
Now(b) == Beat \in b /\ Writing
NowRead(b) == Beat \in b /\ ~Writing

DutStep(m) ==
    /\ awready' = (IF Now({"ask"}) THEN 1 ELSE 0) /\ wready' = awready'
    /\ bvalid' = (IF Now({"taken", "held"}) THEN 1 ELSE 0)
    /\ aw_en' = (IF Now({"ask", "taken", "held"}) THEN 0 ELSE 1)
    /\ awaddr' = (IF Now({"ask"}) THEN WriteOf[op].addr ELSE awaddr)
    /\ arready' = (IF NowRead({"ask", "held"}) THEN 1 ELSE 0)
    /\ araddr' = (IF NowRead({"ask", "held"}) THEN ReadOf[op] ELSE araddr)
    /\ rvalid' = (IF NowRead({"taken", "held"}) THEN 1 ELSE 0)
    /\ slv_reg' = (IF Now({"taken"}) THEN [slv_reg EXCEPT ![WriteOf[op].addr] = WriteOf[op].data]
                   ELSE slv_reg)
    /\ rdata' = (IF ~NowRead({"taken"}) THEN rdata
                 ELSE IF op = "poll" THEN STATE_REG ELSE RX_REG)
    /\ MasterEdge(cpol, cpha, clk_div, tx_data, start, m)

(* The peripheral does that, as long as driver and bus agree. *)
LEMMA DutSteps ==
    ASSUME W = 8, TypeInv, BusInv, NEW m, DutEdge(m)
    PROVE  DutStep(m)
<1> DEFINE write == IF Writing THEN WriteOf[op] ELSE WriteOf["tx"]
           addr == IF Writing THEN 0 ELSE ReadOf[op]
<1>1. /\ Axi!AwReady(awvalid, wvalid, bready) /\ Axi!AwAddr(awvalid, wvalid, write.addr)
      /\ Axi!WReady(awvalid, wvalid) /\ Axi!BValid(awvalid, wvalid, bready)
      /\ Axi!RegisterWrite(awvalid, wvalid, write.data, 0..3)
      /\ Axi!ArReady(arvalid, addr) /\ Axi!RValid(arvalid, rready)
      /\ Axi!RData(arvalid, STATE_REG, RX_REG)
      /\ MasterEdge(cpol, cpha, clk_div, tx_data, start, m)
  BY DEF DutEdge, PeripheralEdge, Axi!AxiEdge
<1> HIDE DEF write, addr
<1>2. /\ awvalid \in {0, 1} /\ wvalid \in {0, 1} /\ bready \in {0, 1}
      /\ arvalid \in {0, 1} /\ rready \in {0, 1}
      /\ awready \in {0, 1} /\ wready \in {0, 1} /\ aw_en \in {0, 1} /\ bvalid \in {0, 1}
      /\ arready \in {0, 1} /\ rvalid \in {0, 1}
  BY DEF TypeInv, Axi!AxiTypeOK, Axi!Flag
<1>3. Writing => write = WriteOf[op]
  BY DEF write
<1>4. ~Writing => addr = ReadOf[op] /\ op \in {"poll", "read"}
  BY Accesses DEF addr, TypeInv, Ops
<1>5. /\ awready' = (IF Now({"ask"}) THEN 1 ELSE 0)
      /\ aw_en' = (IF Now({"ask", "taken", "held"}) THEN 0 ELSE 1)
  BY <1>1, <1>2 DEF BusInv, Beat, Now, Axi!AwReady, Axi!TakesWrite
<1>6. wready' = awready'
  BY <1>1, <1>2, <1>5 DEF BusInv, Beat, Now, Axi!WReady
<1>7. bvalid' = (IF Now({"taken", "held"}) THEN 1 ELSE 0)
  BY <1>1, <1>2 DEF BusInv, Beat, Now, Axi!BValid, Axi!slv_reg_wren
<1>8. awaddr' = (IF Now({"ask"}) THEN WriteOf[op].addr ELSE awaddr)
  BY <1>1, <1>2, <1>3 DEF BusInv, Beat, Now, Axi!AwAddr, Axi!TakesWrite
<1>9. /\ arready' = (IF NowRead({"ask", "held"}) THEN 1 ELSE 0)
      /\ araddr' = (IF NowRead({"ask", "held"}) THEN ReadOf[op] ELSE araddr)
  BY <1>1, <1>2, <1>4 DEF BusInv, Beat, NowRead, Axi!ArReady
<1>10. rvalid' = (IF NowRead({"taken", "held"}) THEN 1 ELSE 0)
  BY <1>1, <1>2 DEF BusInv, Beat, NowRead, Axi!RValid, Axi!slv_reg_rden
<1>11. slv_reg' = (IF Now({"taken"}) THEN [slv_reg EXCEPT ![WriteOf[op].addr] = WriteOf[op].data]
                   ELSE slv_reg)
  <2>1. Axi!slv_reg_wren(awvalid, wvalid) <=> Now({"taken"})
    BY <1>2 DEF BusInv, Beat, Now, Axi!slv_reg_wren
  <2>2. CASE Now({"taken"})
    <3>1. Writing /\ awaddr = WriteOf[op].addr
      BY <1>2, <2>2 DEF BusInv, Beat, Now
    <3>2. WriteOf[op].data \in [0..3 -> 0..255]
      BY <3>1, Accesses, WrittenWord DEF TypeInv
    <3>3. \A old : Axi!Strobed(old, WriteOf[op].data, 0..3) = WriteOf[op].data
      BY <3>2 DEF Axi!Strobed
    <3>4. QED
      BY <1>1, <1>3, <2>1, <2>2, <3>1, <3>3 DEF Axi!RegisterWrite
  <2>3. CASE ~Now({"taken"})
    BY <1>1, <2>1, <2>3 DEF Axi!RegisterWrite
  <2>4. QED
    BY <2>2, <2>3
<1>12. rdata' = (IF ~NowRead({"taken"}) THEN rdata
                 ELSE IF op = "poll" THEN STATE_REG ELSE RX_REG)
  <2>1. Axi!slv_reg_rden(arvalid) <=> NowRead({"taken"})
    BY <1>2 DEF BusInv, Beat, NowRead, Axi!slv_reg_rden
  <2>2. CASE NowRead({"taken"})
    <3>1. araddr = ReadOf[op] /\ op \in {"poll", "read"}
      BY <1>2, <1>4, <2>2 DEF BusInv, Beat, NowRead
    <3>2. QED
      BY <1>1, <2>1, <2>2, <3>1, Accesses DEF Axi!RData, Axi!reg_data_out
  <2>3. CASE ~NowRead({"taken"})
    BY <1>1, <2>1, <2>3 DEF Axi!RData
  <2>4. QED
    BY <2>2, <2>3
<1>13. QED
  BY <1>1, <1>5, <1>6, <1>7, <1>8, <1>9, <1>10, <1>11, <1>12 DEF DutStep

-----------------------------------------------------------------------------
(* What a clock edge does to the driver's access in either bench. *)
AccessStep ==
    /\ bench' = bench
    /\ Beat = "rest" => Beat' = "ask" \/ (Beat' = "rest" /\ op = "tx")
    /\ Beat = "ask" => Beat' = "taken"
    /\ Beat = "taken" => Beat' = (IF Uvm THEN "held" ELSE "last")
    /\ Beat = "held" => Beat' = "last"
    /\ Beat = "last" => Beat' = "rest"
    /\ op' = (IF Beat = "last" THEN Following(rdata) ELSE op)
    /\ IF Beat = "last" /\ op = "read" THEN item' \in Items /\ finished' = <<item>>
                                       ELSE UNCHANGED <<item, finished>>
    /\ DutStep(IF Uvm THEN miso ELSE mosi)

(* What reads and writes are is the same after the edge. *)
LEMMA AccessesNext ==
    /\ Writing' <=> op' \in {"tx", "start", "stop"}
    /\ WriteOf'["tx"].addr = 1 /\ WriteOf'["tx"].data = item'.m
    /\ WriteOf'["start"].addr = 0 /\ WriteOf'["stop"].addr = 0
<1>1. WriteOf' = [tx |-> [addr |-> 1, data |-> item'.m],
                  start |-> [addr |-> 0, data |-> StartWord],
                  stop |-> [addr |-> 0, data |-> StopWord]]
  BY DEF WriteOf, StartWord, StopWord, Reg
<1>2. \A a, b, c : DOMAIN [tx |-> a, start |-> b, stop |-> c] = {"tx", "start", "stop"}
  OBVIOUS
<1>3. DOMAIN WriteOf' = {"tx", "start", "stop"}
  BY <1>1, <1>2, Zenon
<1>4. Writing' <=> op' \in {"tx", "start", "stop"}
  BY <1>3 DEF Writing
<1>5. QED
  BY <1>1, <1>4

(* The benches' names for what they share. *)
LEMMA SameAccess ==
    /\ U!Writing = Writing /\ L!Writing = Writing
    /\ U!ReadOf = ReadOf /\ L!ReadOf = ReadOf /\ L!WriteOf = WriteOf
    /\ \A rd : U!Following(rd) = Following(rd) /\ L!Following(rd) = Following(rd)
  BY DEF U!Writing, L!Writing, Writing, U!WriteOf, L!WriteOf, WriteOf, U!ReadOf, L!ReadOf,
         ReadOf, U!StartWord, L!StartWord, StartWord, U!StopWord, L!StopWord, StopWord,
         U!Reg, L!Reg, Reg, U!Following, L!Following, Following, U!StillBusy, L!StillBusy,
         StillBusy

(* The channels a UVM access uses. *)
LEMMA UvmChannels ==
    /\ U!Channels = {"aw", "w", "ar"}
    /\ \A c \in U!Channels : c \in U!Used <=> (Writing <=> c # "ar")
    /\ U!VALID["aw"] = awvalid /\ U!VALID["w"] = wvalid /\ U!VALID["ar"] = arvalid
    /\ U!READY["aw"] = awready /\ U!READY["w"] = wready /\ U!READY["ar"] = arready
    /\ U!Answer = (IF Writing THEN bvalid ELSE rvalid)
  BY SameAccess DEF U!Channels, U!Used, U!VALID, U!READY, U!Answer

(* What the driver of the UVM bench does at a clock edge. *)
UvmStep ==
    /\ awvalid' = (IF Now({"ask", "taken"}) \/ (stage = "begin" /\ Writing) THEN 1 ELSE 0)
    /\ wvalid' = awvalid'
    /\ arvalid' = (IF NowRead({"ask", "taken"}) \/ (stage = "begin" /\ ~Writing) THEN 1 ELSE 0)
    /\ bready' = (IF Now({"held"}) THEN 1 ELSE 0)
    /\ rready' = (IF NowRead({"held"}) THEN 1 ELSE 0)
    /\ got' = (IF NowRead({"held"}) THEN rdata ELSE got)
    /\ op' = (IF Beat = "last" THEN Following(got) ELSE op)
    /\ IF Beat = "last" /\ op = "read" THEN item' \in Items /\ finished' = <<item>>
                                       ELSE UNCHANGED <<item, finished>>
    /\ stage' = (CASE stage = "warm" -> IF warm = 9 THEN "load" ELSE "warm"
                   [] stage = "load" -> "begin"
                   [] stage = "begin" -> "hand"
                   [] stage = "hand" -> IF Beat = "held" THEN "last" ELSE "hand"
                   [] stage = "last" -> IF op = "read" THEN "load" ELSE "begin")
    /\ warm' = (IF stage = "warm" THEN warm + 1 ELSE warm)
    /\ s_tx_data' = (IF stage = "warm" /\ warm = 9 THEN item.s
                     ELSE IF Beat = "last" /\ op = "read" THEN item'.s ELSE s_tx_data)

(* The values the driver finds at the signals. *)
LEMMA Signals ==
    ASSUME TypeInv
    PROVE  /\ awvalid \in {0, 1} /\ wvalid \in {0, 1} /\ bready \in {0, 1}
           /\ arvalid \in {0, 1} /\ rready \in {0, 1}
           /\ awready \in {0, 1} /\ wready \in {0, 1} /\ aw_en \in {0, 1} /\ bvalid \in {0, 1}
           /\ arready \in {0, 1} /\ rvalid \in {0, 1}
           /\ op \in {"tx", "start", "stop", "poll", "read"}
           /\ Beat \in {"rest", "ask", "taken", "held", "last"}
  BY DEF TypeInv, Axi!AxiTypeOK, Axi!Flag, Ops, Beat

(* Nothing is asked: warming up, giving the slave its reply, and the clock  *)
(* in which an access begins.                                               *)
LEMMA UvmRests ==
    ASSUME TypeInv, BusInv, UvmInv, U!WarmStep \/ U!LoadStep
    PROVE  UvmStep /\ UNCHANGED <<hand, waited>>
<1>1. U!WarmUp = 10
  BY DEF U!WarmUp
<1>2. /\ stage \in {"warm", "load"} /\ Beat = "rest"
      /\ UNCHANGED <<op, item, got, finished, awvalid, wvalid, bready, arvalid, rready>>
      /\ UNCHANGED <<hand, waited>>
  BY DEF U!WarmStep, U!LoadStep, U!busSignals, UvmInv
<1>3. awvalid = 0 /\ wvalid = 0 /\ bready = 0 /\ arvalid = 0 /\ rready = 0
  BY <1>2, Signals DEF BusInv, Beat
<1>4. CASE U!WarmStep
  BY <1>1, <1>2, <1>3, <1>4 DEF U!WarmStep, UvmStep, Now, NowRead, TypeInv
<1>5. CASE U!LoadStep
  BY <1>1, <1>2, <1>3, <1>5 DEF U!LoadStep, UvmStep, Now, NowRead
<1>6. QED
  BY <1>4, <1>5

(* An access begins: its VALIDs go up and its threads begin to poll. *)
LEMMA UvmBegins ==
    ASSUME TypeInv, BusInv, UvmInv, U!BeginStep
    PROVE  /\ UvmStep /\ stage = "begin"
           /\ waited' = [c \in U!Channels \cup {"answer"} |-> 0]
           /\ hand' = [c \in U!Channels |-> IF Writing <=> c # "ar" THEN "poll" ELSE "idle"]
<1>1. stage = "begin" /\ Beat = "rest"
  BY DEF U!BeginStep, UvmInv
<1>2. /\ awvalid = 0 /\ wvalid = 0 /\ bready = 0 /\ arvalid = 0 /\ rready = 0
      /\ awready = 0 /\ wready = 0 /\ arready = 0
  BY <1>1, Signals DEF BusInv, Beat
<1>3. \A c \in U!Channels : U!VALID[c] = 0 /\ U!READY[c] = 0
  BY <1>2, UvmChannels
<1>4. hand' = [c \in U!Channels |-> IF Writing <=> c # "ar" THEN "poll" ELSE "idle"]
  BY <1>3, UvmChannels DEF U!BeginStep
<1>5. waited' = [c \in U!Channels \cup {"answer"} |-> 0]
  BY DEF U!BeginStep, TypeInv
<1>6. awvalid' = (IF Writing THEN 1 ELSE 0) /\ wvalid' = awvalid'
      /\ arvalid' = (IF Writing THEN 0 ELSE 1)
  BY <1>3, UvmChannels DEF U!BeginStep, U!SetValid
<1>7. QED
  BY <1>1, <1>2, <1>4, <1>5, <1>6 DEF U!BeginStep, UvmStep, Now, NowRead

(* The threads poll, see READY after two clocks and drop VALID after a      *)
(* third; no counter passes 2, and the answer is there when they are done.  *)
LEMMA UvmHands ==
    ASSUME Source, Uvm, TypeInv, BusInv, UvmInv, U!HandStep
    PROVE  /\ UvmStep /\ stage = "hand"
           /\ waited' = [c \in U!Channels \cup {"answer"} |->
                           IF (Writing <=> c # "ar") /\ c # "answer" /\ Beat # "held"
                           THEN Waits[Beat] + 1 ELSE waited[c]]
           /\ hand' = [c \in U!Channels |->
                           IF (Writing <=> c # "ar") /\ Beat # "held"
                           THEN IF Beat = "taken" THEN "last" ELSE "poll"
                           ELSE "idle"]
<1>1. stage = "hand" /\ Beat \in {"ask", "taken", "held"}
  BY Signals DEF U!HandStep, UvmInv
<1>2. \A c \in U!Channels :
            IF Writing <=> c # "ar"
            THEN waited[c] = Waits[Beat] /\ hand[c] = (IF Beat = "held" THEN "last" ELSE "poll")
            ELSE waited[c] = 0 /\ hand[c] = "idle"
  BY <1>1 DEF UvmInv
<1>3. Waits["ask"] = 0 /\ Waits["taken"] = 1 /\ Waits["held"] = 2
  BY DEF Waits
<1>4. /\ \A c \in U!Channels : (Writing <=> c # "ar") =>
              U!VALID[c] = 1 /\ (U!READY[c] = 1 <=> Beat = "taken")
      /\ \A c \in U!Channels : ~(Writing <=> c # "ar") => U!VALID[c] = 0
      /\ Beat = "held" => U!Answer = 1
      /\ bready = 0 /\ rready = 0
  <2>1. /\ awvalid = (IF Writing THEN 1 ELSE 0) /\ wvalid = awvalid
        /\ arvalid = (IF Writing THEN 0 ELSE 1)
        /\ Writing => (awready = 1 <=> Beat = "taken") /\ wready = awready
        /\ ~Writing => (arready = 1 <=> Beat = "taken")
        /\ Beat = "held" => IF Writing THEN bvalid = 1 ELSE rvalid = 1
        /\ bready = 0 /\ rready = 0
    BY <1>1, Signals DEF BusInv, Beat
  <2>2. QED
    BY <2>1, UvmChannels
<1>5. hand' = [c \in U!Channels |->
                 IF (Writing <=> c # "ar") /\ Beat # "held"
                 THEN IF Beat = "taken" THEN "last" ELSE "poll"
                 ELSE "idle"]
  <2>1. hand' = [c \in U!Channels |-> IF hand[c] = "last" THEN "idle"
                                   ELSE IF hand[c] = "poll" /\ U!READY[c] = 1 THEN "last"
                                   ELSE hand[c]]
    BY DEF U!HandStep
  <2>2. QED
    BY <1>1, <1>2, <1>4, <2>1
<1>6. waited' = [c \in U!Channels \cup {"answer"} |->
                   IF (Writing <=> c # "ar") /\ c # "answer" /\ Beat # "held"
                   THEN Waits[Beat] + 1 ELSE waited[c]]
  <2>1. waited' = [c \in U!Channels \cup {"answer"} |->
                    IF c \in U!Channels /\ hand[c] = "poll" THEN waited[c] + 1 ELSE waited[c]]
    BY DEF U!HandStep, TypeInv
  <2>2. "answer" \notin U!Channels
    BY UvmChannels
  <2>3. QED
    BY <1>1, <1>2, <2>1, <2>2
<1>7. ~\E c \in U!Channels : waited'[c] > TimeoutLimit
  <2>1. \A c \in U!Channels : waited'[c] \in 0..2
    BY <1>1, <1>2, <1>3, <1>6
  <2>2. QED
    BY <2>1, TimeoutAssumption DEF Source
<1>8. /\ awvalid' = (IF Writing /\ Beat # "held" THEN 1 ELSE 0) /\ wvalid' = awvalid'
      /\ arvalid' = (IF ~Writing /\ Beat # "held" THEN 1 ELSE 0)
  BY <1>1, <1>2, <1>4, UvmChannels DEF U!HandStep, U!SetValid
<1>9. (\E c \in U!Channels : hand'[c] # "idle") <=> Beat # "held"
  BY <1>5, UvmChannels
<1>10. /\ bready' = (IF Writing /\ Beat = "held" THEN 1 ELSE 0)
       /\ rready' = (IF ~Writing /\ Beat = "held" THEN 1 ELSE 0)
       /\ got' = (IF ~Writing /\ Beat = "held" THEN rdata ELSE got)
       /\ stage' = (IF Beat = "held" THEN "last" ELSE "hand")
  BY <1>1, <1>4, <1>7, <1>9, SameAccess DEF U!HandStep, U!AwaitAnswer
<1>11. UNCHANGED <<op, item, finished, warm, s_tx_data>>
  BY DEF U!HandStep
<1>12. UvmStep
  BY <1>1, <1>8, <1>10, <1>11 DEF UvmStep, Now, NowRead
<1>13. QED
  BY <1>1, <1>5, <1>6, <1>12

(* The answer is taken and the task returns. *)
LEMMA UvmEnds ==
    ASSUME TypeInv, BusInv, UvmInv, U!LastStep
    PROVE  /\ UvmStep /\ stage = "last"
           /\ UNCHANGED <<hand, waited>>
<1>1. stage = "last" /\ Beat = "last"
  BY DEF U!LastStep, UvmInv
<1>2. awvalid = 0 /\ wvalid = 0 /\ arvalid = 0
  BY <1>1, Signals DEF BusInv, Beat
<1>3. op' = Following(got)
      /\ IF op = "read" THEN item' \in Items /\ finished' = <<item>>
                        ELSE UNCHANGED <<item, finished>>
  BY SameAccess DEF U!LastStep, U!Return
<1>4. QED
  BY <1>1, <1>2, <1>3 DEF U!LastStep, UvmStep, Now, NowRead

(* Every step of the driver is one of these, so a handshake never gives up. *)
LEMMA UvmSteps ==
    ASSUME Source, Uvm, TypeInv, BusInv, UvmInv, U!Driver
    PROVE  UvmStep
<1>1. ~U!AnswerStep
  BY DEF U!AnswerStep, UvmInv
<1>2. QED
  BY <1>1, UvmRests, UvmBegins, UvmHands, UvmEnds DEF U!Driver

(* Whether the access is a write changes only with the access. *)
LEMMA SameWriting ==
    /\ ReadOf' = ReadOf
    /\ op' = op => (Writing' <=> Writing)
    /\ op' = op /\ item' = item /\ Writing => WriteOf'[op'].addr = WriteOf[op].addr
<1>1. ReadOf' = ReadOf
  BY DEF ReadOf
<1>2. (Writing' <=> op' \in {"tx", "start", "stop"}) /\ (Writing <=> op \in {"tx", "start", "stop"})
  BY AccessesNext, Accesses
<1>3. \A i \in {"tx", "start", "stop"} : WriteOf'[i].addr = WriteOf[i].addr
  BY AccessesNext, Accesses
<1>4. op' = op /\ Writing => WriteOf'[op'].addr = WriteOf[op].addr
  <2> SUFFICES ASSUME op' = op, Writing PROVE WriteOf'[op'].addr = WriteOf[op].addr
    OBVIOUS
  <2>1. WriteOf'[op'] = WriteOf'[op]
    OBVIOUS
  <2>2. QED
    BY <1>2, <1>3, <2>1
<1>5. op' = op => (Writing' <=> Writing)
  BY <1>2
<1>6. QED
  BY <1>1, <1>4, <1>5

(* Driver and bus stay in step. *)
LEMMA UvmAccess ==
    ASSUME Source, Uvm, TypeInv, BusInv, UvmInv, U!Clock, bench' = bench
    PROVE  AccessStep /\ BusInv' /\ Beat' = (IF stage' \in {"warm", "load", "begin"} THEN "rest"
                                            ELSE IF stage' = "last" THEN "last"
                                            ELSE IF stage = "begin" THEN "ask"
                                            ELSE IF Beat = "ask" THEN "taken" ELSE "held")
<1>1. DutStep(miso)
  BY SameDut, DutSteps DEF U!Clock, Source
<1>2. UvmStep
  BY UvmSteps DEF U!Clock
<1>3. Uvm' = Uvm /\ (Beat = "last" => Following(got) = Following(rdata))
  <2>1. op = "poll" => ~Writing
    BY Accesses
  <2>2. Beat = "last" /\ op = "poll" => got = rdata
    BY <2>1 DEF BusInv
  <2>3. QED
    BY <2>2, Signals DEF Uvm, Following
<1>4. CASE Beat = "rest"
  <2>1. /\ awvalid = 0 /\ wvalid = 0 /\ bready = 0 /\ arvalid = 0 /\ rready = 0
        /\ awready = 0 /\ wready = 0 /\ arready = 0 /\ bvalid = 0 /\ rvalid = 0 /\ aw_en = 1
        /\ stage \in {"warm", "load", "begin"} /\ (stage # "begin" => op = "tx")
    BY <1>4, Signals DEF BusInv, Beat, UvmInv
  <2>2. /\ op' = op /\ item' = item /\ (Writing' <=> Writing)
        /\ awready' = 0 /\ wready' = 0 /\ arready' = 0 /\ bvalid' = 0 /\ rvalid' = 0
        /\ aw_en' = 1 /\ bready' = 0 /\ rready' = 0 /\ wvalid' = awvalid'
        /\ awvalid' = (IF stage = "begin" /\ Writing THEN 1 ELSE 0)
        /\ arvalid' = (IF stage = "begin" /\ ~Writing THEN 1 ELSE 0)
    BY <1>1, <1>2, <1>4, SameWriting DEF DutStep, UvmStep, Now, NowRead
  <2>3. Beat' = (IF stage = "begin" THEN "ask" ELSE "rest")
    BY <2>2 DEF Beat
  <2>4. stage' = (CASE stage = "warm" -> IF warm = 9 THEN "load" ELSE "warm"
                    [] stage = "load" -> "begin" [] stage = "begin" -> "hand")
    BY <1>2, <2>1 DEF UvmStep
  <2>5. BusInv'
    BY <1>3, <2>2, <2>3 DEF BusInv
  <2>6. QED
    BY <1>1, <1>2, <1>4, <2>1, <2>3, <2>4, <2>5 DEF AccessStep, UvmStep, Uvm
<1>5. Beat \in {"ask", "taken", "held"} =>
        /\ awvalid = (IF Writing THEN 1 ELSE 0) /\ wvalid = awvalid
        /\ arvalid = (IF Writing THEN 0 ELSE 1)
        /\ stage = "hand" /\ bready = 0 /\ rready = 0
        /\ UNCHANGED <<op, item, finished>> /\ (Writing' <=> Writing)
        /\ Writing => WriteOf'[op'].addr = WriteOf[op].addr
        /\ Writing => arready = 0 /\ rvalid = 0
        /\ ~Writing => awready = 0 /\ bvalid = 0
  BY <1>2, Signals, SameWriting DEF BusInv, Beat, UvmInv, UvmStep
<1>6. CASE Beat = "ask"
  <2>1. /\ awvalid' = awvalid /\ wvalid' = awvalid' /\ arvalid' = arvalid
        /\ bvalid' = 0 /\ rvalid' = 0 /\ bready' = 0 /\ rready' = 0 /\ wready' = awready'
        /\ Writing => /\ awready' = 1 /\ aw_en' = 0 /\ arready' = 0 /\ awaddr' = WriteOf[op].addr
        /\ ~Writing => /\ awready' = 0 /\ aw_en' = 1 /\ arready' = 1 /\ araddr' = ReadOf[op]
        /\ stage' = "hand"
    BY <1>1, <1>2, <1>5, <1>6 DEF DutStep, UvmStep, Now, NowRead
  <2>2. Beat' = "taken"
    BY <1>5, <1>6, <2>1 DEF Beat
  <2>3. BusInv'
    BY <1>3, <1>5, <1>6, <2>1, <2>2, SameWriting DEF BusInv
  <2>4. QED
    BY <1>1, <1>5, <1>6, <2>1, <2>2, <2>3 DEF AccessStep
<1>7. CASE Beat = "taken"
  <2>1. /\ awvalid' = awvalid /\ wvalid' = awvalid' /\ arvalid' = arvalid
        /\ awready' = 0 /\ wready' = 0 /\ arready' = 0 /\ bready' = 0 /\ rready' = 0
        /\ Writing => bvalid' = 1 /\ rvalid' = 0 /\ aw_en' = 0
        /\ ~Writing => bvalid' = 0 /\ rvalid' = 1 /\ aw_en' = 1
        /\ stage' = "hand"
    BY <1>1, <1>2, <1>5, <1>7 DEF DutStep, UvmStep, Now, NowRead
  <2>2. Beat' = "held"
    BY <1>5, <1>7, <2>1 DEF Beat
  <2>3. BusInv'
    BY <1>3, <1>5, <1>7, <2>1, <2>2, SameWriting DEF BusInv
  <2>4. QED
    BY <1>1, <1>5, <1>7, <2>1, <2>2, <2>3 DEF AccessStep
<1>8. CASE Beat = "held"
  <2>1. /\ awvalid' = 0 /\ wvalid' = 0 /\ arvalid' = 0 /\ awready' = 0 /\ wready' = 0
        /\ Writing => bvalid' = 1 /\ rvalid' = 0 /\ aw_en' = 0 /\ arready' = 0 /\ bready' = 1
                      /\ rready' = 0
        /\ ~Writing => bvalid' = 0 /\ rvalid' = 1 /\ aw_en' = 1 /\ arready' = 1 /\ bready' = 0
                       /\ rready' = 1 /\ araddr' = ReadOf[op] /\ got' = rdata /\ rdata' = rdata
        /\ stage' = "last"
    BY <1>1, <1>2, <1>5, <1>8 DEF DutStep, UvmStep, Now, NowRead
  <2>2. Beat' = "last"
    BY <1>5, <1>8, <2>1 DEF Beat
  <2>3. BusInv'
    BY <1>3, <1>5, <1>8, <2>1, <2>2, SameWriting DEF BusInv
  <2>4. QED
    BY <1>1, <1>5, <1>8, <2>1, <2>2, <2>3 DEF AccessStep
<1>9. CASE Beat = "last"
  <2>1. stage = "last"
    BY <1>9 DEF UvmInv
  <2>2. /\ awvalid' = 0 /\ wvalid' = 0 /\ arvalid' = 0 /\ awready' = 0 /\ wready' = 0
        /\ bvalid' = 0 /\ rvalid' = 0 /\ aw_en' = 1 /\ arready' = 0 /\ bready' = 0 /\ rready' = 0
        /\ stage' = (IF op = "read" THEN "load" ELSE "begin")
    BY <1>1, <1>2, <1>9, <2>1 DEF DutStep, UvmStep, Now, NowRead
  <2>3. Beat' = "rest"
    BY <2>2 DEF Beat
  <2>4. BusInv'
    BY <1>3, <2>2, <2>3 DEF BusInv
  <2>5. op' = Following(rdata)
        /\ IF op = "read" THEN item' \in Items /\ finished' = <<item>>
                          ELSE UNCHANGED <<item, finished>>
    BY <1>2, <1>3, <1>9 DEF UvmStep
  <2>6. QED
    BY <1>1, <1>9, <2>2, <2>3, <2>4, <2>5 DEF AccessStep
<1>10. QED
  BY <1>4, <1>6, <1>7, <1>8, <1>9, Signals

(* The threads of the access and their timeout counters. *)
LEMMA UvmThreads ==
    ASSUME Source, Uvm, TypeInv, BusInv, UvmInv, U!Clock, bench' = bench
    PROVE  /\ hand' \in [U!Channels -> {"poll", "last", "idle"}]
           /\ waited' \in [U!Channels \cup {"answer"} -> 0..2]
           /\ waited'["answer"] = 0
           /\ stage' # "hand" => hand' = [c \in U!Channels |-> "idle"]
           /\ stage' = "hand" =>
                \A c \in U!Channels :
                   IF Writing' <=> c # "ar"
                   THEN waited'[c] = Waits[Beat'] /\ hand'[c] = (IF Beat' = "held" THEN "last" ELSE "poll")
                   ELSE waited'[c] = 0 /\ hand'[c] = "idle"
<1>1. /\ hand \in [U!Channels -> {"poll", "last", "idle"}]
      /\ waited \in [U!Channels \cup {"answer"} -> 0..2] /\ waited["answer"] = 0
      /\ "answer" \notin U!Channels
      /\ stage # "hand" => hand = [c \in U!Channels |-> "idle"]
  BY UvmChannels DEF TypeInv, UvmInv
<1>2. /\ Waits["ask"] = 0 /\ Waits["taken"] = 1 /\ Waits["held"] = 2
  BY DEF Waits
<1>3. /\ Beat' = (IF stage' \in {"warm", "load", "begin"} THEN "rest"
                  ELSE IF stage' = "last" THEN "last"
                  ELSE IF stage = "begin" THEN "ask"
                  ELSE IF Beat = "ask" THEN "taken" ELSE "held")
      /\ UvmStep
  BY UvmAccess, UvmSteps DEF U!Clock
<1>4. op' = op => (Writing' <=> Writing)
  BY SameWriting
<1>5. CASE U!WarmStep \/ U!LoadStep \/ U!LastStep
  <2>1. UNCHANGED <<hand, waited>> /\ stage # "hand" /\ stage' # "hand"
    BY <1>5, UvmRests, UvmEnds DEF U!WarmStep, U!LoadStep, U!LastStep
  <2>2. QED
    BY <1>1, <2>1
<1>6. CASE U!BeginStep
  <2>1. /\ stage = "begin" /\ stage' = "hand" /\ Beat' = "ask" /\ (Writing' <=> Writing)
        /\ waited' = [c \in U!Channels \cup {"answer"} |-> 0]
        /\ hand' = [c \in U!Channels |-> IF Writing <=> c # "ar" THEN "poll" ELSE "idle"]
    BY <1>3, <1>4, <1>6, UvmBegins DEF U!BeginStep
  <2>2. QED
    BY <1>1, <1>2, <2>1
<1>7. CASE U!HandStep
  <2>1. /\ stage = "hand" /\ Beat \in {"ask", "taken", "held"}
        /\ waited' = [c \in U!Channels \cup {"answer"} |->
                        IF (Writing <=> c # "ar") /\ c # "answer" /\ Beat # "held"
                        THEN Waits[Beat] + 1 ELSE waited[c]]
        /\ hand' = [c \in U!Channels |->
                        IF (Writing <=> c # "ar") /\ Beat # "held"
                        THEN IF Beat = "taken" THEN "last" ELSE "poll"
                        ELSE "idle"]
        /\ op' = op /\ (Writing' <=> Writing)
        /\ stage' = (IF Beat = "held" THEN "last" ELSE "hand")
    BY <1>3, <1>4, <1>7, UvmHands, Signals DEF U!HandStep, UvmInv, UvmStep
  <2>2. \A c \in U!Channels : ~(Writing <=> c # "ar") => waited[c] = 0
    BY <2>1 DEF UvmInv
  <2>3. CASE Beat = "held"
    BY <1>1, <1>2, <2>1, <2>3
  <2>4. CASE Beat # "held"
    <3>1. stage' = "hand" /\ Beat' = (IF Beat = "ask" THEN "taken" ELSE "held")
      BY <1>3, <2>1, <2>4
    <3>2. Waits[Beat] + 1 = Waits[Beat'] /\ Waits[Beat'] \in 0..2
      BY <1>2, <2>1, <2>4, <3>1
    <3>3. QED
      BY <1>1, <2>1, <2>2, <2>4, <3>1, <3>2
  <2>5. QED
    BY <2>3, <2>4
<1>8. ~U!AnswerStep
  BY DEF U!AnswerStep, UvmInv
<1>9. U!Driver
  BY DEF U!Clock
<1>10. QED
  BY <1>5, <1>6, <1>7, <1>8, <1>9 DEF U!Driver

(* The driver's place follows from the signals, and the slave has the reply *)
(* of the item.                                                             *)
LEMMA UvmNext ==
    ASSUME Source, Uvm, TypeInv, BusInv, UvmInv, U!Clock,
           UNCHANGED <<bench, l_stage, temp_tx>>
    PROVE  UvmInv'
<1>1. /\ Beat' = (IF stage' \in {"warm", "load", "begin"} THEN "rest"
                  ELSE IF stage' = "last" THEN "last"
                  ELSE IF stage = "begin" THEN "ask"
                  ELSE IF Beat = "ask" THEN "taken" ELSE "held")
      /\ UvmStep
  BY UvmAccess, UvmSteps DEF U!Clock
<1>2. warm \in 0..10 /\ (stage = "warm" => warm < 10)
  BY DEF TypeInv, UvmInv
<1>3. stage' \in {"warm", "load", "begin", "hand", "last"}
  BY <1>1, Signals DEF UvmStep, UvmInv
<1>4. /\ stage' \in {"warm", "load", "begin"} <=> Beat' = "rest"
      /\ stage' = "last" <=> Beat' = "last"
  BY <1>1, <1>3
<1>5. stage' \in {"warm", "load"} => op' = "tx"
  BY <1>1, Signals DEF UvmStep, UvmInv, Following
<1>6. stage' = "warm" => warm' < 10
  BY <1>1, <1>2, Signals DEF UvmStep, UvmInv
<1>7. stage' # "warm" => s_tx_data' = item'.s
  BY <1>1, <1>2, Signals DEF UvmStep, UvmInv
<1>8. QED
  BY <1>3, <1>4, <1>5, <1>6, <1>7, UvmThreads DEF UvmInv

-----------------------------------------------------------------------------
(* The loopback bench: READY comes with the first edge after VALID, and the *)
(* answer with the edge at which VALID falls.                               *)
LEMMA LoopbackAccess ==
    ASSUME Source, ~Uvm, TypeInv, BusInv, LoopbackInv, L!Clock,
           UNCHANGED <<bench, stage>>
    PROVE  AccessStep /\ BusInv' /\ LoopbackInv'
<1>1. DutStep(mosi)
  BY SameDut, DutSteps DEF L!Clock, Source
<1>2. Uvm' = Uvm /\ bench' = bench /\ stage = "warm" /\ stage' = "warm"
  BY DEF Uvm, LoopbackInv
<1>3. /\ L!Taken <=> (IF Writing THEN awready = 1 /\ wready = 1 ELSE arready = 1)
      /\ L!Answered <=> (IF Writing THEN bvalid = 1 ELSE rvalid = 1)
  BY SameAccess DEF L!Taken, L!Answered
<1>4. /\ L!Taken' <=> (IF Writing' THEN awready' = 1 /\ wready' = 1 ELSE arready' = 1)
      /\ L!Answered' <=> (IF Writing' THEN bvalid' = 1 ELSE rvalid' = 1)
  BY DEF L!Taken, L!Answered, L!Writing, L!WriteOf, L!StartWord, L!StopWord, L!Reg,
         Writing, WriteOf, StartWord, StopWord, Reg
<1>5. Beat # "held" /\ l_stage = (CASE Beat = "rest" -> "begin" [] Beat = "ask" -> "ready"
                                    [] Beat = "taken" -> "drop" [] Beat = "last" -> "last")
  BY DEF LoopbackInv, BusInv
<1>6. L!Driver
  BY DEF L!Clock
<1>7. CASE Beat = "rest"
  <2>1. /\ awvalid = 0 /\ wvalid = 0 /\ bready = 0 /\ arvalid = 0 /\ rready = 0
        /\ awready = 0 /\ wready = 0 /\ arready = 0 /\ bvalid = 0 /\ rvalid = 0 /\ aw_en = 1
        /\ L!BeginStep
    BY <1>5, <1>6, <1>7, Signals
    DEF BusInv, Beat, L!Driver, L!BeginStep, L!ReadyStep, L!AnswerStep, L!LastStep
  <2>2. /\ UNCHANGED <<op, item, finished>> /\ (Writing' <=> Writing)
        /\ awready' = 0 /\ wready' = 0 /\ arready' = 0 /\ bvalid' = 0 /\ rvalid' = 0
        /\ aw_en' = 1
    BY <1>1, <1>7, <2>1, SameWriting DEF L!BeginStep, DutStep, Now, NowRead
  <2>31. /\ awvalid' = (IF Writing THEN 1 ELSE 0) /\ wvalid' = awvalid' /\ bready' = awvalid'
        /\ arvalid' = (IF ~Writing THEN 1 ELSE 0) /\ rready' = arvalid'
    BY <2>1, SameAccess DEF L!BeginStep
  <2>32. ~L!Taken /\ ~L!Taken'
    BY <1>3, <1>4, <2>1, <2>2
  <2>3. Beat' = "ask" /\ l_stage' = "ready"
    BY <2>1, <2>2, <2>31, <2>32 DEF Beat, L!BeginStep
  <2>4. BusInv'
    BY <1>2, <2>2, <2>31, <2>3 DEF BusInv
  <2>5. QED
    BY <1>1, <1>2, <1>7, <2>2, <2>3, <2>4 DEF AccessStep, LoopbackInv
<1>8. Beat \in {"ask", "taken"} =>
        /\ awvalid = (IF Writing THEN 1 ELSE 0) /\ wvalid = awvalid /\ bready = awvalid
        /\ arvalid = (IF Writing THEN 0 ELSE 1) /\ rready = arvalid
        /\ Writing => arready = 0 /\ rvalid = 0
        /\ ~Writing => awready = 0 /\ bvalid = 0
  BY <1>2, Signals DEF BusInv, Beat
<1>9. CASE Beat = "ask"
  <2>1. L!ReadyStep
    BY <1>5, <1>6, <1>9 DEF L!Driver, L!BeginStep, L!ReadyStep, L!AnswerStep, L!LastStep
  <2>2. /\ UNCHANGED <<op, item, got, finished, awvalid, wvalid, bready, arvalid, rready>>
        /\ (Writing' <=> Writing)
        /\ Writing => WriteOf'[op'].addr = WriteOf[op].addr
        /\ bvalid' = 0 /\ rvalid' = 0 /\ wready' = awready'
        /\ Writing => /\ awready' = 1 /\ aw_en' = 0 /\ arready' = 0 /\ awaddr' = WriteOf[op].addr
        /\ ~Writing => /\ awready' = 0 /\ aw_en' = 1 /\ arready' = 1 /\ araddr' = ReadOf[op]
    BY <1>1, <1>9, <2>1, SameWriting DEF L!ReadyStep, L!busSignals, DutStep, Now, NowRead
  <2>3. Beat' = "taken" /\ l_stage' = "drop"
    BY <1>4, <1>8, <1>9, <2>1, <2>2 DEF Beat, L!ReadyStep
  <2>4. BusInv'
    BY <1>2, <1>8, <1>9, <2>2, <2>3, SameWriting DEF BusInv
  <2>5. QED
    BY <1>1, <1>2, <1>9, <2>2, <2>3, <2>4 DEF AccessStep, LoopbackInv
<1>10. CASE Beat = "taken"
  <2>1. L!AnswerStep
    BY <1>5, <1>6, <1>10 DEF L!Driver, L!BeginStep, L!ReadyStep, L!AnswerStep, L!LastStep
  <2>2. /\ UNCHANGED <<op, item, finished, bready, rready>>
        /\ awvalid' = 0 /\ wvalid' = 0 /\ arvalid' = 0 /\ (Writing' <=> Writing)
        /\ awready' = 0 /\ wready' = 0 /\ arready' = 0
        /\ Writing => bvalid' = 1 /\ rvalid' = 0 /\ aw_en' = 0
        /\ ~Writing => bvalid' = 0 /\ rvalid' = 1 /\ aw_en' = 1
    BY <1>1, <1>10, <2>1, SameWriting DEF L!AnswerStep, DutStep, Now, NowRead
  <2>3. L!Answered' /\ (~Writing => ~L!Answered)
    BY <1>3, <1>4, <1>8, <1>10, <2>2, Signals DEF Beat
  <2>4. Beat' = "last" /\ l_stage' = "last" /\ (~Writing => got' = rdata')
    BY <1>8, <1>10, <2>1, <2>2, <2>3, SameAccess DEF Beat, L!AnswerStep
  <2>5. BusInv'
    BY <1>2, <1>8, <1>10, <2>2, <2>4, SameWriting DEF BusInv
  <2>6. QED
    BY <1>1, <1>2, <1>10, <2>2, <2>4, <2>5 DEF AccessStep, LoopbackInv
<1>11. CASE Beat = "last"
  <2>1. L!LastStep
    BY <1>5, <1>6, <1>11 DEF L!Driver, L!BeginStep, L!ReadyStep, L!AnswerStep, L!LastStep
  <2>2. awvalid = 0 /\ wvalid = 0 /\ arvalid = 0
    BY <1>11, Signals DEF BusInv, Beat
  <2>3. /\ awvalid' = 0 /\ wvalid' = 0 /\ arvalid' = 0 /\ awready' = 0 /\ wready' = 0
        /\ bvalid' = 0 /\ rvalid' = 0 /\ aw_en' = 1 /\ arready' = 0 /\ bready' = 0 /\ rready' = 0
        /\ l_stage' = "begin"
    BY <1>1, <1>11, <2>1, <2>2 DEF L!LastStep, DutStep, Now, NowRead
  <2>4. Beat' = "rest"
    BY <2>3 DEF Beat
  <2>5. BusInv'
    BY <1>2, <2>3, <2>4 DEF BusInv
  <2>6. op = "poll" => got = rdata
    <3>1. op = "poll" => ~Writing
      BY Accesses
    <3>2. QED
      BY <1>11, <3>1 DEF BusInv
  <2>7. op' = Following(rdata)
        /\ IF op = "read" THEN item' \in Items /\ finished' = <<item>>
                          ELSE UNCHANGED <<item, finished>>
    BY <2>1, <2>6, Signals, SameAccess DEF L!LastStep, L!Return, Following
  <2>8. QED
    BY <1>1, <1>2, <1>11, <2>3, <2>4, <2>5, <2>7 DEF AccessStep, LoopbackInv
<1>12. QED
  BY <1>5, <1>7, <1>9, <1>10, <1>11, Signals

-----------------------------------------------------------------------------
(* What the peripheral makes of its registers: mode 0, the divider of the   *)
(* drivers during a frame, and the start bit while it is up.                *)
LEMMA Wires ==
    ASSUME W = 8, TypeInv, RegInv
    PROVE  /\ cpol = 0 /\ cpha = 0 /\ clk_div \in {0, 4}
           /\ slv_reg[0] # Axi!Cleared => clk_div = 4
           /\ start = (IF Started THEN 1 ELSE 0)
           /\ slv_reg[1][0] \in 0..255 /\ tx_data \in Word
<1>1. slv_reg[0] \in {Axi!Cleared, StartWord, StopWord}
  BY DEF RegInv
<1>2. slv_reg[0][0] = 0 /\ slv_reg[0][1] \in {0, 4} /\ (slv_reg[0] # Axi!Cleared => slv_reg[0][1] = 4)
  BY <1>1, ControlWords
<1>3. slv_reg[0][3] = (IF Started THEN 128 ELSE 0)
  BY <1>1, ControlWords DEF RegInv
<1>4. slv_reg[1] \in [0..3 -> 0..255]
  BY Bytes DEF TypeInv, Axi!AxiTypeOK, Axi!Regs
<1>5. slv_reg[1][0] \in 0..255 /\ tx_data \in Word
  BY <1>4, BitsOfWord DEF tx_data
<1>6. QED
  BY <1>2, <1>3, <1>5, Bytes DEF cpol, cpha, clk_div, start

(* A frame runs with the divider of the drivers. *)
LEMMA Framed ==
    ASSUME W = 8, TypeInv, BusInv, RegInv, FrameInv, state # "IDLE"
    PROVE  /\ op = "stop" \/ op = "poll" \/ (op = "start" /\ Uvm /\ Beat = "last" /\ state = "START")
           /\ clk_div = 4
<1>1. op = "stop" \/ op = "poll" \/ (op = "start" /\ Uvm /\ Beat = "last" /\ state = "START")
  BY Signals DEF FrameInv
<1>2. op = "start" /\ Beat = "last" => bvalid = 1
  BY Accesses, Signals DEF BusInv, Beat
<1>3. Started \/ Stopped
  BY <1>1, <1>2, Signals DEF Started, Stopped
<1>4. slv_reg[0] \in {StartWord, StopWord}
  BY <1>3 DEF RegInv
<1>5. StartWord # Axi!Cleared /\ StopWord # Axi!Cleared
  BY ControlWords
<1>6. QED
  BY <1>1, <1>4, <1>5, Wires

(* So the master moves as in phase 0, four clocks to a half tick and one.   *)
LEMMA MasterMoves ==
    ASSUME W = 8, TypeInv, BusInv, RegInv, FrameInv, DividerInv,
           NEW m, DutStep(m)
    PROVE  /\ Phase0(0, tx_data, IF Started THEN 1 ELSE 0, m)
           /\ state # "DATA" => UNCHANGED <<div_cnt, half_tick>>
           /\ state = "DATA" => IF div_cnt = 4 THEN div_cnt' = 0 /\ half_tick' = 1
                                ELSE div_cnt' = div_cnt + 1 /\ half_tick' = 0
<1>1. /\ Divider(clk_div) /\ Fsm(cpol, cpha, tx_data, start, m)
      /\ cpol = 0 /\ cpha = 0 /\ start = (IF Started THEN 1 ELSE 0) /\ clk_div \in {0, 4}
  BY Wires DEF DutStep, MasterEdge
<1>2. Phase0(0, tx_data, IF Started THEN 1 ELSE 0, m)
  <2>1. start \in {0, 1}
    BY <1>1
  <2>2. Phase0(cpol, tx_data, start, m)
    BY <1>1, <2>1, Phase0Steps
  <2>3. QED
    BY <1>1, <2>2
<1>3. CASE state = "DATA"
  <2>1. clk_div = 4 /\ div_cnt <= 4 /\ 4 \in 0..DivMax
    BY <1>3, Framed, Bytes DEF DividerInv
  <2>2. QED
    BY <1>1, <1>2, <1>3, <2>1, DividerSteps DEF TypeInv
<1>4. CASE state # "DATA"
  BY <1>1, <1>2, <1>4 DEF Divider, Divides
<1>5. QED
  BY <1>3, <1>4

(* The signals of the access after the edge. *)
LEMMA Answers ==
    ASSUME TypeInv, BusInv, NEW m, DutStep(m)
    PROVE  /\ bvalid = (IF Writing /\ Beat \in {"held", "last"} THEN 1 ELSE 0)
           /\ rvalid = (IF ~Writing /\ Beat \in {"held", "last"} THEN 1 ELSE 0)
           /\ bvalid' = (IF Writing /\ Beat \in {"taken", "held"} THEN 1 ELSE 0)
           /\ rvalid' = (IF ~Writing /\ Beat \in {"taken", "held"} THEN 1 ELSE 0)
           /\ Writing <=> op \in {"tx", "start", "stop"}
  BY Signals, Accesses DEF BusInv, Beat, DutStep, Now, NowRead

(* The registers hold what the access under way has left in them. *)
LEMMA RegNext ==
    ASSUME W = 8, TypeInv, BusInv, RegInv, AccessStep
    PROVE  RegInv'
<1> DEFINE m == IF Uvm THEN miso ELSE mosi
<1>1. DutStep(m)
  BY DEF AccessStep
<1> HIDE DEF m
<1>2. StartWord' = StartWord /\ StopWord' = StopWord /\ Axi!Cleared' = Axi!Cleared
  BY DEF StartWord, StopWord, Reg, Axi!Cleared
<1>3. StartWord # StopWord /\ StartWord # Axi!Cleared
  BY ControlWords
<1>4. slv_reg \in [0..3 -> [0..3 -> 0..255]]
  BY Bytes DEF TypeInv, Axi!AxiTypeOK, Axi!Regs
<1>5. /\ bvalid = (IF Writing /\ Beat \in {"held", "last"} THEN 1 ELSE 0)
      /\ bvalid' = (IF Writing /\ Beat \in {"taken", "held"} THEN 1 ELSE 0)
      /\ Writing <=> op \in {"tx", "start", "stop"}
  BY <1>1, Answers
<1>6. CASE Beat = "taken" /\ Writing
  <2>1. op' = op /\ item' = item /\ bvalid' = 1 /\ bvalid = 0
    BY <1>5, <1>6 DEF AccessStep
  <2>2. slv_reg' = [slv_reg EXCEPT ![WriteOf[op].addr] = WriteOf[op].data]
    BY <1>1, <1>6 DEF DutStep, Now
  <2>3. CASE op = "tx"
    <3>1. slv_reg'[1] = item.m /\ slv_reg'[0] = slv_reg[0]
      BY <1>4, <2>2, <2>3, Accesses
    <3>2. QED
      BY <1>2, <1>3, <2>1, <2>3, <3>1 DEF RegInv, Started, Stopped
  <2>4. CASE op = "start"
    <3>1. slv_reg'[1] = slv_reg[1] /\ slv_reg'[0] = StartWord
      BY <1>4, <2>2, <2>4, Accesses
    <3>2. QED
      BY <1>2, <1>3, <2>1, <2>4, <3>1 DEF RegInv, Started, Stopped
  <2>5. CASE op = "stop"
    <3>1. slv_reg'[1] = slv_reg[1] /\ slv_reg'[0] = StopWord
      BY <1>4, <2>2, <2>5, Accesses
    <3>2. QED
      BY <1>2, <1>3, <2>1, <2>5, <3>1 DEF RegInv, Started, Stopped
  <2>6. QED
    BY <1>5, <1>6, <2>3, <2>4, <2>5
<1>7. CASE ~(Beat = "taken" /\ Writing)
  <2>1. slv_reg' = slv_reg
    BY <1>1, <1>7 DEF DutStep, Now
  <2>2. CASE Beat = "last"
    <3>1. op' = Following(rdata) /\ bvalid' = 0 /\ (op # "read" => item' = item)
      BY <1>5, <2>2 DEF AccessStep
    <3>2. QED
      BY <1>2, <1>3, <1>5, <2>1, <2>2, <3>1, Signals DEF RegInv, Started, Stopped, Following
  <2>3. CASE Beat # "last"
    <3>1. op' = op /\ item' = item /\ bvalid' = bvalid
      BY <1>5, <1>7, <2>3, Signals DEF AccessStep
    <3>2. QED
      BY <1>2, <2>1, <3>1 DEF RegInv, Started, Stopped
  <2>4. QED
    BY <2>2, <2>3
<1>8. QED
  BY <1>6, <1>7

(* The divider enters the next frame as before. *)
LEMMA DividerNext ==
    ASSUME W = 8, TypeInv, BusInv, RegInv, FrameInv, DividerInv, AccessStep
    PROVE  DividerInv'
<1> DEFINE m == IF Uvm THEN miso ELSE mosi
<1>1. DutStep(m)
  BY DEF AccessStep
<1> HIDE DEF m
<1>2. /\ Phase0(0, tx_data, IF Started THEN 1 ELSE 0, m)
      /\ state # "DATA" => UNCHANGED <<div_cnt, half_tick>>
      /\ state = "DATA" => IF div_cnt = 4 THEN div_cnt' = 0 /\ half_tick' = 1
                           ELSE div_cnt' = div_cnt + 1 /\ half_tick' = 0
  BY <1>1, MasterMoves
<1>3. state \in {"IDLE", "START", "DATA", "STOP"} /\ div_cnt \in Nat /\ half_tick \in {0, 1}
  BY DivMaxAssumption DEF TypeInv, MasterTypeOK
<1>4. QED
  BY <1>2, <1>3 DEF DividerInv, Phase0

(* What the driver reads of the frame is whether it runs. *)
LEMMA BusyRead ==
    ASSUME TypeInv
    PROVE  StillBusy(STATE_REG) <=> busy = 1
<1>1. busy \in {0, 1} /\ done \in {0, 1}
  BY DEF TypeInv, MasterTypeOK
<1>2. STATE_REG[0] = 2 * busy + done
  BY DEF STATE_REG, Reg
<1>3. QED
  BY <1>1, <1>2 DEF StillBusy

(* The frame and the accesses around it. *)
LEMMA FrameNext ==
    ASSUME W = 8, TypeInv, BusInv, RegInv, FrameInv, DividerInv, AccessStep, BusInv'
    PROVE  FrameInv'
<1> DEFINE m == IF Uvm THEN miso ELSE mosi
<1>1. DutStep(m)
  BY DEF AccessStep
<1> HIDE DEF m
<1>2. /\ Phase0(0, tx_data, IF Started THEN 1 ELSE 0, m)
      /\ state # "DATA" => UNCHANGED <<div_cnt, half_tick>>
      /\ state = "DATA" => IF div_cnt = 4 THEN div_cnt' = 0 /\ half_tick' = 1
                           ELSE div_cnt' = div_cnt + 1 /\ half_tick' = 0
  BY <1>1, MasterMoves
<1>3. state \in {"IDLE", "START", "DATA", "STOP"} /\ div_cnt \in Nat
      /\ half_tick \in {0, 1} /\ step \in {0, 1}
  BY DivMaxAssumption DEF TypeInv, MasterTypeOK
<1>4. /\ bvalid = (IF Writing /\ Beat \in {"held", "last"} THEN 1 ELSE 0)
      /\ rvalid = (IF ~Writing /\ Beat \in {"held", "last"} THEN 1 ELSE 0)
      /\ bvalid' = (IF Writing /\ Beat \in {"taken", "held"} THEN 1 ELSE 0)
      /\ rvalid' = (IF ~Writing /\ Beat \in {"taken", "held"} THEN 1 ELSE 0)
      /\ Writing <=> op \in {"tx", "start", "stop"}
      /\ op \in {"tx", "start", "stop", "poll", "read"}
      /\ Beat \in {"rest", "ask", "taken", "held", "last"}
      /\ Beat = "held" => Uvm
  BY <1>1, Answers, Signals DEF BusInv
<1>5. /\ Uvm' = Uvm
      /\ Beat = "rest" => Beat' = "ask" \/ (Beat' = "rest" /\ op = "tx")
      /\ Beat = "ask" => Beat' = "taken"
      /\ Beat = "taken" => Beat' = (IF Uvm THEN "held" ELSE "last")
      /\ Beat = "held" => Beat' = "last"
      /\ Beat = "last" => Beat' = "rest"
      /\ op' = (IF Beat = "last" THEN Following(rdata) ELSE op)
  BY DEF AccessStep, Uvm
<1>6. /\ busy' = (IF state' = "IDLE" THEN 0 ELSE 1) /\ cs_n' = 1 - busy'
      /\ done' = 1 => state' = "IDLE"
      /\ state' = "START" => bit_cnt' = 0 /\ step' = 0
  BY <1>2, <1>3 DEF FrameInv, Phase0
<1>7. state = "IDLE" /\ ~Started => state' = "IDLE"
  BY <1>2 DEF Phase0
<1>8. op' \in {"tx", "read"} => state' = "IDLE"
  BY <1>4, <1>5, <1>7 DEF FrameInv, Following, Started
<1>9. op' = "start" =>
         state' = IF Uvm' /\ Beat' = "last" THEN "START" ELSE "IDLE"
  <2>1. CASE op = "start" /\ Beat # "last"
    <3>1. state = "IDLE" /\ (Started <=> Beat = "held")
      BY <1>4, <2>1 DEF FrameInv, Started
    <3>2. state' = IF Beat = "held" THEN "START" ELSE "IDLE"
      BY <1>2, <3>1 DEF Phase0
    <3>3. QED
      BY <1>4, <1>5, <2>1, <3>2
  <2>2. CASE op = "tx" /\ Beat = "last"
    BY <1>4, <1>5, <1>7, <2>2 DEF FrameInv, Started
  <2>3. QED
    BY <1>4, <1>5, <2>1, <2>2 DEF Following
<1>10. op' = "stop" /\ bvalid' = 0 =>
         IF Uvm' \/ Beat' # "rest"
         THEN /\ state' = "DATA" /\ bit_cnt' = 0 /\ step' = 0 /\ half_tick' = 0
              /\ div_cnt' <= Over[Beat'] + (IF Uvm' THEN 1 ELSE 0)
         ELSE state' = "START"
  <2>1. Over["rest"] = 0 /\ Over["ask"] = 1 /\ Over["taken"] = 2
    BY DEF Over
  <2>2. CASE op = "start" /\ Beat = "last"
    <3>1. Started /\ Beat' = "rest" /\ state = IF Uvm THEN "START" ELSE "IDLE"
      BY <1>4, <1>5, <2>2 DEF FrameInv, Started
    <3>2. CASE Uvm
      BY <1>2, <1>5, <2>1, <3>1, <3>2 DEF FrameInv, DividerInv, Phase0
    <3>3. CASE ~Uvm
      BY <1>2, <1>5, <3>1, <3>3 DEF Phase0
    <3>4. QED
      BY <3>2, <3>3
  <2>3. CASE op = "stop" /\ Beat \in {"rest", "ask"}
    <3>1. bvalid = 0 /\ Beat' = (IF Beat = "rest" THEN "ask" ELSE "taken")
      BY <1>4, <1>5, <2>3
    <3>2. CASE Uvm \/ Beat = "ask"
      <4>1. state = "DATA" /\ bit_cnt = 0 /\ step = 0 /\ half_tick = 0
            /\ div_cnt <= Over[Beat] + (IF Uvm THEN 1 ELSE 0)
        BY <2>3, <3>1, <3>2 DEF FrameInv
      <4>2. div_cnt < 4 /\ Over[Beat'] = Over[Beat] + 1 /\ Over[Beat] \in {0, 1}
        BY <1>3, <2>1, <2>3, <3>1, <4>1
      <4>3. state' = "DATA" /\ bit_cnt' = 0 /\ step' = 0 /\ half_tick' = 0
            /\ div_cnt' = div_cnt + 1
        BY <1>2, <1>3, <4>1, <4>2 DEF Phase0
      <4>4. QED
        BY <1>3, <1>5, <3>1, <4>1, <4>2, <4>3
    <3>3. CASE ~Uvm /\ Beat = "rest"
      <4>1. state = "START" /\ bit_cnt = 0 /\ step = 0 /\ half_tick = 0 /\ div_cnt \in {0, 1}
        BY <2>3, <3>1, <3>3 DEF FrameInv, DividerInv
      <4>2. QED
        BY <1>2, <1>5, <2>1, <3>1, <3>3, <4>1 DEF Phase0
    <3>4. QED
      BY <2>3, <3>2, <3>3
  <2>4. QED
    BY <1>4, <1>5, <2>2, <2>3 DEF Following
<1>11. op' = "poll" /\ rvalid' = 1 /\ ~StillBusy(rdata') => state' = "IDLE"
  <2> SUFFICES ASSUME op' = "poll", rvalid' = 1, ~StillBusy(rdata')
               PROVE  state' = "IDLE"
    OBVIOUS
  <2>1. op = "poll" /\ Beat \in {"taken", "held"} /\ ~Started
    BY <1>4, <1>5 DEF Started
  <2>2. CASE Beat = "taken"
    <3>1. rdata' = STATE_REG
      BY <1>1, <1>4, <2>1, <2>2 DEF DutStep, NowRead
    <3>2. busy # 1
      BY <3>1, BusyRead
    <3>3. QED
      BY <1>7, <2>1, <3>2 DEF FrameInv
  <2>3. CASE Beat = "held"
    <3>1. rdata' = rdata
      BY <1>1, <2>3 DEF DutStep, NowRead
    <3>2. QED
      BY <1>4, <1>7, <2>1, <2>3, <3>1 DEF FrameInv
  <2>4. QED
    BY <2>1, <2>2, <2>3
<1>12. Over' = Over
  BY DEF Over
<1>13. QED
  BY <1>6, <1>8, <1>9, <1>10, <1>11, <1>12 DEF FrameInv, StillBusy

-----------------------------------------------------------------------------
(* The line of the UVM bench, by the names of SPILink. *)
LEMMA SameLine ==
    /\ Line!MasterTypeOK = MasterTypeOK /\ Line!S!SlaveTypeOK = U!S!SlaveTypeOK
    /\ Line!Word = Word
    /\ \A w, b : Line!ShiftIn(w, b) = ShiftIn(w, b) /\ Line!Msb(w) = Msb(w)
  BY DEF Line!MasterTypeOK, MasterTypeOK, Line!S!SlaveTypeOK, U!S!SlaveTypeOK, Line!Word, Word,
         Line!S!Word, U!S!Word, Line!S!Bit, U!S!Bit, Line!Bit, Line!ShiftIn, ShiftIn,
         Line!Msb, Msb

(* The bench and SPILink_proofs speak of the same master. *)
LEMMA SameMasterEdge ==
    ASSUME MasterEdge(cpol, cpha, clk_div, tx_data, start, miso)
    PROVE  Line!MasterEdge(cpol, cpha, clk_div, tx_data, start, miso)
  BY DEF MasterEdge, Divider, Divides, DivMatch, Fsm, IdleEdge, IdleOutputs,
         StartEdge, WaitEdge, LeadingEdge, TrailingEdge, LastEdge, LastBit, Received,
         StopEdge, StopOutputs, Drive, Sample, ShiftIn, Msb,
         Line!MasterEdge, Line!Divider, Line!Divides, Line!DivMatch, Line!Fsm,
         Line!IdleEdge, Line!IdleOutputs, Line!StartEdge, Line!WaitEdge,
         Line!LeadingEdge, Line!TrailingEdge, Line!LastEdge, Line!LastBit,
         Line!Received, Line!StopEdge, Line!StopOutputs, Line!Drive, Line!Sample,
         Line!ShiftIn, Line!Msb

(* And of the same slave. *)
LEMMA SameSlaveEdge ==
    ASSUME U!S!SlaveEdge(sclk_r, mosi, cs_n, U!BitsOf(s_tx_data), 0, 0)
    PROVE  Line!S!SlaveEdge(sclk_r, mosi, cs_n, BitsOf(s_tx_data), 0, 0)
  BY DEF U!BitsOf, BitsOf,
         U!S!SlaveEdge, U!S!Synchronise, U!S!SIdleEdge, U!S!SDataEdge, U!S!SStopEdge,
         U!S!SReceive, U!S!STransmit, U!S!LastRxBit, U!S!rx_edge, U!S!tx_edge,
         U!S!sclk_pose, U!S!sclk_neg, U!S!ShiftIn, U!S!Msb, U!S!Zero,
         Line!S!SlaveEdge, Line!S!Synchronise, Line!S!SIdleEdge, Line!S!SDataEdge,
         Line!S!SStopEdge, Line!S!SReceive, Line!S!STransmit, Line!S!LastRxBit,
         Line!S!rx_edge, Line!S!tx_edge, Line!S!sclk_pose, Line!S!sclk_neg,
         Line!S!ShiftIn, Line!S!Msb, Line!S!Zero

(* So a clock edge of that bench is one of SPILink's line. *)
LEMMA LineEdge ==
    ASSUME Uvm, AccessStep, U!Clock
    PROVE  Line!LineEdge
<1>1. MasterEdge(cpol, cpha, clk_div, tx_data, start, miso)
  BY DEF AccessStep, DutStep
<1>2. U!S!SlaveEdge(sclk_r, mosi, cs_n, U!BitsOf(s_tx_data), 0, 0)
  BY DEF U!Clock
<1>3. QED
  BY <1>1, <1>2, SameMasterEdge, SameSlaveEdge DEF Line!LineEdge

(* The assumptions the proofs about SPILink rest on. *)
LEMMA LineParameters ==
    ASSUME W = 8
    PROVE  /\ W \in Nat \ {0} /\ DivMax \in Nat
           /\ {0} \subseteq Line!Bit /\ 0 \in Line!Bit /\ {4} \subseteq 0..DivMax
           /\ {} \subseteq Line!Word
  BY Bytes, WidthAssumption, DivMaxAssumption DEF Line!Bit

(* A step of the UVM bench keeps the slave's registers in their ranges. *)
LEMMA SlaveType ==
    ASSUME Source, Uvm, TypeInv, AccessStep, U!Clock
    PROVE  U!S!SlaveTypeOK'
<1>1. Line!LineEdge
  BY LineEdge
<1>2. Line!MasterTypeOK /\ Line!S!SlaveTypeOK
  BY SameLine DEF TypeInv
<1>3. BitsOf(s_tx_data) \in Line!Word
  <2>1. W = 8 /\ s_tx_data \in ByteValues
    BY DEF TypeInv, Source
  <2>2. s_tx_data \in Nat
    BY <2>1, Bytes
  <2>3. BitsOf(s_tx_data) \in Word
    BY <2>1, <2>2, BitsOfWord
  <2>4. QED
    BY <2>3 DEF Line!Word, Line!Bit, Word
<1>4. Line!S!SlaveTypeOK'
  BY <1>1, <1>2, <1>3, LineParameters, Line!SlaveType DEF Source
<1>5. QED
  BY <1>4 DEF Line!S!SlaveTypeOK, U!S!SlaveTypeOK, Line!S!Word, U!S!Word, Line!S!Bit, U!S!Bit

-----------------------------------------------------------------------------
(* The peripheral's registers keep their ranges. *)
LEMMA DutType ==
    ASSUME W = 8, TypeInv, BusInv, RegInv, AccessStep
    PROVE  MasterTypeOK' /\ Axi!AxiTypeOK'
<1> DEFINE m == IF Uvm THEN miso ELSE mosi
<1>1. DutStep(m)
  BY DEF AccessStep
<1>2. m \in Bit
  BY DEF TypeInv, MasterTypeOK, U!S!SlaveTypeOK, U!S!Bit
<1> HIDE DEF m
<1>3. MasterTypeOK'
  <2>1. cpol \in Bit /\ tx_data \in Word
    BY Wires
  <2>2. MasterEdge(cpol, cpha, clk_div, tx_data, start, m) /\ MasterTypeOK
    BY <1>1 DEF DutStep, TypeInv
  <2>3. QED
    BY <1>2, <2>1, <2>2, EdgeType
<1>4. item \in Items /\ Axi!RegWord = [0..3 -> 0..255] /\ Axi!Regs = 0..3 /\ Axi!Flag = {0, 1}
      /\ slv_reg \in [0..3 -> [0..3 -> 0..255]] /\ rdata \in [0..3 -> 0..255]
      /\ awaddr \in 0..3 /\ araddr \in 0..3
  BY Bytes DEF TypeInv, Axi!AxiTypeOK, Axi!Regs, Axi!Flag
<1>5. /\ awready' \in {0, 1} /\ aw_en' \in {0, 1} /\ wready' \in {0, 1} /\ bvalid' \in {0, 1}
      /\ arready' \in {0, 1} /\ rvalid' \in {0, 1}
  BY <1>1 DEF DutStep
<1>6. ASSUME Writing PROVE WriteOf[op].addr \in {0, 1} /\ WriteOf[op].data \in [0..3 -> 0..255]
  BY <1>4, <1>6, WrittenWord, Accesses
<1>7. ASSUME ~Writing PROVE ReadOf[op] \in {2, 3}
  BY <1>7, Accesses, Signals
<1>8. awaddr' \in 0..3 /\ araddr' \in 0..3
  BY <1>1, <1>4, <1>6, <1>7 DEF DutStep, Now, NowRead
<1>9. slv_reg' \in [0..3 -> [0..3 -> 0..255]]
  BY <1>1, <1>4, <1>6 DEF DutStep, Now
<1>10. rdata' \in [0..3 -> 0..255]
  <2>1. 2 * busy + done \in 0..255
    BY DEF TypeInv, MasterTypeOK
  <2>2. NumberOf(rx_data) \in 0..255
    BY NumberOfByte, Bytes DEF TypeInv, MasterTypeOK
  <2>3. ASSUME NEW n \in 0..255 PROVE Reg(n, 0, 0, 0) \in [0..3 -> 0..255]
    <3>1. \A lane \in 0..3 : <<n, 0, 0, 0>>[lane + 1] \in 0..255
      OBVIOUS
    <3>2. QED
      BY <3>1 DEF Reg
  <2>4. STATE_REG \in [0..3 -> 0..255] /\ RX_REG \in [0..3 -> 0..255]
    BY <2>1, <2>2, <2>3 DEF STATE_REG, RX_REG
  <2>5. QED
    BY <1>1, <1>4, <2>4 DEF DutStep
<1>11. Axi!RegWord' = [0..3 -> 0..255] /\ Axi!Regs' = 0..3 /\ Axi!Flag' = {0, 1}
  BY <1>4
<1>12. Axi!AxiTypeOK'
  BY <1>4, <1>5, <1>8, <1>9, <1>10 DEF Axi!AxiTypeOK
<1>13. QED
  BY <1>3, <1>12

(* Item, access and history. *)
LEMMA AccessType ==
    ASSUME W = 8, TypeInv, AccessStep
    PROVE  /\ bench' \in {"uvm", "loopback"} /\ op' \in Ops /\ item' \in Items
           /\ finished' = <<>> \/ \E i \in Items : finished' = <<i>>
<1>1. op' \in Ops
  BY Signals DEF AccessStep, Following, Ops
<1>2. QED
  BY <1>1 DEF AccessStep, TypeInv

(* What an item holds. *)
LEMMA ItemBytes ==
    ASSUME W = 8, NEW i \in Items
    PROVE  i.m[0] \in ByteValues /\ i.s \in ByteValues
  BY ItemsAssumption, Bytes

(* Every range but those of the driver, after a clock of the UVM bench. *)
LEMMA UvmType ==
    ASSUME Source, Uvm, TypeInv, BusInv, RegInv, UvmInv, U!Clock,
           UNCHANGED <<bench, l_stage, temp_tx>>
    PROVE  TypeInv'
<1>1. W = 8 /\ AccessStep /\ UvmStep
  BY UvmAccess, UvmSteps DEF Source, U!Clock
<1>2. MasterTypeOK' /\ Axi!AxiTypeOK' /\ U!S!SlaveTypeOK'
  BY <1>1, DutType, SlaveType
<1>3. /\ awvalid' \in Bit /\ wvalid' \in Bit /\ bready' \in Bit
      /\ arvalid' \in Bit /\ rready' \in Bit
  BY <1>1 DEF UvmStep
<1>4. got \in Axi!RegWord /\ rdata \in Axi!RegWord
  BY DEF TypeInv, Axi!AxiTypeOK
<1>5. got' \in Axi!RegWord
  BY <1>1, <1>4 DEF UvmStep
<1>6. item \in Items /\ item' \in Items
  BY <1>1, AccessType DEF TypeInv
<1>7. s_tx_data' \in ByteValues /\ warm' \in 0..10
  <2>1. warm \in 0..10 /\ (stage = "warm" => warm < 10) /\ s_tx_data \in ByteValues
    BY DEF TypeInv, UvmInv
  <2>2. QED
    BY <1>1, <1>6, <2>1, ItemBytes DEF UvmStep
<1>8. temp_m_tx' \in ByteValues /\ temp_s_tx' \in ByteValues
  BY <1>1, <1>6, ItemBytes DEF U!Clock, U!Monitor, TypeInv
<1>9. cur_araddr' \in 0..3
  <2>1. arvalid = 1 => ReadOf[op] \in 0..3
    BY Accesses, Signals DEF BusInv
  <2>2. QED
    BY <2>1, SameAccess DEF U!Clock, U!Monitor, TypeInv
<1>10. failed' \in BOOLEAN
  BY DEF U!Clock, U!Monitor, U!Score
<1>11. QED
  BY <1>1, <1>2, <1>3, <1>5, <1>7, <1>8, <1>9, <1>10, AccessType, UvmThreads
  DEF TypeInv

(* And after a clock of the loopback bench. *)
LEMMA LoopbackType ==
    ASSUME Source, ~Uvm, TypeInv, BusInv, RegInv, LoopbackInv, L!Clock,
           UNCHANGED <<uvmVars, bench>>
    PROVE  TypeInv'
<1>1. W = 8 /\ AccessStep
  BY LoopbackAccess DEF Source, uvmVars
<1>2. MasterTypeOK' /\ Axi!AxiTypeOK'
  BY <1>1, DutType
<1>3. U!S!SlaveTypeOK'
  BY DEF TypeInv, uvmVars, U!S!SlaveTypeOK
<1>4. /\ awvalid' \in Bit /\ wvalid' \in Bit /\ bready' \in Bit
      /\ arvalid' \in Bit /\ rready' \in Bit
  BY DEF L!Clock, L!Driver, L!BeginStep, L!ReadyStep, L!AnswerStep, L!LastStep, L!busSignals,
         TypeInv
<1>5. got \in Axi!RegWord /\ rdata \in Axi!RegWord /\ rdata' \in Axi!RegWord
  BY <1>2 DEF TypeInv, Axi!AxiTypeOK
<1>6. got' \in Axi!RegWord
  BY <1>5 DEF L!Clock, L!Driver, L!BeginStep, L!ReadyStep, L!AnswerStep, L!LastStep
<1>7. temp_tx' \in ByteValues
  <2>1. L!Notes => WriteOf[op].data[0] \in ByteValues
    <3>1. wvalid = 1 => Writing /\ op \in {"tx", "start", "stop"}
      BY Accesses, Signals DEF BusInv
    <3>2. wvalid = 1 => WriteOf[op].data \in [0..3 -> 0..255]
      BY <1>1, <3>1, WrittenWord DEF TypeInv
    <3>3. QED
      BY <1>1, <3>2, Bytes DEF L!Notes
  <2>2. QED
    BY <2>1, SameAccess DEF L!Clock, L!Monitor, TypeInv
<1>8. failed' \in BOOLEAN
  BY DEF L!Clock, L!Monitor, L!Score
<1>9. UNCHANGED <<s_tx_data, temp_m_tx, temp_s_tx, cur_araddr, warm, hand, waited>>
  BY DEF uvmVars
<1>10. QED
  BY <1>1, <1>2, <1>3, <1>4, <1>6, <1>7, <1>8, <1>9, AccessType DEF TypeInv

-----------------------------------------------------------------------------
(* The monitors.  A call of write() ends a history that is empty, and comes *)
(* with the last read of an item only.                                      *)
LEMMA UvmMonitorNext ==
    ASSUME Source, Uvm, TypeInv, BusInv, UvmInv, UvmMonitorInv, U!Clock,
           UNCHANGED <<bench, l_stage, temp_tx>>
    PROVE  /\ UvmMonitorInv'
           /\ Beat = "last" /\ op = "read" =>
                failed' = (failed \/ ~(item.m[0] = U!NumberOf(s_rx_data) /\ item.s = rdata[0]))
           /\ ~(Beat = "last" /\ op = "read") => failed' = (failed \/ FALSE)
<1>1. DutStep(miso) /\ AccessStep /\ UvmStep
  BY UvmAccess, UvmSteps DEF U!Clock, AccessStep
<1>2. /\ bvalid = (IF Writing /\ Beat \in {"held", "last"} THEN 1 ELSE 0)
      /\ rvalid = (IF ~Writing /\ Beat \in {"held", "last"} THEN 1 ELSE 0)
      /\ bvalid' = (IF Writing /\ Beat \in {"taken", "held"} THEN 1 ELSE 0)
      /\ rvalid' = (IF ~Writing /\ Beat \in {"taken", "held"} THEN 1 ELSE 0)
      /\ Writing <=> op \in {"tx", "start", "stop"}
      /\ op \in {"tx", "start", "stop", "poll", "read"}
      /\ Beat \in {"rest", "ask", "taken", "held", "last"}
  BY <1>1, Answers, Signals
<1>3. /\ awvalid = 1 /\ awready = 1 <=> Beat = "taken" /\ Writing
      /\ arvalid = 1 /\ arready = 1 <=> Beat = "taken" /\ ~Writing
      /\ arvalid = 1 /\ rvalid = 1 <=> Beat = "held" /\ ~Writing
      /\ rready = 1 <=> Beat = "last" /\ ~Writing
  BY Signals DEF BusInv, Beat
<1>4. /\ arvalid' = 1 /\ rvalid' = 1 => Beat = "taken" /\ ~Writing
      /\ rready' = 1 => Beat = "held" /\ ~Writing
  BY <1>1, <1>2 DEF UvmStep, Now, NowRead, UvmInv
<1>5. ReadOf' = ReadOf /\ ReadOf["poll"] = 2 /\ ReadOf["read"] = 3
  BY SameWriting, Accesses
<1>6. U!Monitor
  BY DEF U!Clock
<1>7. cur_araddr' = (IF Beat = "taken" /\ ~Writing THEN ReadOf[op] ELSE cur_araddr)
  BY <1>3, <1>6, SameAccess DEF U!Monitor
<1>8. (arvalid' = 1 /\ rvalid' = 1) \/ rready' = 1 => cur_araddr' = ReadOf[op']
  BY <1>1, <1>2, <1>3, <1>4, <1>7 DEF UvmMonitorInv, AccessStep
<1>9. /\ temp_m_tx' = (IF Beat = "taken" /\ op = "tx" THEN item.m[0] ELSE temp_m_tx)
      /\ temp_s_tx' = (IF Beat = "taken" /\ op = "tx" THEN item.s ELSE temp_s_tx)
  <2>1. Beat = "taken" => s_tx_data = item.s
    BY DEF UvmInv
  <2>2. QED
    BY <1>2, <1>3, <1>6, <2>1 DEF U!Monitor
<1>10. bvalid' = 1 \/ op' # "tx" => temp_m_tx' = item'.m[0] /\ temp_s_tx' = item'.s
  BY <1>1, <1>2, <1>9 DEF UvmMonitorInv, AccessStep, Following
<1>11. stage' = "warm" => finished' = <<>>
  BY <1>1 DEF UvmMonitorInv, UvmStep, UvmInv
<1>12. U!Reports(cur_araddr') <=> Beat = "last" /\ op = "read"
  BY <1>2, <1>3, <1>5, <1>7 DEF U!Reports, UvmMonitorInv
<1>13. (IF stage = "load" THEN <<>> ELSE checked) = <<>>
  BY DEF UvmMonitorInv
<1>14. checked' = IF Beat = "last" /\ op = "read" THEN <<<<item.m[0], item.s>>>> ELSE <<>>
  <2>1. Beat = "last" /\ op = "read" => temp_m_tx' = item.m[0] /\ temp_s_tx' = item.s
    BY <1>9 DEF UvmMonitorInv
  <2>2. checked' = IF Beat = "last" /\ op = "read" THEN Append(<<>>, <<temp_m_tx', temp_s_tx'>>)
                   ELSE <<>>
    <3>1. Len(<<>>) < 2
      OBVIOUS
    <3>2. checked' = IF U!Reports(cur_araddr') /\ Len(<<>>) < 2
                     THEN Append(<<>>, <<temp_m_tx', temp_s_tx'>>) ELSE <<>>
      BY <1>6, <1>13 DEF U!Monitor, U!Score
    <3>3. QED
      BY <1>12, <3>1, <3>2
  <2>3. \A x : Append(<<>>, x) = <<x>>
    OBVIOUS
  <2>4. QED
    BY <2>1, <2>2, <2>3
<1>15. stage' = "load" /\ finished' # <<>> <=> Beat = "last" /\ op = "read"
  <2>1. \A x : <<x>> # <<>>
    OBVIOUS
  <2>2. stage \in {"warm", "load", "begin", "hand", "last"} /\ (stage = "last" <=> Beat = "last")
    BY DEF UvmInv
  <2>3. CASE stage = "warm"
    BY <1>1, <2>2, <2>3 DEF UvmStep, UvmMonitorInv
  <2>4. CASE stage = "last"
    BY <1>1, <2>1, <2>2, <2>4 DEF UvmStep
  <2>5. CASE stage \in {"load", "begin", "hand"}
    BY <1>1, <2>2, <2>5 DEF UvmStep
  <2>6. QED
    BY <2>2, <2>3, <2>4, <2>5
<1>16. checked' = IF stage' = "load" /\ finished' # <<>>
                  THEN <<<<finished'[1].m[0], finished'[1].s>>>> ELSE <<>>
  BY <1>1, <1>14, <1>15 DEF AccessStep
<1>17. UvmMonitorInv'
  BY <1>8, <1>10, <1>11, <1>16 DEF UvmMonitorInv
<1>18. /\ Beat = "last" /\ op = "read" =>
            failed' = (failed \/ ~(item.m[0] = U!NumberOf(s_rx_data) /\ item.s = rdata[0]))
       /\ ~(Beat = "last" /\ op = "read") => failed' = (failed \/ FALSE)
  BY <1>6, <1>9, <1>12 DEF U!Monitor, U!Score, UvmMonitorInv
<1>19. QED
  BY <1>17, <1>18

(* What the loopback bench's monitor holds, after a clock. *)
LEMMA LoopbackMonitorNext ==
    ASSUME Source, ~Uvm, TypeInv, BusInv, LoopbackInv, LoopbackMonitorInv, L!Clock,
           UNCHANGED <<bench, stage>>
    PROVE  /\ LoopbackMonitorInv'
           /\ Beat = "last" /\ op = "read" =>
                failed' = (failed \/ ~(item.m[0] = rdata[0]))
           /\ ~(Beat = "last" /\ op = "read") => failed' = (failed \/ FALSE)
<1>1. DutStep(mosi) /\ AccessStep /\ LoopbackInv'
  BY LoopbackAccess DEF AccessStep
<1>2. /\ rvalid = (IF ~Writing /\ Beat \in {"held", "last"} THEN 1 ELSE 0)
      /\ bvalid = (IF Writing /\ Beat \in {"held", "last"} THEN 1 ELSE 0)
      /\ bvalid' = (IF Writing /\ Beat \in {"taken", "held"} THEN 1 ELSE 0)
      /\ Writing <=> op \in {"tx", "start", "stop"}
      /\ op \in {"tx", "start", "stop", "poll", "read"}
      /\ Beat \in {"rest", "ask", "taken", "last"}
  BY <1>1, Answers, Signals DEF BusInv
<1>3. /\ wvalid = 1 /\ wready = 1 <=> Beat = "taken" /\ Writing
      /\ Beat = "last" /\ ~Writing => rready = 1
  BY Signals DEF BusInv, Beat
<1>4. L!Monitor
  BY DEF L!Clock
<1>5. temp_tx' = (IF Beat = "taken" /\ op = "tx" THEN item.m[0] ELSE temp_tx)
  <2>1. L!Notes <=> Beat = "taken" /\ op = "tx"
    BY <1>2, <1>3, SameAccess, Accesses DEF L!Notes
  <2>2. op = "tx" => WriteOf[op].data[0] = item.m[0]
    BY Accesses
  <2>3. QED
    BY <1>4, <2>1, <2>2, SameAccess DEF L!Monitor
<1>6. bvalid' = 1 \/ op' # "tx" => temp_tx' = item'.m[0]
  BY <1>1, <1>2, <1>5 DEF LoopbackMonitorInv, AccessStep, Following
<1>7. rvalid = 1 /\ rready = 1 /\ L!ReadOf[op] = 3 <=> Beat = "last" /\ op = "read"
  BY <1>2, <1>3, SameAccess, Accesses
<1>8. L!ItemBegins <=> Beat = "rest" /\ op = "tx"
  BY <1>2 DEF L!ItemBegins, LoopbackInv
<1>9. (IF L!ItemBegins THEN <<>> ELSE checked) = <<>>
  BY <1>8 DEF LoopbackMonitorInv
<1>10. checked' = IF Beat = "last" /\ op = "read" THEN <<item.m[0]>> ELSE <<>>
  <2>1. Beat = "last" /\ op = "read" => temp_tx' = item.m[0]
    BY <1>5 DEF LoopbackMonitorInv
  <2>2. Len(<<>>) < 2
    OBVIOUS
  <2>3. checked' = IF (rvalid = 1 /\ rready = 1 /\ L!ReadOf[op] = 3) /\ Len(<<>>) < 2
                   THEN Append(<<>>, temp_tx') ELSE <<>>
    BY <1>4, <1>9 DEF L!Monitor, L!Score
  <2>4. \A x : Append(<<>>, x) = <<x>>
    OBVIOUS
  <2>5. QED
    BY <1>7, <2>1, <2>2, <2>3, <2>4
<1>11. op' = "tx" /\ Beat' = "rest" /\ finished' # <<>> <=> Beat = "last" /\ op = "read"
  <2>1. \A x : <<x>> # <<>>
    OBVIOUS
  <2>2. CASE Beat = "last"
    BY <1>1, <1>2, <2>1, <2>2 DEF AccessStep, Following
  <2>3. CASE Beat = "rest"
    <3>1. l_stage = "begin"
      BY <2>3 DEF LoopbackInv
    <3>2. l_stage' # "begin"
      BY <3>1 DEF L!Clock, L!Driver, L!BeginStep, L!ReadyStep, L!AnswerStep, L!LastStep
    <3>3. Beat' # "rest"
      BY <1>1, <3>2 DEF LoopbackInv
    <3>4. QED
      BY <2>3, <3>3
  <2>4. CASE Beat \in {"ask", "taken"}
    BY <1>1, <2>4 DEF AccessStep
  <2>5. QED
    BY <1>2, <2>2, <2>3, <2>4
<1>12. checked' = IF op' = "tx" /\ Beat' = "rest" /\ finished' # <<>>
                  THEN <<finished'[1].m[0]>> ELSE <<>>
  BY <1>1, <1>10, <1>11 DEF AccessStep
<1>13. /\ Beat = "last" /\ op = "read" => failed' = (failed \/ ~(item.m[0] = rdata[0]))
       /\ ~(Beat = "last" /\ op = "read") => failed' = (failed \/ FALSE)
  BY <1>4, <1>5, <1>7 DEF L!Monitor, L!Score, LoopbackMonitorInv
<1>14. QED
  BY <1>6, <1>12, <1>13 DEF LoopbackMonitorInv

-----------------------------------------------------------------------------
(* What driver, bus, registers, frame and monitor hold to in either bench;  *)
(* nothing of it depends on the words that travel on the line.              *)
AccessInv ==
    /\ TypeInv /\ BusInv /\ RegInv /\ FrameInv /\ DividerInv
    /\ IF Uvm THEN UvmInv /\ UvmMonitorInv ELSE LoopbackInv /\ LoopbackMonitorInv

(* Out of reset everything rests. *)
LEMMA AccessInit == Source /\ Init => AccessInv
<1> SUFFICES ASSUME Source, Init PROVE AccessInv
  OBVIOUS
<1>1. /\ awready = 0 /\ aw_en = 1 /\ awaddr = 0 /\ wready = 0 /\ bvalid = 0
      /\ arready = 0 /\ araddr = 0 /\ rvalid = 0
      /\ rdata = Axi!Cleared /\ slv_reg = [r \in 0..3 |-> Axi!Cleared]
  BY DEF Init, U!Init, U!BenchInit, U!PeripheralInit, U!Axi!AxiInit, U!Axi!Cleared, U!Axi!Regs,
         Axi!Cleared
<1>2. /\ state = "IDLE" /\ div_cnt = 0 /\ half_tick = 0
      /\ bit_cnt = 0 /\ step = 0 /\ busy = 0 /\ done = 0 /\ cs_n = 1
  BY DEF Init, U!Init, U!BenchInit, U!PeripheralInit, U!MasterInit
<1>3. /\ op = "tx" /\ item \in Items
      /\ awvalid = 0 /\ wvalid = 0 /\ bready = 0 /\ arvalid = 0 /\ rready = 0
      /\ checked = <<>> /\ failed = FALSE /\ finished = <<>>
      /\ stage = "warm" /\ warm = 0 /\ l_stage = "begin" /\ temp_tx = 0
      /\ hand = [c \in U!Channels |-> "idle"]
      /\ waited = [c \in U!Channels \cup {"answer"} |-> 0]
      /\ s_tx_data = 0 /\ temp_m_tx = 0 /\ temp_s_tx = 0 /\ cur_araddr = 0
      /\ bench \in {"uvm", "loopback"}
  BY DEF Init, U!Init, U!BenchInit, L!Init
<1>4. W = 8 /\ ByteValues = 0..255 /\ Axi!RegWord = [0..3 -> 0..255]
  BY Bytes DEF Source
<1>5. got \in Axi!RegWord
  <2>1. got = [lane \in 0..3 |-> <<0, 0, 0, 0>>[lane + 1]]
    BY DEF Init, U!Init, U!BenchInit, U!Reg
  <2>2. \A lane \in 0..3 : <<0, 0, 0, 0>>[lane + 1] \in 0..255
    OBVIOUS
  <2>3. QED
    BY <1>4, <2>1, <2>2
<1>6. Axi!AxiTypeOK
  BY <1>1, <1>4 DEF Axi!AxiTypeOK, Axi!Flag, Axi!Regs, Axi!Cleared
<1>7. MasterTypeOK
  <2>1. MasterInit(0)
    BY DEF Init, U!Init, U!BenchInit, U!PeripheralInit, U!MasterInit, MasterInit, U!Zero, Zero
  <2>2. QED
    BY <2>1, ResetType
<1>8. U!S!SlaveTypeOK
  <2>1. U!S!SlaveInit
    BY DEF Init, U!Init
  <2>2. U!S!Zero \in U!S!Word /\ 0 \in 0..(W - 1)
    BY WidthAssumption DEF U!S!Zero, U!S!Word, U!S!Bit
  <2>3. QED
    BY <2>1, <2>2 DEF U!S!SlaveInit, U!S!SlaveTypeOK, U!S!Bit
<1>9. TypeInv
  <2>1. hand \in [U!Channels -> {"poll", "last", "idle"}]
    BY <1>3
  <2>2. waited \in [U!Channels \cup {"answer"} -> 0..2]
    BY <1>3
  <2>3. /\ s_tx_data \in ByteValues /\ temp_m_tx \in ByteValues /\ temp_s_tx \in ByteValues
        /\ temp_tx \in ByteValues /\ cur_araddr \in 0..3 /\ warm \in 0..10
    BY <1>3, <1>4
  <2>4. /\ op \in Ops /\ item \in Items /\ failed \in BOOLEAN /\ finished = <<>>
        /\ bench \in {"uvm", "loopback"}
        /\ awvalid \in Bit /\ wvalid \in Bit /\ bready \in Bit /\ arvalid \in Bit /\ rready \in Bit
    BY <1>3 DEF Ops
  <2>5. QED
    BY <1>5, <1>6, <1>7, <1>8, <2>1, <2>2, <2>3, <2>4 DEF TypeInv
<1>10. Writing /\ Beat = "rest"
  BY <1>1, <1>3, Accesses DEF Beat
<1>11. BusInv
  BY <1>1, <1>3, <1>10 DEF BusInv
<1>12. RegInv
  <2>1. StartWord # Axi!Cleared
    BY <1>4, ControlWords
  <2>2. QED
    BY <1>1, <1>3, <2>1 DEF RegInv, Started, Stopped
<1>13. FrameInv /\ DividerInv
  BY <1>2, <1>3 DEF FrameInv, DividerInv
<1>14. UvmInv /\ LoopbackInv /\ UvmMonitorInv /\ LoopbackMonitorInv
  BY <1>1, <1>3, <1>10 DEF UvmInv, LoopbackInv, UvmMonitorInv, LoopbackMonitorInv
<1>15. QED
  BY <1>9, <1>11, <1>12, <1>13, <1>14 DEF AccessInv

(* A step that changes nothing keeps the invariant. *)
LEMMA AccessStutters == AccessInv /\ UNCHANGED vars => AccessInv'
<1> SUFFICES ASSUME AccessInv, UNCHANGED vars PROVE AccessInv'
  OBVIOUS
<1> USE DEF vars, masterVars, axiVars, benchVars, busSignals, uvmVars, loopbackVars
<1>1. Writing' = Writing /\ WriteOf' = WriteOf /\ ReadOf' = ReadOf /\ Beat' = Beat /\ Uvm' = Uvm
  BY DEF Writing, WriteOf, ReadOf, Beat, Uvm, StartWord, StopWord, Reg
<1>2. TypeInv'
  BY DEF AccessInv, TypeInv, MasterTypeOK, Axi!AxiTypeOK, U!S!SlaveTypeOK
<1>3. BusInv'
  BY <1>1 DEF AccessInv, BusInv
<1>4. RegInv' /\ FrameInv' /\ DividerInv'
  BY <1>1 DEF AccessInv, RegInv, FrameInv, DividerInv, Started, Stopped, StartWord, StopWord, Reg,
              Axi!Cleared, Over, StillBusy
<1>5. Uvm => UvmInv' /\ UvmMonitorInv'
  BY <1>1 DEF AccessInv, UvmInv, UvmMonitorInv
<1>6. ~Uvm => LoopbackInv' /\ LoopbackMonitorInv'
  BY <1>1 DEF AccessInv, LoopbackInv, LoopbackMonitorInv
<1>7. QED
  BY <1>1, <1>2, <1>3, <1>4, <1>5, <1>6 DEF AccessInv

(* Every clock edge of either bench keeps it. *)
LEMMA AccessNext == Source /\ AccessInv /\ [Clock]_vars => AccessInv'
<1> SUFFICES ASSUME Source, AccessInv, [Clock]_vars PROVE AccessInv'
  OBVIOUS
<1>1. W = 8 /\ TypeInv /\ BusInv /\ RegInv /\ FrameInv /\ DividerInv
  BY DEF AccessInv, Source
<1>2. CASE UVMClock
  <2>1. U!Clock /\ Uvm /\ Uvm' /\ UNCHANGED <<bench, l_stage, temp_tx>> /\ UvmInv /\ UvmMonitorInv
    BY <1>2 DEF UVMClock, loopbackVars, AccessInv, Uvm
  <2>2. AccessStep /\ BusInv'
    BY <1>1, <2>1, UvmAccess
  <2>3. TypeInv' /\ UvmInv' /\ UvmMonitorInv'
    BY <1>1, <2>1, UvmType, UvmNext, UvmMonitorNext
  <2>4. QED
    BY <1>1, <2>1, <2>2, <2>3, RegNext, FrameNext, DividerNext DEF AccessInv
<1>3. CASE LoopbackClock
  <2>1. L!Clock /\ ~Uvm /\ ~Uvm' /\ UNCHANGED <<uvmVars, bench>> /\ LoopbackInv /\ LoopbackMonitorInv
    BY <1>3 DEF LoopbackClock, AccessInv, Uvm
  <2>2. UNCHANGED <<bench, stage>>
    BY <2>1 DEF uvmVars
  <2>3. AccessStep /\ BusInv' /\ LoopbackInv' /\ LoopbackMonitorInv'
    BY <1>1, <2>1, <2>2, LoopbackAccess, LoopbackMonitorNext
  <2>4. TypeInv'
    BY <1>1, <2>1, LoopbackType
  <2>5. QED
    BY <1>1, <2>1, <2>3, <2>4, RegNext, FrameNext, DividerNext DEF AccessInv
<1>4. CASE UNCHANGED vars
  BY <1>4, AccessStutters
<1>5. QED
  BY <1>2, <1>3, <1>4 DEF Clock

(* It holds always. *)
LEMMA AccessAlways == Source /\ Spec => []AccessInv
<1> SUFFICES ASSUME Source PROVE Spec => []AccessInv
  OBVIOUS
<1>1. Init => AccessInv
  BY AccessInit
<1>2. AccessInv /\ [Clock]_vars => AccessInv'
  BY AccessNext
<1>3. QED
  BY <1>1, <1>2, PTL DEF Spec

(* A handshake of the UVM bench is over after two clocks of waiting, so no  *)
(* limit above one ends the test.                                           *)
THEOREM TimeoutCorrect == Source /\ Spec => []NoTimeout
<1>1. AccessInv /\ Uvm => NoTimeout
  BY DEF AccessInv, UvmInv, NoTimeout, U!TimedOut
<1>2. AccessInv /\ ~Uvm => NoTimeout
  BY DEF AccessInv, LoopbackInv, NoTimeout, U!TimedOut
<1>3. QED
  BY <1>1, <1>2, AccessAlways, PTL

(* Whatever the items are, the scoreboard was given each finished one once, *)
(* by the words the driver used for it.                                     *)
THEOREM CheckedCorrect == Source /\ Spec => []EveryItemChecked
<1>1. AccessInv => EveryItemChecked
  <2> SUFFICES ASSUME AccessInv PROVE EveryItemChecked
    OBVIOUS
  <2>1. CASE Uvm
    <3>1. U!ItemCompared
      BY <2>1 DEF AccessInv, UvmMonitorInv, U!ItemCompared, U!ItemBegins, U!ItemChecked
    <3>2. QED
      BY <2>1, <3>1 DEF EveryItemChecked, Uvm
  <2>2. CASE ~Uvm
    <3>1. L!ItemCompared
      <4>1. l_stage = "begin" => Beat = "rest"
        BY <2>2, Signals DEF AccessInv, LoopbackInv, BusInv
      <4>2. QED
        BY <2>2, <4>1 DEF AccessInv, LoopbackMonitorInv, L!ItemCompared, L!ItemBegins, L!ItemChecked
    <3>2. QED
      BY <2>2, <3>1 DEF EveryItemChecked, Uvm
  <2>3. QED
    BY <2>1, <2>2
<1>2. QED
  BY <1>1, AccessAlways, PTL

(* A list that is empty or one item long. *)
LEMMA AtMostOne ==
    ASSUME NEW s, s = <<>> \/ \E x : s = <<x>>
    PROVE  Len(s) <= 1 /\ Len(s) <= 2
<1>1. CASE s = <<>>
  BY <1>1
<1>2. CASE \E x : s = <<x>>
  <2>1. PICK x : s = <<x>>
    BY <1>2
  <2>2. QED
    BY <2>1
<1>3. QED
  BY <1>1, <1>2

(* Benches, slave and peripheral stay in their ranges. *)
THEOREM TypeCorrect == Source /\ Spec => []TypeOK
<1> SUFFICES ASSUME Source PROVE Spec => []TypeOK
  OBVIOUS
<1>1. AccessInv => TypeOK
  <2> SUFFICES ASSUME AccessInv PROVE TypeOK
    OBVIOUS
  <2>1. TypeInv
    BY DEF AccessInv
  <2>2. op \in {"tx", "start", "stop"} \cup {"poll", "read"}
    BY <2>1, Signals
  <2>3. /\ DOMAIN U!WriteOf = {"tx", "start", "stop"} /\ DOMAIN U!ReadOf = {"poll", "read"}
        /\ DOMAIN L!WriteOf = {"tx", "start", "stop"} /\ DOMAIN L!ReadOf = {"poll", "read"}
    <3>1. \A a, b, c : DOMAIN [tx |-> a, start |-> b, stop |-> c] = {"tx", "start", "stop"}
      OBVIOUS
    <3>2. DOMAIN U!WriteOf = {"tx", "start", "stop"}
      BY <3>1, Zenon DEF U!WriteOf
    <3>3. DOMAIN L!WriteOf = {"tx", "start", "stop"}
      BY <3>1, Zenon DEF L!WriteOf
    <3>4. \A a, b : DOMAIN [poll |-> a, read |-> b] = {"poll", "read"}
      OBVIOUS
    <3>5. DOMAIN U!ReadOf = {"poll", "read"} /\ DOMAIN L!ReadOf = {"poll", "read"}
      BY <3>4, Zenon DEF U!ReadOf, L!ReadOf
    <3>6. QED
      BY <3>2, <3>3, <3>5
  <2>4. Len(checked) <= 2 /\ Len(finished) <= 1
    <3>1. checked = <<>> \/ \E x : checked = <<x>>
      BY DEF AccessInv, UvmMonitorInv, LoopbackMonitorInv
    <3>2. finished = <<>> \/ \E x : finished = <<x>>
      BY <2>1 DEF TypeInv
    <3>3. QED
      BY <3>1, <3>2, AtMostOne, Zenon
  <2>5. \A i \in 1..5 : U!busSignals[i] \in {0, 1} /\ L!busSignals[i] \in {0, 1}
    BY <2>1 DEF TypeInv, U!busSignals, L!busSignals
  <2>6. U!BenchTypeOK
    BY <2>1, <2>2, <2>3, <2>4, <2>5
    DEF TypeInv, U!BenchTypeOK, U!MasterTypeOK, MasterTypeOK, U!Axi!AxiTypeOK, Axi!AxiTypeOK,
        U!Bit, U!Word, Word, U!Axi!Flag, Axi!Flag, U!Axi!Regs, Axi!Regs, U!Axi!RegWord,
        Axi!RegWord, U!ByteValues, ByteValues
  <2>7. L!BenchTypeOK
    BY <2>1, <2>2, <2>3, <2>4, <2>5
    DEF TypeInv, L!BenchTypeOK, L!MasterTypeOK, MasterTypeOK, L!Axi!AxiTypeOK, Axi!AxiTypeOK,
        L!Bit, L!Word, Word, L!Axi!Flag, Axi!Flag, L!Axi!Regs, Axi!Regs, L!Axi!RegWord,
        Axi!RegWord, L!ByteValues, ByteValues
  <2>8. U!TypeOK
    <3>1. stage \in {"warm", "load", "begin", "hand", "last"}
      BY DEF AccessInv, UvmInv, LoopbackInv
    <3>2. U!Channels = {"aw", "w", "ar"}
      BY UvmChannels
    <3>3. waited \in [U!Channels \cup {"answer"} -> 0..(TimeoutLimit + 1)]
      <4>1. \A n \in 0..2 : n \in 0..(TimeoutLimit + 1)
        BY TimeoutAssumption DEF Source
      <4>2. QED
        BY <2>1, <4>1 DEF TypeInv
    <3>4. U!WarmUp = 10 /\ U!Axi!Regs = 0..3 /\ U!ByteValues = ByteValues
      BY DEF U!WarmUp, U!Axi!Regs, U!ByteValues, ByteValues
    <3>5. QED
      BY <2>1, <2>6, <3>1, <3>3, <3>4 DEF TypeInv, U!TypeOK
  <2>9. L!TypeOK
    <3>1. l_stage \in {"begin", "ready", "drop", "answer", "last"}
      BY <2>1, Signals DEF AccessInv, UvmInv, LoopbackInv, BusInv
    <3>2. L!ByteValues = ByteValues
      BY DEF L!ByteValues, ByteValues
    <3>3. QED
      BY <2>1, <2>7, <3>1, <3>2 DEF TypeInv, L!TypeOK
  <2>10. QED
    BY <2>8, <2>9 DEF TypeOK
<1>2. QED
  BY <1>1, AccessAlways, PTL

-----------------------------------------------------------------------------
(* The line of the UVM bench: the words of the item go both ways.           *)
LEMMA LineRanges == W = 8 /\ TypeInv /\ RegInv => Line!Ranges
<1> SUFFICES ASSUME W = 8, TypeInv, RegInv PROVE Line!Ranges
  OBVIOUS
<1>1. cpol = 0 /\ clk_div \in {0, 4} /\ start \in {0, 1} /\ tx_data \in Word
  BY Wires
<1>2. /\ state \in {"IDLE", "START", "DATA", "STOP"}
      /\ div_cnt \in Nat /\ half_tick \in {0, 1} /\ step \in {0, 1}
      /\ bit_cnt \in Nat /\ bit_cnt < W /\ W \in Nat
      /\ sclk_r \in {0, 1} /\ cs_n \in {0, 1} /\ busy \in {0, 1} /\ mosi \in {0, 1}
      /\ tx_shift_reg \in Word /\ rx_shift_reg \in Word /\ rx_data \in Word
  BY DivMaxAssumption, WidthAssumption DEF TypeInv, MasterTypeOK
<1>3. /\ sclk_0 \in {0, 1} /\ sclk_1 \in {0, 1} /\ cs_n_0 \in {0, 1} /\ cs_n_1 \in {0, 1}
      /\ miso \in {0, 1} /\ s_state \in {"IDLE", "DATA", "STOP"}
      /\ s_bit_cnt \in Nat /\ s_bit_cnt < W
      /\ s_tx_shift_reg \in Word /\ s_rx_shift_reg \in Word /\ s_rx_data \in Word
  <2>1. U!S!Bit = {0, 1} /\ U!S!Word = Word
    BY DEF U!S!Bit, U!S!Word, Word
  <2>2. QED
    BY <2>1, WidthAssumption DEF TypeInv, U!S!SlaveTypeOK
<1>4. ASSUME NEW n \in ByteValues PROVE BitsOf(n) \in Word
  BY BitsOfWord, Bytes
<1>5. BitsOf(s_tx_data) \in Word /\ BitsOf(item.m[0]) \in Word /\ BitsOf(item.s) \in Word
  BY <1>4, ItemBytes DEF TypeInv
<1>6. WordOut \in Word /\ WordBack \in Word
  BY <1>2, <1>3, <1>5 DEF WordOut, WordBack
<1>7. Line!Word = Word
  BY DEF Line!Word, Line!Bit, Word
<1>8. QED
  BY <1>1, <1>2, <1>3, <1>5, <1>6, <1>7 DEF Line!Ranges

(* And the same after a clock. *)
LEMMA LineRangesNext ==
    ASSUME W = 8
    PROVE  TypeInv' /\ RegInv' => Line!Ranges'
<1>1. TypeInv /\ RegInv => Line!Ranges
  BY LineRanges
<1>2. QED
  BY <1>1, PTL

(* What the accesses make of the line: SPILink's mode 0, and a divider that *)
(* rests between the frames.                                                *)
LEMMA LineModes ==
    ASSUME W = 8, Uvm, TypeInv, BusInv, RegInv, FrameInv, DividerInv, UvmInv
    PROVE  Line!Mode0 /\ Line!ModeInv /\ Line!DividerInv
<1>1. Line!Mode0
  BY DEF Line!Mode0
<1>2. state # "IDLE" => clk_div = 4 /\ s_tx_data = item.s
  <2>1. state # "IDLE" => op # "tx"
    BY DEF FrameInv
  <2>2. QED
    BY <2>1, Framed DEF UvmInv
<1>3. start = 1 => clk_div = 4
  <2>1. StartWord # Axi!Cleared
    BY ControlWords
  <2>2. QED
    BY <2>1, Wires DEF RegInv
<1>4. cpol = 0 /\ cpha = 0 /\ busy = (IF state = "IDLE" THEN 0 ELSE 1) /\ cs_n = 1 - busy
      /\ (done = 1 => state = "IDLE")
  BY Wires DEF FrameInv
<1>5. state # "IDLE" => WordBack = BitsOf(s_tx_data)
  BY <1>2 DEF WordBack, Begun
<1>6. Line!ModeInv
  BY <1>2, <1>3, <1>4, <1>5 DEF Line!ModeInv
<1>7. Line!DividerInv
  BY <1>2 DEF DividerInv, Line!DividerInv
<1>8. QED
  BY <1>1, <1>6, <1>7

(* A frame carries the words of the item. *)
LEMMA FrameWords ==
    ASSUME W = 8, TypeInv, BusInv, RegInv, FrameInv, DividerInv, AccessStep,
           state = "IDLE", start = 1
    PROVE  /\ Begun' /\ item' = item /\ tx_data = BitsOf(item.m[0])
           /\ op = "start"
<1>1. DutStep(IF Uvm THEN miso ELSE mosi)
  BY DEF AccessStep
<1>2. Started
  BY Wires
<1>3. state' = "START"
  BY <1>1, <1>2, MasterMoves DEF Phase0
<1>4. Writing <=> op \in {"tx", "start", "stop"}
  BY Accesses
<1>5. op = "start"
  BY <1>2 DEF Started, FrameInv
<1>6. item' = item
  BY <1>5 DEF AccessStep
<1>7. tx_data = BitsOf(item.m[0])
  BY <1>5 DEF RegInv, tx_data
<1>8. QED
  BY <1>3, <1>5, <1>6, <1>7 DEF Begun

(* Between the frames, and while one is on the line, they stay. *)
LEMMA WordsStay ==
    ASSUME W = 8, TypeInv, BusInv, RegInv, FrameInv, DividerInv, AccessStep,
           ~(state = "IDLE" /\ start = 1)
    PROVE  \/ Begun /\ Begun' /\ item' = item
           \/ ~Begun' /\ state = "IDLE" /\ state' = "IDLE" /\ rx_data' = rx_data
<1>1. DutStep(IF Uvm THEN miso ELSE mosi)
  BY DEF AccessStep
<1>2. Phase0(0, tx_data, IF Started THEN 1 ELSE 0, IF Uvm THEN miso ELSE mosi)
  BY <1>1, MasterMoves
<1>3. state = "IDLE" => ~Started /\ state' = "IDLE" /\ rx_data' = rx_data
  BY <1>2, Wires DEF Phase0
<1>4. /\ op' = (IF Beat = "last" THEN Following(rdata) ELSE op)
      /\ ~(Beat = "last" /\ op = "read") => item' = item
  BY DEF AccessStep
<1>5. op \in {"tx", "start", "stop", "poll", "read"}
  BY Signals
<1>6. CASE Beat = "last" /\ op = "read"
  BY <1>3, <1>4, <1>6 DEF FrameInv, Following, Begun
<1>7. CASE Begun /\ ~(Beat = "last" /\ op = "read")
  <2>1. state # "IDLE" => op \in {"stop", "poll"} \/ (op = "start" /\ Beat = "last")
    BY Framed
  <2>2. op' \in {"stop", "poll", "read"}
    BY <1>4, <1>5, <1>7, <2>1 DEF Following, Begun
  <2>3. QED
    BY <1>4, <1>7, <2>2 DEF Begun
<1>8. CASE ~Begun
  <2>1. state = "IDLE" /\ op \in {"tx", "start"}
    BY <1>5, <1>8 DEF Begun
  <2>2. ~Started
    BY <1>3, <2>1
  <2>3. op = "start" => Beat # "last"
    BY <1>1, <2>2, Answers DEF Started
  <2>4. op' \in {"tx", "start"}
    BY <1>4, <2>1, <2>3 DEF Following
  <2>5. QED
    BY <1>3, <2>1, <2>4 DEF Begun
<1>9. QED
  BY <1>6, <1>7, <1>8

(* So a clock edge of the bench is one that SPILink's invariant survives.   *)
LEMMA LineClockSteps ==
    ASSUME Source, Uvm, TypeInv, BusInv, RegInv, FrameInv, DividerInv, UvmInv, LineInv,
           AccessStep, U!Clock, TypeInv', RegInv'
    PROVE  Line!Mode0 /\ Line!LinkInv /\ Line!ClockStep
<1>1. W = 8
  BY DEF Source
<1>2. Line!Mode0 /\ Line!ModeInv /\ Line!DividerInv
  BY <1>1, LineModes
<1>3. Line!LinkInv
  BY <1>2 DEF Line!LinkInv, LineInv
<1>4. Line!LineEdge
  BY LineEdge
<1>5. Line!Ranges /\ Line!Ranges'
  BY <1>1, LineRanges, LineRangesNext
<1>6. Line!Phase0(cpol, tx_data, start, miso)
  BY <1>1, <1>2, <1>4, <1>5, LineParameters, Line!MasterSteps
<1>7. Line!SlaveStep
  BY <1>1, <1>2, <1>4, <1>5, LineParameters, Line!SlaveSteps
<1>8. Line!DividerMove
  <2>1. DutStep(miso)
    BY DEF AccessStep
  <2>2. state # "IDLE" => clk_div = 4
    BY <1>1, Framed
  <2>3. QED
    BY <1>1, <2>1, <2>2, MasterMoves DEF Line!DividerMove, DividerInv
<1>9. Line!LinkStep
  <2>1. CASE state = "IDLE" /\ start = 1
    <3>1. Begun' /\ item' = item /\ tx_data = BitsOf(item.m[0]) /\ op = "start"
      BY <1>1, <2>1, FrameWords
    <3>2. s_tx_data = item.s
      BY <3>1 DEF UvmInv
    <3>3. QED
      BY <2>1, <3>1, <3>2 DEF Line!LinkStep, WordOut, WordBack, BitsOf
  <2>2. CASE ~(state = "IDLE" /\ start = 1)
    <3>1. CASE Begun /\ Begun' /\ item' = item
      BY <2>2, <3>1 DEF Line!LinkStep, WordOut, WordBack, BitsOf
    <3>2. CASE ~Begun' /\ state = "IDLE" /\ state' = "IDLE" /\ rx_data' = rx_data
      <4>1. s_rx_data = WordOut /\ rx_data = WordBack
        BY <3>2 DEF LineInv, Line!SlaveInv, Line!MasterInv
      <4>2. s_rx_data' = s_rx_data
        BY <1>1, <1>5, <1>7, <3>2
        DEF LineInv, Line!AsleepInv, Line!Asleep, Line!SlaveStep, Line!Ranges
      <4>3. QED
        BY <2>2, <3>2, <4>1, <4>2 DEF Line!LinkStep, WordOut, WordBack
    <3>3. QED
      BY <1>1, <2>2, <3>1, <3>2, WordsStay
  <2>3. QED
    BY <2>1, <2>2
<1>10. QED
  BY <1>2, <1>3, <1>5, <1>6, <1>7, <1>8, <1>9 DEF Line!ClockStep

(* And it does. *)
LEMMA LineNext ==
    ASSUME Source, Uvm, TypeInv, BusInv, RegInv, FrameInv, DividerInv, UvmInv, LineInv,
           AccessStep, U!Clock, TypeInv', RegInv'
    PROVE  LineInv'
<1>1. Line!Mode0 /\ Line!LinkInv /\ Line!ClockStep /\ W = 8
  BY LineClockSteps DEF Source
<1>2. Line!AsleepInv'
  BY <1>1, LineParameters, Line!AsleepClock
<1>3. Line!MasterInv'
  BY <1>1, LineParameters, Line!MasterClock
<1>4. Line!LineInv'
  BY <1>1, LineParameters, Line!LineClock
<1>5. Line!SlaveInv'
  BY <1>1, LineParameters, Line!SlaveClock
<1>6. QED
  BY <1>2, <1>3, <1>4, <1>5 DEF LineInv

-----------------------------------------------------------------------------
(* The loopback bench: what leaves on mosi comes back in.                   *)
LEMMA EchoNext ==
    ASSUME W = 8, ~Uvm, TypeInv, BusInv, RegInv, FrameInv, DividerInv, EchoInv,
           AccessStep, TypeInv'
    PROVE  EchoInv'
<1>1. DutStep(mosi)
  BY DEF AccessStep
<1>2. Phase0(0, tx_data, IF Started THEN 1 ELSE 0, mosi)
  BY <1>1, MasterMoves
<1>3. /\ state \in {"IDLE", "START", "DATA", "STOP"} /\ half_tick \in {0, 1} /\ step \in {0, 1}
      /\ bit_cnt \in 0..(W - 1) /\ tx_shift_reg \in Word /\ rx_shift_reg \in Word
  BY DEF TypeInv, MasterTypeOK
<1>4. Echoed \in Word
  <2>1. item.m[0] \in Nat
    <3>1. item.m[0] \in ByteValues
      BY ItemBytes DEF TypeInv
    <3>2. QED
      BY <3>1, Bytes
  <2>2. BitsOf(item.m[0]) \in Word /\ rx_data \in Word
    BY <2>1, BitsOfWord DEF TypeInv, MasterTypeOK
  <2>3. QED
    BY <2>2 DEF Echoed
<1>5. state # "IDLE" \/ ~(start = 1) => Echoed' = Echoed
  <2> SUFFICES ASSUME ~(state = "IDLE" /\ start = 1) PROVE Echoed' = Echoed
    OBVIOUS
  <2>1. CASE Begun /\ Begun' /\ item' = item
    BY <2>1 DEF Echoed, BitsOf
  <2>2. CASE ~Begun' /\ state = "IDLE" /\ state' = "IDLE" /\ rx_data' = rx_data
    BY <2>2 DEF Echoed, EchoInv
  <2>3. QED
    BY <2>1, <2>2, WordsStay
<1>6. CASE state = "IDLE" /\ start = 1
  <2>1. Begun' /\ item' = item /\ tx_data = BitsOf(item.m[0])
    BY <1>6, FrameWords
  <2>2. Echoed' = tx_data
    BY <2>1 DEF Echoed, BitsOf
  <2>3. state' = "START" /\ tx_shift_reg' = tx_data
    BY <1>2, <1>6, Wires DEF Phase0
  <2>4. QED
    BY <2>2, <2>3 DEF EchoInv
<1>7. CASE state = "IDLE" /\ ~(start = 1)
  <2>1. state' = "IDLE" /\ rx_data' = rx_data
    BY <1>2, <1>7, Wires DEF Phase0
  <2>2. QED
    BY <1>5, <1>7, <2>1 DEF EchoInv
<1>8. CASE state = "START"
  <2>1. RestOf(tx_shift_reg, Echoed, 0) /\ 0 \in 0..(W - 1) /\ bit_cnt = 0 /\ step = 0
    BY <1>3, <1>4, <1>8, WordEnds DEF EchoInv, FrameInv
  <2>2. Msb(tx_shift_reg) = Echoed[0 + 1] /\ RestOf(ShiftIn(tx_shift_reg, 0), Echoed, 0 + 1)
    BY <1>3, <1>4, <2>1, BitLeaves
  <2>3. FrontOf(rx_shift_reg, Echoed, 0)
    BY <1>3, <1>4, WordEnds
  <2>4. /\ state' = "DATA" /\ mosi' = Msb(tx_shift_reg)
        /\ tx_shift_reg' = ShiftIn(tx_shift_reg, 0) /\ rx_shift_reg' = rx_shift_reg
        /\ bit_cnt' = 0 /\ step' = 0
    BY <1>2, <1>8, <2>1 DEF Phase0
  <2>5. QED
    BY <1>5, <1>8, <2>2, <2>3, <2>4 DEF EchoInv
<1>9. CASE state = "DATA" /\ half_tick = 0
  BY <1>2, <1>5, <1>9 DEF EchoInv, Phase0
<1>10. CASE state = "DATA" /\ half_tick = 1 /\ step = 0
  <2>1. FrontOf(rx_shift_reg, Echoed, bit_cnt) /\ mosi = Echoed[bit_cnt + 1]
    BY <1>3, <1>10 DEF EchoInv
  <2>2. FrontOf(ShiftIn(rx_shift_reg, mosi), Echoed, bit_cnt + 1)
    BY <1>3, <1>4, <2>1, BitArrives
  <2>3. /\ state' = "DATA" /\ step' = 1 /\ bit_cnt' = bit_cnt /\ mosi' = mosi
        /\ tx_shift_reg' = tx_shift_reg /\ rx_shift_reg' = ShiftIn(rx_shift_reg, mosi)
    BY <1>2, <1>10 DEF Phase0
  <2>4. QED
    BY <1>5, <1>10, <2>2, <2>3 DEF EchoInv
<1>11. CASE state = "DATA" /\ half_tick = 1 /\ step = 1 /\ bit_cnt # W - 1
  <2>1. bit_cnt + 1 \in 0..(W - 1) /\ RestOf(tx_shift_reg, Echoed, bit_cnt + 1)
        /\ FrontOf(rx_shift_reg, Echoed, bit_cnt + 1)
    BY <1>3, <1>11, WidthAssumption DEF EchoInv
  <2>2. /\ Msb(tx_shift_reg) = Echoed[(bit_cnt + 1) + 1]
        /\ RestOf(ShiftIn(tx_shift_reg, 0), Echoed, (bit_cnt + 1) + 1)
    BY <1>3, <1>4, <2>1, BitLeaves
  <2>3. /\ state' = "DATA" /\ step' = 0 /\ bit_cnt' = bit_cnt + 1 /\ mosi' = Msb(tx_shift_reg)
        /\ tx_shift_reg' = ShiftIn(tx_shift_reg, 0) /\ rx_shift_reg' = rx_shift_reg
    BY <1>2, <1>11 DEF Phase0
  <2>4. bit_cnt' + step' = bit_cnt + 1
    BY <1>3, <2>3
  <2>5. QED
    BY <1>5, <1>11, <2>1, <2>2, <2>3, <2>4 DEF EchoInv
<1>12. CASE state = "DATA" /\ half_tick = 1 /\ step = 1 /\ bit_cnt = W - 1
  <2>1. FrontOf(rx_shift_reg, Echoed, W)
    <3>1. bit_cnt + step = W
      BY <1>3, <1>12, WidthAssumption
    <3>2. QED
      BY <1>12, <3>1 DEF EchoInv
  <2>2. rx_shift_reg = Echoed
    BY <1>3, <1>4, <2>1, WordEnds
  <2>3. state' = "STOP" /\ rx_data' = rx_shift_reg
    BY <1>2, <1>12 DEF Phase0
  <2>4. QED
    BY <1>5, <1>12, <2>2, <2>3 DEF EchoInv
<1>13. CASE state = "STOP"
  BY <1>2, <1>5, <1>13 DEF EchoInv, Phase0
<1>14. QED
  BY <1>3, <1>6, <1>7, <1>8, <1>9, <1>10, <1>11, <1>12, <1>13

(* The word of the item as the driver reads it, and as it was sent.         *)
LEMMA ItemNumbers ==
    ASSUME W = 8, item \in Items
    PROVE  /\ NumberOf(BitsOf(item.m[0])) = item.m[0] /\ NumberOf(BitsOf(item.s)) = item.s
           /\ U!NumberOf(BitsOf(item.m[0])) = item.m[0]
<1>1. item.m[0] \in ByteValues /\ item.s \in ByteValues
  BY ItemBytes
<1>2. \A b : U!NumberOf(b) = NumberOf(b)
  BY DEF U!NumberOf, NumberOf, U!ByteValues, ByteValues, U!BitsOf, BitsOf
<1>3. QED
  BY <1>1, <1>2, NumberOfBits

(* RX_REG is read when no frame runs, and is the word that came back.       *)
LEMMA ReadNext ==
    ASSUME W = 8, TypeInv, BusInv, FrameInv, ReadData, AccessStep,
           IF Uvm THEN LineInv ELSE EchoInv
    PROVE  ReadData'
<1> SUFFICES ASSUME op' = "read", rvalid' = 1
             PROVE  rdata'[0] = IF Uvm THEN item'.s ELSE item'.m[0]
  BY DEF ReadData, AccessStep, Uvm
<1> DEFINE m == IF Uvm THEN miso ELSE mosi
<1>1. DutStep(m)
  BY DEF AccessStep
<1> HIDE DEF m
<1>2. Beat \in {"taken", "held"} /\ ~Writing
  BY <1>1, Answers
<1>3. op = "read" /\ item' = item
  BY <1>2 DEF AccessStep
<1>4. CASE Beat = "held"
  <2>1. rdata' = rdata /\ rvalid = 1
    BY <1>1, <1>2, <1>4, Answers DEF DutStep, NowRead
  <2>2. QED
    BY <1>3, <2>1 DEF ReadData
<1>5. CASE Beat = "taken"
  <2>1. rdata' = RX_REG
    BY <1>1, <1>2, <1>3, <1>5 DEF DutStep, NowRead
  <2>2. RX_REG[0] = NumberOf(rx_data)
    BY DEF RX_REG, Reg
  <2>3. state = "IDLE" /\ Begun
    BY <1>3 DEF FrameInv, Begun
  <2>4. rx_data = IF Uvm THEN BitsOf(item.s) ELSE BitsOf(item.m[0])
    BY <2>3 DEF LineInv, Line!MasterInv, EchoInv, WordBack, Echoed
  <2>5. item \in Items
    BY DEF TypeInv
  <2>6. QED
    BY <1>3, <2>1, <2>2, <2>4, <2>5, ItemNumbers
<1>6. QED
  BY <1>2, <1>4, <1>5

-----------------------------------------------------------------------------
(* No comparison fails: the accesses, the words on their way, and what was  *)
(* read of them.                                                            *)
ScoreInv ==
    /\ AccessInv /\ ReadData /\ failed = FALSE
    /\ IF Uvm THEN LineInv ELSE EchoInv

(* Out of reset both ends hold zero. *)
LEMMA ScoreInit == Source /\ Init => ScoreInv
<1> SUFFICES ASSUME Source, Init PROVE ScoreInv
  OBVIOUS
<1>1. /\ state = "IDLE" /\ rvalid = 0 /\ failed = FALSE /\ op = "tx" /\ sclk_r = 0
      /\ rx_data = [i \in 1..W |-> 0] /\ s_rx_data = [i \in 1..W |-> 0]
      /\ s_state = "IDLE"
  BY DEF Init, U!Init, U!BenchInit, U!PeripheralInit, U!Axi!AxiInit, U!MasterInit, U!Zero,
         U!S!SlaveInit, U!S!Zero
<1>2. ReadData
  BY <1>1 DEF ReadData
<1>3. LineInv
  BY <1>1 DEF LineInv, Line!AsleepInv, Line!MasterInv, Line!LineInv, Line!SlaveInv, WordOut,
              WordBack, Begun
<1>4. EchoInv
  BY <1>1 DEF EchoInv, Echoed, Begun
<1>5. QED
  BY <1>1, <1>2, <1>3, <1>4, AccessInit DEF ScoreInv

(* Nothing moves by itself. *)
LEMMA ScoreStutters == ScoreInv /\ UNCHANGED vars => ScoreInv'
<1> SUFFICES ASSUME ScoreInv, UNCHANGED vars PROVE ScoreInv'
  OBVIOUS
<1>1. AccessInv'
  BY AccessStutters DEF ScoreInv
<1> USE DEF vars, masterVars, axiVars, benchVars, busSignals, uvmVars, loopbackVars
<1>2. Uvm' = Uvm /\ Begun' = Begun
  BY DEF Uvm, Begun
<1>3. ReadData' /\ failed' = FALSE
  BY <1>2 DEF ScoreInv, ReadData
<1>4. WordOut' = WordOut /\ WordBack' = WordBack /\ Echoed' = Echoed
  BY <1>2 DEF WordOut, WordBack, Echoed, BitsOf
<1>5. Uvm => LineInv'
  BY <1>4
  DEF ScoreInv, LineInv, Line!AsleepInv, Line!Asleep, Line!RxNow, Line!RxNext, Line!MasterInv,
      Line!LineInv, Line!SlaveInv, Line!Quiet, Line!Got, Line!Put, Line!RestOf, Line!FrontOf
<1>6. ~Uvm => EchoInv'
  BY <1>4 DEF ScoreInv, EchoInv, RestOf, FrontOf
<1>7. QED
  BY <1>1, <1>2, <1>3, <1>5, <1>6 DEF ScoreInv

(* A clock edge compares nothing, or the item with its own words. *)
LEMMA ScoreNext == Source /\ ScoreInv /\ [Clock]_vars => ScoreInv'
<1> SUFFICES ASSUME Source, ScoreInv, [Clock]_vars PROVE ScoreInv'
  OBVIOUS
<1>1. AccessInv'
  BY AccessNext DEF ScoreInv
<1>2. /\ W = 8 /\ TypeInv /\ BusInv /\ RegInv /\ FrameInv /\ DividerInv /\ ReadData
      /\ failed = FALSE /\ TypeInv' /\ RegInv'
  BY <1>1 DEF ScoreInv, AccessInv, Source
<1>3. item \in Items
  BY <1>2 DEF TypeInv
<1>4. CASE UVMClock
  <2>1. U!Clock /\ Uvm /\ Uvm' /\ UNCHANGED <<bench, l_stage, temp_tx>> /\ UvmInv
        /\ UvmMonitorInv /\ LineInv
    BY <1>4 DEF UVMClock, loopbackVars, AccessInv, ScoreInv, Uvm
  <2>2. AccessStep
    BY <1>2, <2>1, UvmAccess
  <2>3. LineInv' /\ ReadData'
    BY <1>2, <2>1, <2>2, LineNext, ReadNext
  <2>4. CASE Beat = "last" /\ op = "read"
    <3>1. rvalid = 1
      <4>1. ~Writing
        BY <2>4, Accesses
      <4>2. QED
        BY <1>2, <2>2, <2>4, <4>1, Answers DEF AccessStep
    <3>2. item.s = rdata[0]
      BY <1>2, <2>1, <2>4, <3>1 DEF ReadData
    <3>3. s_rx_data = BitsOf(item.m[0])
      <4>1. state = "IDLE" /\ Begun
        BY <1>2, <2>4 DEF FrameInv, Begun
      <4>2. QED
        BY <2>1, <4>1 DEF LineInv, Line!SlaveInv, WordOut
    <3>4. item.m[0] = U!NumberOf(s_rx_data)
      BY <1>2, <1>3, <3>3, ItemNumbers
    <3>5. QED
      BY <1>1, <1>2, <2>1, <2>3, <2>4, <3>2, <3>4, UvmMonitorNext DEF ScoreInv
  <2>5. CASE ~(Beat = "last" /\ op = "read")
    BY <1>1, <1>2, <2>1, <2>3, <2>5, UvmMonitorNext DEF ScoreInv
  <2>6. QED
    BY <2>4, <2>5
<1>5. CASE LoopbackClock
  <2>1. L!Clock /\ ~Uvm /\ ~Uvm' /\ UNCHANGED <<uvmVars, bench>> /\ LoopbackInv
        /\ LoopbackMonitorInv /\ EchoInv
    BY <1>5 DEF LoopbackClock, AccessInv, ScoreInv, Uvm
  <2>2. UNCHANGED <<bench, stage>>
    BY <2>1 DEF uvmVars
  <2>3. AccessStep
    BY <1>2, <2>1, <2>2, LoopbackAccess
  <2>4. EchoInv' /\ ReadData'
    BY <1>2, <2>1, <2>3, EchoNext, ReadNext
  <2>5. CASE Beat = "last" /\ op = "read"
    <3>1. rvalid = 1
      <4>1. ~Writing
        BY <2>5, Accesses
      <4>2. QED
        BY <1>2, <2>3, <2>5, <4>1, Answers DEF AccessStep
    <3>2. item.m[0] = rdata[0]
      BY <1>2, <2>1, <2>5, <3>1 DEF ReadData
    <3>3. QED
      BY <1>1, <1>2, <2>1, <2>2, <2>4, <2>5, <3>2, LoopbackMonitorNext DEF ScoreInv
  <2>6. CASE ~(Beat = "last" /\ op = "read")
    BY <1>1, <1>2, <2>1, <2>2, <2>4, <2>6, LoopbackMonitorNext DEF ScoreInv
  <2>7. QED
    BY <2>5, <2>6
<1>6. CASE UNCHANGED vars
  BY <1>6, ScoreStutters
<1>7. QED
  BY <1>4, <1>5, <1>6 DEF Clock

(* In either bench, whatever the items are, the scoreboard never counts a   *)
(* failure: the word sent is the one the slave (or the loopback) has when   *)
(* the driver reads the reply, and the reply read is the one sent back.     *)
THEOREM ScoreCorrect == Source /\ Spec => []ScoreboardPasses
<1> SUFFICES ASSUME Source PROVE Spec => []ScoreboardPasses
  OBVIOUS
<1>1. Init => ScoreInv
  BY ScoreInit
<1>2. ScoreInv /\ [Clock]_vars => ScoreInv'
  BY ScoreNext
<1>3. ScoreInv => ScoreboardPasses
  BY DEF ScoreInv, ScoreboardPasses
<1>4. QED
  BY <1>1, <1>2, <1>3, PTL DEF Spec
=============================================================================
