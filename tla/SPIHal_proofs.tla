--------------------------- MODULE SPIHal_proofs ---------------------------
(***************************************************************************)
(* TLAPS proofs about SPIHal, at the width of the source, for every set of *)
(* arguments and of words of the peer.  That a call sends exactly one      *)
(* frame holds when the processor keeps pace with the frame.               *)
(***************************************************************************)
EXTENDS SPIHal, SPIMaster_proofs

USE DEF Bit

(* The start bit falls at most 2 * MaxGap + 5 clocks after it was set: two  *)
(* gaps, a read and a write.  A frame takes 2 * W half periods of d + 1     *)
(* clocks and three clocks around them, but for the clock by which the      *)
(* divider may be ahead.  It must not be over by then.                      *)
Paced == \A d \in Divs : W * (d + 1) > MaxGap + 1

Points == {"ready", "init", "tx", "get1", "set", "get2", "clear", "poll", "read"}

-----------------------------------------------------------------------------
(* One access at a time: address and data of a write are taken together and *)
(* are those of its program point, and the next access waits for the        *)
(* response of this one.                                                    *)
WriteInv ==
    /\ awready = wready
    /\ awvalid = 1 => Writing /\ bvalid = 0 /\ (awready = 0 => aw_en = 1)
    /\ awready = 1 => awvalid = 1 /\ aw_en = 0 /\ awaddr = WriteOf[pc].addr
    /\ bvalid = 1 => Writing /\ awvalid = 0 /\ aw_en = 0
    /\ awvalid = 0 /\ bvalid = 0 => aw_en = 1

ReadInv ==
    /\ arvalid = 1 => Reading /\ rvalid = 0
    /\ arready = 1 => arvalid = 1 /\ araddr = ReadOf[pc]
    /\ rvalid = 1 => Reading /\ arvalid = 0

(* The processor counts clocks only between two accesses of a function. *)
GapInv == gap > 0 => Waiting

(* The start bit is up from the response of the first write of register 0   *)
(* to that of the second.                                                   *)
Started ==
    \/ pc = "set" /\ bvalid = 1
    \/ pc = "get2"
    \/ pc = "clear" /\ bvalid = 0

(* The mode is never touched, the divider is the last one asked for, and a  *)
(* copy the processor works on is still what the register holds.            *)
RegInv ==
    /\ slv_reg[0][0] = 0
    /\ pc = "init" => arg = div
    /\ pc # "init" \/ bvalid = 1 => slv_reg[0][1] = div
    /\ pc \in {"get1", "get2"} /\ rvalid = 1 => rdata = slv_reg[0]
    /\ pc \in {"set", "clear"} /\ bvalid = 0 => tmp = slv_reg[0]
    /\ start = (IF Started THEN 1 ELSE 0)
    /\ (pc = "tx" /\ bvalid = 1) \/ pc \in {"get1", "set", "get2", "clear"} =>
           slv_reg[1][0] = arg

(* The frame in mode 0: the receive register fills with the peer's word. *)
SerialInv ==
    /\ busy = (IF state = "IDLE" THEN 0 ELSE 1)
    /\ done = 1 => state = "IDLE"
    /\ state = "START" => bit_cnt = 0 /\ step = 0
    /\ state = "DATA" => FrontOf(rx_shift_reg, BitsOf(peer), bit_cnt + step)

-----------------------------------------------------------------------------
(* Clocks since the start bit was set, at the latest. *)
Since ==
    CASE pc = "get2" /\ arvalid = 0 /\ rvalid = 0 -> 1 + gap
      [] pc = "get2" /\ arvalid = 1 -> 1 + MaxGap + arready
      [] pc = "get2" /\ rvalid = 1 -> 3 + MaxGap
      [] pc = "clear" /\ awvalid = 0 -> 4 + MaxGap + gap
      [] pc = "clear" /\ awvalid = 1 -> 4 + 2 * MaxGap + awready
      [] OTHER -> 0

(* Half periods of the frame that are over, or just ending. *)
Halves == 2 * bit_cnt + step + half_tick

(* Clocks of the frame that the divider has counted. *)
Counted == Halves * (div + 1) + div_cnt

(* The divider enters a frame one clock ahead, or with the half tick that a *)
(* frame with divider 0 leaves behind: then a half period is over at once.  *)
DividerInv ==
    /\ half_tick = 1 => div_cnt = 0
    /\ state # "DATA" => div_cnt <= 1 /\ (half_tick = 1 => 0 \in Divs)

Ahead == IF 0 \in Divs THEN div ELSE 0

(* While the start bit is up the frame it started cannot end. *)
TimeInv ==
    frames = 1 /\ Started =>
        /\ state # "IDLE"
        /\ state = "START" => Since >= 1
        /\ state = "DATA" => Since >= 2 /\ Counted <= Since + Ahead - 1
        /\ state = "STOP" => 2 * W * (div + 1) <= Since + Ahead - 2

(* A call made on an idle master finds it idle until its frame starts.  A   *)
(* frame runs with a divider that was asked for, which need not be the last *)
(* one: SPI_Init may be called under it.                                    *)
CallInv ==
    /\ frames \in {0, 1}
    /\ pc \in {"init", "tx", "get1", "set"} => frames = 0
    /\ frames = 1 => sent = BitsOf(arg)
    /\ call = "onIdle" => IF pc \in {"tx", "get1", "set"} THEN state = "IDLE" ELSE frames = 1
    /\ pc # "ready" \/ state # "IDLE" => div \in Divs
    /\ state # "IDLE" => clk_div \in Divs
    /\ pc = "init" => call = "none"

-----------------------------------------------------------------------------
(* Everything in its range but the number of frames, which is not a matter  *)
(* of ranges.                                                               *)
HalType ==
    /\ MasterTypeOK /\ Axi!AxiTypeOK
    /\ pc \in Points
    /\ awvalid \in Bit /\ arvalid \in Bit /\ gap \in 0..MaxGap
    /\ arg \in ByteValues /\ ret \in ByteValues /\ tmp \in Axi!RegWord
    /\ peer \in Replies /\ div \in ByteValues
    /\ call \in {"none", "onIdle", "onBusy"} /\ frames \in Nat
    /\ sent \in Word /\ reply \in ByteValues

(* Bytes of the source, and words of four of them. *)
LEMMA Bytes ==
    ASSUME W = 8
    PROVE  /\ ByteValues = 0..255 /\ DivMax = 255 /\ 2^(W - 1) = 128
           /\ Axi!RegWord = [0..3 -> 0..255]
  BY Powers, DividerIsAByte DEF ByteValues, Axi!RegWord

(* A word of which one lane is used. *)
LEMMA RegLanes ==
    ASSUME W = 8, NEW b \in 0..255
    PROVE  /\ Reg(0, b, 0, 0) \in [0..3 -> 0..255] /\ Reg(b, 0, 0, 0) \in [0..3 -> 0..255]
           /\ Reg(0, b, 0, 0)[0] = 0 /\ Reg(0, b, 0, 0)[1] = b /\ Reg(0, b, 0, 0)[3] = 0
           /\ Reg(b, 0, 0, 0)[0] = b
<1>1. /\ \A lane \in 0..3 : <<b, 0, 0, 0>>[lane + 1] \in 0..255
      /\ \A lane \in 0..3 : <<0, b, 0, 0>>[lane + 1] \in 0..255
  OBVIOUS
<1>2. QED
  BY <1>1, Bytes DEF Reg

(* Setting or clearing the start bit leaves the other lanes alone. *)
LEMMA StartBit ==
    ASSUME W = 8, NEW word \in Axi!RegWord
    PROVE  /\ SetStart(word) \in Axi!RegWord /\ ClearStart(word) \in Axi!RegWord
           /\ SetStart(word)[0] = word[0] /\ ClearStart(word)[0] = word[0]
           /\ SetStart(word)[1] = word[1] /\ ClearStart(word)[1] = word[1]
           /\ SetStart(word)[3] \div 2^(W - 1) = 1 /\ ClearStart(word)[3] \div 2^(W - 1) = 0
<1>1. word \in [0..3 -> 0..255] /\ 2^(W - 1) = 128
  BY Bytes
<1>2. word[3] \in 0..255
  BY <1>1
<1>3. 128 + (word[3] % 128) \in 128..255 /\ word[3] % 128 \in 0..127
  BY <1>2
<1>4. /\ SetStart(word) = [word EXCEPT ![3] = 128 + (word[3] % 128)]
      /\ ClearStart(word) = [word EXCEPT ![3] = word[3] % 128]
  BY <1>1 DEF SetStart, ClearStart
<1>5. SetStart(word) \in [0..3 -> 0..255] /\ ClearStart(word) \in [0..3 -> 0..255]
  BY <1>1, <1>3, <1>4
<1>6. SetStart(word)[3] = 128 + (word[3] % 128) /\ ClearStart(word)[3] = word[3] % 128
  BY <1>1, <1>4
<1>7. /\ SetStart(word)[0] = word[0] /\ ClearStart(word)[0] = word[0]
      /\ SetStart(word)[1] = word[1] /\ ClearStart(word)[1] = word[1]
  BY <1>1, <1>4
<1>8. \A x \in 0..127 : (128 + x) \div 128 = 1 /\ x \div 128 = 0
  OBVIOUS
<1>9. SetStart(word)[3] \div 2^(W - 1) = 1 /\ ClearStart(word)[3] \div 2^(W - 1) = 0
  BY <1>1, <1>3, <1>6, <1>8
<1>10. QED
  BY <1>5, <1>7, <1>9, Bytes

(* The accesses of the driver, one by one. *)
LEMMA Accesses ==
    /\ {"ready"} \cup DOMAIN WriteOf \cup DOMAIN ReadOf = Points
    /\ Writing <=> pc \in {"init", "tx", "set", "clear"}
    /\ Reading <=> pc \in {"get1", "get2", "poll", "read"}
    /\ pc = "init" => WriteOf[pc].addr = 0 /\ WriteOf[pc].data = Reg(0, arg, 0, 0)
    /\ pc = "tx" => WriteOf[pc].addr = 1 /\ WriteOf[pc].data = Reg(arg, 0, 0, 0)
    /\ pc = "set" => WriteOf[pc].addr = 0 /\ WriteOf[pc].data = SetStart(tmp)
    /\ pc = "clear" => WriteOf[pc].addr = 0 /\ WriteOf[pc].data = ClearStart(tmp)
    /\ pc \in {"get1", "get2"} => ReadOf[pc] = 0
    /\ pc = "poll" => ReadOf[pc] = 2
    /\ pc = "read" => ReadOf[pc] = 3
<1>1. DOMAIN WriteOf = {"init", "tx", "set", "clear"}
  <2>1. \A a, b, c, d : DOMAIN [init |-> a, tx |-> b, set |-> c, clear |-> d]
                           = {"init", "tx", "set", "clear"}
    OBVIOUS
  <2>2. QED
    BY <2>1, Zenon DEF WriteOf
<1>2. DOMAIN ReadOf = {"get1", "get2", "poll", "read"}
  BY DEF ReadOf
<1>3. /\ WriteOf["init"] = [addr |-> 0, data |-> Reg(0, arg, 0, 0)]
      /\ WriteOf["tx"] = [addr |-> 1, data |-> Reg(arg, 0, 0, 0)]
      /\ WriteOf["set"] = [addr |-> 0, data |-> SetStart(tmp)]
      /\ WriteOf["clear"] = [addr |-> 0, data |-> ClearStart(tmp)]
  BY DEF WriteOf
<1>4. ReadOf["get1"] = 0 /\ ReadOf["get2"] = 0 /\ ReadOf["poll"] = 2 /\ ReadOf["read"] = 3
  BY DEF ReadOf
<1>5. QED
  BY <1>1, <1>2, <1>3, <1>4 DEF Points, Writing, Reading

(* What is written is a word, and it goes to one of the first two registers. *)
LEMMA WrittenWord ==
    ASSUME W = 8, HalType, Writing
    PROVE  /\ WriteOf[pc].addr \in {0, 1} /\ WriteOf[pc].data \in [0..3 -> 0..255]
<1>1. arg \in 0..255 /\ tmp \in Axi!RegWord /\ Axi!RegWord = [0..3 -> 0..255]
  BY Bytes DEF HalType
<1>2. SetStart(tmp) \in [0..3 -> 0..255] /\ ClearStart(tmp) \in [0..3 -> 0..255]
  BY <1>1, StartBit
<1>3. CASE pc \in {"init", "tx"}
  <2>1. Reg(0, arg, 0, 0) \in [0..3 -> 0..255] /\ Reg(arg, 0, 0, 0) \in [0..3 -> 0..255]
    BY <1>1, RegLanes
  <2>2. QED
    BY <1>3, <2>1, Accesses
<1>4. CASE pc \in {"set", "clear"}
  BY <1>2, <1>4, Accesses
<1>5. QED
  BY <1>3, <1>4, Accesses

-----------------------------------------------------------------------------
(* A clock edge on the write channels: nothing asked, asked, taken, or      *)
(* answered; only the third changes a register.                             *)
NoWrite == awvalid = 0 /\ bvalid = 0
WriteAsked == awvalid = 1 /\ awready = 0
WriteTaken == awready = 1
WriteAnswered == bvalid = 1

WriteSteps ==
    /\ NoWrite => awvalid' = 0 /\ awready' = 0 /\ bvalid' = 0 /\ aw_en' = 1
    /\ WriteAsked => awvalid' = 1 /\ awready' = 1 /\ bvalid' = 0 /\ aw_en' = 0
    /\ WriteTaken => awvalid' = 0 /\ awready' = 0 /\ bvalid' = 1 /\ aw_en' = 0
    /\ WriteAnswered => awvalid' = 0 /\ awready' = 0 /\ bvalid' = 0 /\ aw_en' = 1
    /\ wready' = awready' /\ awaddr' = (IF WriteAsked THEN WriteOf[pc].addr ELSE awaddr)
    /\ ~WriteTaken => slv_reg' = slv_reg

LEMMA ClockWrite ==
    ASSUME HalType, WriteInv, Clock
    PROVE  WriteSteps
<1> DEFINE op == IF Writing THEN WriteOf[pc] ELSE WriteOf["tx"]
<1>1. /\ Axi!AwReady(awvalid, awvalid, 1) /\ Axi!AwAddr(awvalid, awvalid, op.addr)
      /\ Axi!WReady(awvalid, awvalid) /\ Axi!BValid(awvalid, awvalid, 1)
      /\ Axi!RegisterWrite(awvalid, awvalid, op.data, 0..3)
  BY DEF Clock, PeripheralEdge, Axi!AxiEdge
<1>2. awvalid' = IF awready = 1 THEN 0 ELSE awvalid
  BY DEF Clock, Processor
<1>3. /\ awvalid \in Bit /\ awready \in Bit /\ bvalid \in Bit /\ aw_en \in Bit
      /\ wready = awready
      /\ (awready = 1 \/ awvalid = 1) => Writing
  BY DEF HalType, Axi!AxiTypeOK, Axi!Flag, WriteInv
<1> USE DEF WriteInv, WriteSteps, NoWrite, WriteAsked, WriteTaken, WriteAnswered,
            Axi!AwReady, Axi!AwAddr, Axi!WReady, Axi!BValid, Axi!TakesWrite,
            Axi!slv_reg_wren, Axi!RegisterWrite
<1>4. CASE NoWrite
  BY <1>1, <1>2, <1>3, <1>4
<1>5. CASE WriteAsked
  BY <1>1, <1>2, <1>3, <1>5
<1>6. CASE WriteTaken
  BY <1>1, <1>2, <1>3, <1>6
<1>7. CASE WriteAnswered
  BY <1>1, <1>2, <1>3, <1>7
<1>8. QED
  BY <1>3, <1>4, <1>5, <1>6, <1>7

(* The register written takes the whole word, and no other changes. *)
LEMMA ClockRegister ==
    ASSUME W = 8, HalType, WriteInv, Clock, WriteTaken
    PROVE  slv_reg' = [slv_reg EXCEPT ![WriteOf[pc].addr] = WriteOf[pc].data]
<1> DEFINE op == IF Writing THEN WriteOf[pc] ELSE WriteOf["tx"]
<1>1. /\ Writing /\ awvalid = 1 /\ wready = 1 /\ awready = 1 /\ awaddr = WriteOf[pc].addr
      /\ Axi!RegisterWrite(awvalid, awvalid, op.data, 0..3)
  BY DEF Clock, PeripheralEdge, Axi!AxiEdge, WriteTaken, WriteInv
<1>2. WriteOf[pc].data \in [0..3 -> 0..255]
  BY <1>1, WrittenWord
<1>3. \A old : Axi!Strobed(old, WriteOf[pc].data, 0..3) = WriteOf[pc].data
  BY <1>2 DEF Axi!Strobed
<1>4. QED
  BY <1>1, <1>3 DEF Axi!RegisterWrite, Axi!slv_reg_wren

(* A clock edge on the read channels; rdata changes when the address has    *)
(* been taken.                                                              *)
NoRead == arvalid = 0 /\ rvalid = 0
ReadAsked == arvalid = 1 /\ arready = 0
ReadTaken == arready = 1
ReadAnswered == rvalid = 1

ReadSteps ==
    /\ NoRead => arvalid' = 0 /\ arready' = 0 /\ rvalid' = 0
    /\ ReadAsked => arvalid' = 1 /\ arready' = 1 /\ rvalid' = 0
    /\ ReadTaken => arvalid' = 0 /\ arready' = 0 /\ rvalid' = 1
    /\ ReadAnswered => arvalid' = 0 /\ arready' = 0 /\ rvalid' = 0
    /\ araddr' = (IF ReadAsked THEN ReadOf[pc] ELSE araddr)
    /\ rdata' = IF ~ReadTaken THEN rdata
                ELSE CASE ReadOf[pc] = 2 -> STATE_REG
                       [] ReadOf[pc] = 3 -> RX_REG
                       [] OTHER -> slv_reg[ReadOf[pc]]

LEMMA ClockRead ==
    ASSUME HalType, ReadInv, Clock
    PROVE  ReadSteps
<1> DEFINE addr == IF Reading THEN ReadOf[pc] ELSE 0
<1>1. /\ Axi!ArReady(arvalid, addr) /\ Axi!RValid(arvalid, 1)
      /\ Axi!RData(arvalid, STATE_REG, RX_REG)
  BY DEF Clock, PeripheralEdge, Axi!AxiEdge
<1>2. arvalid' = IF arready = 1 THEN 0 ELSE arvalid
  BY DEF Clock, Processor
<1>3. /\ arvalid \in Bit /\ arready \in Bit /\ rvalid \in Bit
      /\ (arready = 1 \/ arvalid = 1) => Reading
  BY DEF HalType, Axi!AxiTypeOK, Axi!Flag, ReadInv
<1> USE DEF ReadInv, ReadSteps, NoRead, ReadAsked, ReadTaken, ReadAnswered, Axi!ArReady,
            Axi!RValid, Axi!RData, Axi!slv_reg_rden, Axi!reg_data_out
<1>4. CASE NoRead
  BY <1>1, <1>2, <1>3, <1>4
<1>5. CASE ReadAsked
  BY <1>1, <1>2, <1>3, <1>5
<1>6. CASE ReadTaken
  BY <1>1, <1>2, <1>3, <1>6
<1>7. CASE ReadAnswered
  BY <1>1, <1>2, <1>3, <1>7
<1>8. QED
  BY <1>3, <1>4, <1>5, <1>6, <1>7

-----------------------------------------------------------------------------
(* A function is at one point until the access there is answered. *)
Answered == WriteAnswered \/ ReadAnswered

LEMMA Held ==
    ASSUME Clock, ~Answered
    PROVE  /\ UNCHANGED <<pc, tmp, ret, arg>> /\ WriteOf' = WriteOf /\ ReadOf' = ReadOf
           /\ (Writing <=> Writing') /\ (Reading <=> Reading')
<1>1. UNCHANGED <<pc, tmp, ret, arg>>
  BY DEF Clock, Processor, WriteDone, ReadDone, Answered, WriteAnswered, ReadAnswered
<1>2. WriteOf' = WriteOf /\ ReadOf' = ReadOf
  BY <1>1 DEF WriteOf, ReadOf
<1>3. QED
  BY <1>1, <1>2 DEF Writing, Reading

(* Then it moves on. *)
LEMMA MovesOn ==
    ASSUME HalType, WriteInv, ReadInv, Clock, Answered
    PROVE  /\ NoRead \/ NoWrite
           /\ <<pc, pc'>> \in {<<"init", "ready">>, <<"tx", "get1">>, <<"set", "get2">>,
                              <<"clear", "poll">>, <<"get1", "set">>, <<"get2", "clear">>,
                              <<"poll", "poll">>, <<"poll", "read">>, <<"read", "ready">>}
           /\ tmp' = (IF pc \in {"get1", "get2"} THEN rdata ELSE tmp)
           /\ ret' = (IF pc = "read" THEN rdata[0] ELSE ret)
           /\ arg' = arg
<1> USE DEF Clock, Processor, Answered, WriteAnswered, ReadAnswered, WriteInv, ReadInv,
            NoRead, NoWrite
<1>0. /\ bvalid \in Bit /\ rvalid \in Bit /\ awvalid \in Bit /\ arvalid \in Bit
  BY DEF HalType, Axi!AxiTypeOK, Axi!Flag
<1>1. CASE WriteAnswered
  <2>1. WriteDone /\ pc \in {"init", "tx", "set", "clear"}
    BY <1>1, Accesses DEF ReadDone
  <2>2. QED
    BY <1>0, <2>1, Accesses DEF WriteDone
<1>2. CASE ReadAnswered
  <2>1. ReadDone /\ pc \in {"get1", "get2", "poll", "read"}
    BY <1>2, Accesses DEF WriteDone
  <2>2. QED
    BY <1>0, <2>1, Accesses DEF ReadDone
<1>3. QED
  BY <1>1, <1>2

Handshakes == WriteInv /\ ReadInv /\ GapInv

(* A clock edge keeps the accesses in order. *)
LEMMA ClockHandshakes ==
    ASSUME HalType, Handshakes, Clock
    PROVE  Handshakes'
<1> USE DEF Handshakes
<1>0. /\ awvalid \in Bit /\ awready \in Bit /\ bvalid \in Bit /\ aw_en \in Bit
      /\ arvalid \in Bit /\ arready \in Bit /\ rvalid \in Bit /\ gap \in Nat
  BY HalAssumption DEF HalType, Axi!AxiTypeOK, Axi!Flag
<1>1. WriteSteps /\ ReadSteps
  BY ClockWrite, ClockRead
<1> USE DEF NoWrite, WriteAsked, WriteTaken, WriteAnswered, NoRead, ReadAsked, ReadTaken,
            ReadAnswered
<1>2. CASE Answered
  <2>1. NoRead \/ NoWrite
    BY <1>2, MovesOn
  <2>2. /\ awvalid' = 0 /\ awready' = 0 /\ wready' = 0 /\ bvalid' = 0 /\ aw_en' = 1
        /\ arvalid' = 0 /\ arready' = 0 /\ rvalid' = 0
    BY <1>0, <1>1, <1>2, <2>1 DEF Answered, WriteSteps, ReadSteps
  <2>3. gap' = 0
    BY <1>0, <1>2 DEF Answered, Clock, Pace, Waiting, GapInv
  <2>4. QED
    BY <2>2, <2>3 DEF WriteInv, ReadInv, GapInv
<1>3. CASE ~Answered
  <2>1. /\ pc' = pc /\ WriteOf' = WriteOf /\ ReadOf' = ReadOf
        /\ (Writing <=> Writing') /\ (Reading <=> Reading')
    BY <1>3, Held
  <2>2. WriteInv'
    <3>1. CASE NoWrite
      BY <1>1, <2>1, <3>1 DEF WriteSteps, WriteInv
    <3>2. CASE WriteAsked
      BY <1>0, <1>1, <2>1, <3>2 DEF WriteSteps, WriteInv
    <3>3. CASE WriteTaken
      BY <1>1, <2>1, <3>3 DEF WriteSteps, WriteInv
    <3>4. QED
      BY <1>0, <1>3, <3>1, <3>2, <3>3 DEF Answered
  <2>3. ReadInv'
    <3>1. CASE NoRead
      BY <1>1, <2>1, <3>1 DEF ReadSteps, ReadInv
    <3>2. CASE ReadAsked
      BY <1>0, <1>1, <2>1, <3>2 DEF ReadSteps, ReadInv
    <3>3. CASE ReadTaken
      BY <1>1, <2>1, <3>3 DEF ReadSteps, ReadInv
    <3>4. QED
      BY <1>0, <1>3, <3>1, <3>2, <3>3 DEF Answered
  <2>4. GapInv'
    <3>1. CASE Waiting
      BY <1>1, <2>1, <3>1 DEF Waiting, GapInv, WriteSteps, ReadSteps
    <3>2. CASE ~Waiting
      BY <1>0, <3>2 DEF GapInv, Clock, Pace
    <3>3. QED
      BY <3>1, <3>2
  <2>5. QED
    BY <2>2, <2>3, <2>4
<1>4. QED
  BY <1>2, <1>3

-----------------------------------------------------------------------------
(* The wires between the two halves of the peripheral. *)
LEMMA PortTypes ==
    ASSUME W = 8, HalType
    PROVE  /\ cpol \in Bit /\ start \in Bit /\ tx_data \in Word /\ BitsOf(peer) \in Word
           /\ STATE_REG \in Axi!RegWord /\ RX_REG \in Axi!RegWord
<1>1. slv_reg \in [0..3 -> [0..3 -> 0..255]]
  BY Bytes DEF HalType, Axi!AxiTypeOK, Axi!Regs
<1>2. /\ slv_reg[0] \in [0..3 -> 0..255] /\ slv_reg[1] \in [0..3 -> 0..255]
  BY <1>1
<1>3. slv_reg[0][0] \in Nat /\ slv_reg[0][3] \in 0..255 /\ slv_reg[1][0] \in Nat
  BY <1>2
<1>4. cpol \in Bit
  BY <1>3 DEF cpol
<1>5. start \in Bit
  BY <1>3, Bytes DEF start
<1>6. tx_data \in Word /\ BitsOf(peer) \in Word
  <2>1. peer \in Nat
    BY Bytes, HalAssumption DEF HalType
  <2>2. QED
    BY <1>3, <2>1, BitsOfWord DEF tx_data
<1>7. 2 * busy + done \in 0..255 /\ NumberOf(rx_data) \in 0..255 /\ 0 \in 0..255
  BY Bytes, NumberOfByte DEF HalType, MasterTypeOK
<1>8. STATE_REG \in [0..3 -> 0..255] /\ RX_REG \in [0..3 -> 0..255]
  BY <1>7, RegLanes DEF STATE_REG, RX_REG
<1>9. QED
  BY <1>4, <1>5, <1>6, <1>8, Bytes

(* A clock edge keeps everything in range. *)
LEMMA ClockType ==
    ASSUME W = 8, HalType, Handshakes, Clock
    PROVE  HalType'
<1>0. WriteSteps /\ ReadSteps
  BY ClockWrite, ClockRead DEF Handshakes
<1>1. MasterTypeOK'
  <2>1. MasterEdge(cpol, cpha, clk_div, tx_data, start, BitsOf(peer)[bit_cnt + 1])
    BY DEF Clock, PeripheralEdge
  <2>2. bit_cnt + 1 \in 1..W
    BY DEF HalType, MasterTypeOK
  <2>3. BitsOf(peer)[bit_cnt + 1] \in Bit
    BY <2>2, PortTypes DEF Word
  <2>4. QED
    BY <2>1, <2>3, PortTypes, EdgeType DEF HalType
<1>2. /\ awvalid' \in Bit /\ arvalid' \in Bit
      /\ awready' \in Bit /\ aw_en' \in Bit /\ wready' \in Bit /\ bvalid' \in Bit
      /\ arready' \in Bit /\ rvalid' \in Bit
  BY <1>0
  DEF WriteSteps, ReadSteps, NoWrite, WriteAsked, WriteTaken, WriteAnswered, NoRead,
      ReadAsked, ReadTaken, ReadAnswered, HalType, Axi!AxiTypeOK, Axi!Flag
<1>3. awaddr' \in 0..3 /\ araddr' \in 0..3
  <2>1. awaddr \in 0..3 /\ araddr \in 0..3
    BY DEF HalType, Axi!AxiTypeOK, Axi!Regs
  <2>2. awaddr' = awaddr \/ (Writing /\ awaddr' = WriteOf[pc].addr)
    BY <1>0 DEF WriteSteps, WriteAsked, Handshakes, WriteInv
  <2>3. araddr' = araddr \/ (Reading /\ araddr' = ReadOf[pc])
    BY <1>0 DEF ReadSteps, ReadAsked, Handshakes, ReadInv
  <2>4. QED
    BY <2>1, <2>2, <2>3, WrittenWord, Accesses
<1>4. slv_reg' \in [0..3 -> [0..3 -> 0..255]]
  <2>1. slv_reg \in [0..3 -> [0..3 -> 0..255]]
    BY Bytes DEF HalType, Axi!AxiTypeOK, Axi!Regs
  <2>2. CASE WriteTaken
    <3>1. Writing
      BY <2>2 DEF WriteTaken, Handshakes, WriteInv
    <3>2. QED
      BY <2>1, <2>2, <3>1, ClockRegister, WrittenWord DEF Handshakes
  <2>3. CASE ~WriteTaken
    BY <1>0, <2>1, <2>3 DEF WriteSteps
  <2>4. QED
    BY <2>2, <2>3
<1>5. rdata' \in Axi!RegWord
  <2>1. rdata' \in {rdata, STATE_REG, RX_REG} \/ (Reading /\ rdata' = slv_reg[ReadOf[pc]])
    BY <1>0 DEF ReadSteps, ReadTaken, Handshakes, ReadInv
  <2>2. Reading => slv_reg[ReadOf[pc]] \in Axi!RegWord
    BY Accesses DEF HalType, Axi!AxiTypeOK, Axi!Regs
  <2>3. QED
    BY <2>1, <2>2, PortTypes DEF HalType, Axi!AxiTypeOK
<1>6. /\ pc' \in Points /\ arg' \in ByteValues /\ tmp' \in Axi!RegWord
      /\ ret' \in ByteValues
  <2>1. rdata[0] \in ByteValues /\ rdata \in Axi!RegWord
    BY DEF HalType, Axi!AxiTypeOK, Axi!RegWord
  <2>2. CASE Answered
    BY <2>1, <2>2, MovesOn DEF HalType, Handshakes, Points
  <2>3. CASE ~Answered
    BY <2>3, Held DEF HalType
  <2>4. QED
    BY <2>2, <2>3
<1>7. gap' \in 0..MaxGap
  BY HalAssumption DEF HalType, Clock, Pace
<1>8. sent' \in Word /\ reply' \in ByteValues /\ frames' \in Nat
  BY PortTypes, HalAssumption DEF HalType, Clock
<1>9. UNCHANGED <<peer, div, call>>
  BY DEF Clock
<1>10. Axi!AxiTypeOK'
  BY <1>2, <1>3, <1>4, <1>5, Bytes DEF Axi!AxiTypeOK, Axi!Flag, Axi!Regs
<1>11. QED
  BY <1>1, <1>2, <1>6, <1>7, <1>8, <1>9, <1>10 DEF HalType

-----------------------------------------------------------------------------
(* The write takes effect: what each of the four writes makes of the         *)
(* registers.                                                                *)
LEMMA WriteEffect ==
    ASSUME W = 8, HalType, Handshakes, RegInv, Clock, WriteTaken
    PROVE  /\ bvalid' = 1 /\ rvalid' = 0 /\ UNCHANGED <<pc, arg, tmp, div>>
           /\ slv_reg'[0][0] = 0 /\ slv_reg'[0][1] = div
           /\ pc \in {"init", "tx", "set", "clear"}
           /\ start' = (IF pc = "set" THEN 1 ELSE 0)
           /\ pc # "init" => slv_reg'[1][0] = arg
<1>1. /\ bvalid' = 1 /\ bvalid = 0 /\ pc \in {"init", "tx", "set", "clear"} /\ ~Answered /\ NoRead
  <2>1. Writing /\ bvalid = 0 /\ arvalid = 0 /\ rvalid = 0
    BY Accesses
    DEF WriteTaken, Handshakes, WriteInv, ReadInv, HalType, Axi!AxiTypeOK, Axi!Flag
  <2>2. bvalid' = 1
    BY ClockWrite DEF Handshakes, WriteSteps
  <2>3. QED
    BY <2>1, <2>2, Accesses DEF Answered, WriteAnswered, ReadAnswered, NoRead
<1>2. UNCHANGED <<pc, arg, tmp, div>> /\ rvalid' = 0
  BY <1>1, Held, ClockRead DEF Clock, Handshakes, ReadSteps
<1>3. /\ slv_reg \in [0..3 -> [0..3 -> 0..255]] /\ tmp \in Axi!RegWord
      /\ arg \in 0..255 /\ 0 \in 0..255 /\ 2^(W - 1) = 128
  BY Bytes DEF HalType, Axi!AxiTypeOK, Axi!Regs
<1>4. slv_reg' = [slv_reg EXCEPT ![WriteOf[pc].addr] = WriteOf[pc].data]
  BY ClockRegister DEF Handshakes
<1> HIDE DEF WriteTaken
<1>5. CASE pc = "init"
  <2>1. slv_reg'[0] = Reg(0, arg, 0, 0)
    BY <1>3, <1>4, <1>5, Accesses
  <2>2. Reg(0, arg, 0, 0)[0] = 0 /\ Reg(0, arg, 0, 0)[1] = arg /\ Reg(0, arg, 0, 0)[3] = 0
    BY <1>3, RegLanes
  <2>3. QED
    BY <1>1, <1>2, <1>3, <1>5, <2>1, <2>2 DEF RegInv, start
<1>6. CASE pc = "tx"
  <2>1. slv_reg'[1] = Reg(arg, 0, 0, 0) /\ slv_reg'[0] = slv_reg[0]
    BY <1>3, <1>4, <1>6, Accesses
  <2>2. Reg(arg, 0, 0, 0)[0] = arg
    BY <1>3, RegLanes
  <2>3. start' = start
    BY <2>1 DEF start
  <2>4. QED
    BY <1>1, <1>2, <1>6, <2>1, <2>2, <2>3 DEF RegInv, Started
<1>7. CASE pc = "set"
  <2>1. slv_reg'[0] = SetStart(slv_reg[0]) /\ slv_reg'[1] = slv_reg[1]
    BY <1>1, <1>3, <1>4, <1>7, Accesses DEF RegInv
  <2>2. slv_reg[0] \in Axi!RegWord
    BY <1>3, Bytes
  <2>3. QED
    BY <1>1, <1>2, <1>7, <2>1, <2>2, StartBit DEF RegInv, start
<1>8. CASE pc = "clear"
  <2>1. slv_reg'[0] = ClearStart(slv_reg[0]) /\ slv_reg'[1] = slv_reg[1]
    BY <1>1, <1>3, <1>4, <1>8, Accesses DEF RegInv
  <2>2. slv_reg[0] \in Axi!RegWord
    BY <1>3, Bytes
  <2>3. QED
    BY <1>1, <1>2, <1>8, <2>1, <2>2, StartBit DEF RegInv, start
<1>9. QED
  BY <1>1, <1>5, <1>6, <1>7, <1>8

(* The registers keep to the driver at a clock edge. *)
LEMMA ClockRegInv ==
    ASSUME W = 8, HalType, Handshakes, RegInv, Clock
    PROVE  RegInv'
<1>1. CASE WriteTaken
  BY <1>1, WriteEffect DEF RegInv, Started
<1>2. CASE ~WriteTaken
  <2>1. slv_reg' = slv_reg /\ start' = start /\ div' = div
    BY <1>2, ClockWrite DEF Handshakes, WriteSteps, start, Clock
  <2>2. bvalid' = 0
    BY <1>2, ClockWrite
    DEF Handshakes, WriteSteps, NoWrite, WriteAsked, WriteTaken, WriteAnswered, HalType,
        Axi!AxiTypeOK, Axi!Flag
  <2>3. CASE Answered
    <3>1. pc = "set" => bvalid = 1
      BY <2>3, Accesses DEF Answered, WriteAnswered, ReadAnswered, Handshakes, ReadInv
    <3>2. pc \in {"init", "tx", "clear"} => bvalid = 1
      BY <2>3, Accesses DEF Answered, WriteAnswered, ReadAnswered, Handshakes, ReadInv
    <3>3. pc \in {"get1", "get2", "poll", "read"} => rvalid = 1
      BY <2>3, Accesses DEF Answered, WriteAnswered, ReadAnswered, Handshakes, WriteInv
    <3>4. rvalid' = 0
      BY <2>3, MovesOn, ClockRead, Accesses
      DEF Answered, WriteAnswered, ReadAnswered, Handshakes, ReadSteps, WriteInv, ReadInv,
          NoRead, NoWrite, HalType, Axi!AxiTypeOK, Axi!Flag
    <3>5. /\ <<pc, pc'>> \in {<<"init", "ready">>, <<"tx", "get1">>, <<"set", "get2">>,
                              <<"clear", "poll">>, <<"get1", "set">>, <<"get2", "clear">>,
                              <<"poll", "poll">>, <<"poll", "read">>, <<"read", "ready">>}
          /\ tmp' = (IF pc \in {"get1", "get2"} THEN rdata ELSE tmp) /\ arg' = arg
      BY <2>3, MovesOn DEF Handshakes
    <3>6. QED
      BY <2>1, <2>2, <3>1, <3>2, <3>3, <3>4, <3>5 DEF RegInv, Started
  <2>4. CASE ~Answered
    <3>1. UNCHANGED <<pc, arg, tmp>> /\ bvalid = 0
      BY <2>4, Held DEF Answered, WriteAnswered, HalType, Axi!AxiTypeOK, Axi!Flag
    <3>2. pc \in {"get1", "get2"} /\ rvalid' = 1 => rdata' = slv_reg[0]
      BY <2>4, ClockRead, Accesses
      DEF Handshakes, ReadSteps, NoRead, ReadAsked, ReadTaken, Answered, ReadAnswered, HalType,
          Axi!AxiTypeOK, Axi!Flag
    <3>3. QED
      BY <2>1, <2>2, <3>1, <3>2 DEF RegInv, Started
  <2>5. QED
    BY <2>3, <2>4
<1>3. QED
  BY <1>1, <1>2

-----------------------------------------------------------------------------
(* The master only ever sees mode 0. *)
LEMMA ModeZero ==
    ASSUME RegInv
    PROVE  cpol = 0 /\ cpha = 0
  BY DEF RegInv, cpol, cpha

Miso == BitsOf(peer)[bit_cnt + 1]

(* The branches of the state machine that a clock edge can take. *)
LEMMA ClockFsm ==
    ASSUME RegInv, Clock
    PROVE  /\ Fsm(0, 0, tx_data, start, Miso) /\ Divider(clk_div) /\ UNCHANGED <<peer, div, call>>
           /\ IF state = "IDLE" /\ start = 1
              THEN sent' = tx_data /\ reply' = peer /\ frames' = frames + 1
              ELSE UNCHANGED <<sent, reply, frames>>
  BY ModeZero DEF Clock, PeripheralEdge, MasterEdge, Miso

(* The bits of the peer's word arrive in order. *)
LEMMA ClockSerial ==
    ASSUME W = 8, HalType, RegInv, SerialInv, Clock
    PROVE  SerialInv'
<1> DEFINE s == BitsOf(peer)
<1>1. s \in Word /\ s' = s /\ Fsm(0, 0, tx_data, start, s[bit_cnt + 1])
  BY PortTypes, ClockFsm DEF Miso
<1>2. rx_shift_reg \in Word /\ bit_cnt \in 0..(W - 1) /\ step \in Bit
  BY DEF HalType, MasterTypeOK
<1> HIDE DEF s
<1> DEFINE Front == FrontOf(rx_shift_reg, s, bit_cnt + step)
<1>3. state = "DATA" => Front
  BY DEF SerialInv, s
<1>4. SUFFICES /\ busy' = (IF state' = "IDLE" THEN 0 ELSE 1)
               /\ done' = 1 => state' = "IDLE"
               /\ state' = "START" => bit_cnt' = 0 /\ step' = 0
               /\ state' = "DATA" => Front'
  BY DEF SerialInv, s
<1>5. CASE IdleEdge(0, tx_data, start)
  BY <1>5 DEF IdleEdge, IdleOutputs, SerialInv
<1>6. CASE StartEdge(0)
  <2>1. bit_cnt' + step' = 0 /\ rx_shift_reg' = rx_shift_reg
    BY <1>6 DEF StartEdge, Drive, SerialInv
  <2>2. FrontOf(rx_shift_reg, s, 0)
    BY <1>1, <1>2, WordEnds
  <2>3. Front'
    BY <1>1, <2>1, <2>2
  <2>4. QED
    BY <1>6, <2>3 DEF StartEdge, SerialInv
<1>7. CASE WaitEdge
  <2>1. state = "DATA" /\ UNCHANGED <<rx_shift_reg, bit_cnt, step>>
    BY <1>7 DEF WaitEdge
  <2>2. Front'
    BY <1>1, <1>3, <2>1
  <2>3. QED
    BY <1>7, <2>2 DEF WaitEdge, SerialInv
<1>8. CASE LeadingEdge(0, s[bit_cnt + 1])
  <2>1. /\ state = "DATA" /\ step = 0 /\ step' = 1 /\ bit_cnt' = bit_cnt
        /\ rx_shift_reg' = ShiftIn(rx_shift_reg, s[bit_cnt + 1])
    BY <1>8 DEF LeadingEdge, Sample
  <2>2. FrontOf(rx_shift_reg, s, bit_cnt)
    BY <1>2, <1>3, <2>1
  <2>3. FrontOf(rx_shift_reg', s, bit_cnt + 1)
    BY <1>1, <1>2, <2>1, <2>2, BitArrives
  <2>4. Front'
    BY <1>1, <2>1, <2>3
  <2>5. QED
    BY <1>8, <2>4 DEF LeadingEdge, SerialInv
<1>9. CASE TrailingEdge(0, s[bit_cnt + 1])
  <2>1. /\ state = "DATA" /\ step = 1 /\ step' = 0 /\ bit_cnt' = bit_cnt + 1
        /\ rx_shift_reg' = rx_shift_reg
    BY <1>9 DEF TrailingEdge, Drive
  <2>2. bit_cnt' + step' = bit_cnt + step
    BY <1>2, <2>1
  <2>3. Front'
    BY <1>1, <1>3, <2>1, <2>2
  <2>4. QED
    BY <1>9, <2>3 DEF TrailingEdge, SerialInv
<1>10. CASE LastEdge(0, s[bit_cnt + 1])
  BY <1>10 DEF LastEdge, SerialInv
<1>11. CASE StopEdge(0)
  BY <1>11 DEF StopEdge, StopOutputs, SerialInv
<1>12. QED
  BY <1>1, <1>5, <1>6, <1>7, <1>8, <1>9, <1>10, <1>11 DEF Fsm

(* The word that becomes visible at the end of the frame is the peer's. *)
LEMMA WordReceived ==
    ASSUME W = 8, HalType, SerialInv, LastEdge(0, Miso)
    PROVE  rx_data' = BitsOf(peer)
<1>1. BitsOf(peer) \in Word /\ rx_shift_reg \in Word
  BY PortTypes DEF HalType, MasterTypeOK
<1>2. state = "DATA" /\ bit_cnt + step = W /\ rx_data' = rx_shift_reg
  BY DEF LastEdge, LastBit, Received
<1>3. FrontOf(rx_shift_reg, BitsOf(peer), W)
  BY <1>2 DEF SerialInv
<1>4. QED
  BY <1>1, <1>2, <1>3, WordEnds

-----------------------------------------------------------------------------
(* The driver and the peripheral below it, however slow the processor is.   *)
Inv == HalType /\ Handshakes /\ RegInv /\ SerialInv

LEMMA InvInit ==
    ASSUME W = 8, Init
    PROVE  Inv
<1>1. MasterTypeOK /\ 0 \in 0..255 /\ 0 \in ByteValues /\ 0 \in 0..MaxGap
  BY ResetType, Bytes, HalAssumption DEF Init, PeripheralInit
<1>2. Axi!Cleared \in [0..3 -> 0..255] /\ \A l \in 0..3 : Axi!Cleared[l] = 0
  BY DEF Axi!Cleared
<1>3. Axi!AxiTypeOK
  BY <1>2, Bytes DEF Init, PeripheralInit, Axi!AxiInit, Axi!AxiTypeOK, Axi!Flag, Axi!Regs
<1>4. HalType
  <2>1. tmp \in Axi!RegWord
    BY <1>1, RegLanes, Bytes DEF Init
  <2>2. QED
    BY <1>1, <1>3, <2>1, ZeroWord DEF Init, HalType, Points
<1>5. Handshakes
  BY DEF Init, PeripheralInit, Axi!AxiInit, Handshakes, WriteInv, ReadInv, GapInv
<1>6. RegInv
  <2>1. slv_reg[0] = Axi!Cleared /\ 0 \div 128 = 0
    BY DEF Init, PeripheralInit, Axi!AxiInit, Axi!Regs
  <2>2. start = 0
    BY <1>2, <2>1, Bytes DEF start
  <2>3. QED
    BY <1>2, <2>1, <2>2 DEF Init, RegInv, Started
<1>7. SerialInv
  BY DEF Init, PeripheralInit, MasterInit, SerialInv
<1>8. QED
  BY <1>4, <1>5, <1>6, <1>7 DEF Inv

(* The application calls a function between two others. *)
LEMMA CallKeeps ==
    ASSUME W = 8, Inv,
           (\E d \in Divs : SPI_Init(d)) \/ (\E d \in Data : SPI_Excute(d))
    PROVE  Inv'
<1>1. PICK d \in ByteValues : SPI_Init(d) \/ SPI_Excute(d)
  BY HalAssumption
<1>2. /\ pc = "ready" /\ pc' \in {"init", "tx"} /\ arg' = d /\ gap' = 0
      /\ pc' = "init" => div' = d
      /\ pc' = "tx" => div' = div
      /\ UNCHANGED <<masterVars, axiVars, awvalid, arvalid, tmp, ret, peer, sent, reply>>
      /\ call' \in {"none", "onIdle", "onBusy"} /\ frames' = 0 /\ div' \in ByteValues
  BY <1>1 DEF SPI_Init, SPI_Excute, Inv, HalType
<1>3. /\ awvalid = 0 /\ bvalid = 0 /\ arvalid = 0 /\ rvalid = 0 /\ awready = 0 /\ arready = 0
  BY <1>2, Accesses
  DEF Inv, HalType, Axi!AxiTypeOK, Axi!Flag, Handshakes, WriteInv, ReadInv
<1>4. HalType'
  <2>1. MasterTypeOK'
    BY <1>2 DEF Inv, HalType, MasterTypeOK, masterVars
  <2>2. Axi!AxiTypeOK'
    BY <1>2 DEF Inv, HalType, Axi!AxiTypeOK, axiVars
  <2>3. 0 \in 0..MaxGap /\ 0 \in Nat
    BY HalAssumption
  <2>4. QED
    BY <1>2, <2>1, <2>2, <2>3 DEF Inv, HalType, Points
<1>5. Handshakes'
  BY <1>2, <1>3 DEF Inv, Handshakes, WriteInv, ReadInv, GapInv, axiVars
<1>6. RegInv'
  <2>1. start' = start /\ slv_reg' = slv_reg
    BY <1>2 DEF start, axiVars
  <2>2. QED
    BY <1>2, <1>3, <2>1 DEF Inv, RegInv, Started, axiVars
<1>7. SerialInv'
  BY <1>2 DEF Inv, SerialInv, masterVars
<1>8. QED
  BY <1>4, <1>5, <1>6, <1>7 DEF Inv

(* The processor puts an access on the bus. *)
LEMMA IssueKeeps ==
    ASSUME W = 8, Inv, Issue
    PROVE  Inv'
<1>1. /\ UNCHANGED <<masterVars, axiVars, pc, arg, tmp, ret, peer, histVars>>
      /\ awvalid = 0 /\ arvalid = 0 /\ gap' = 0
      /\ \/ Writing /\ bvalid = 0 /\ awvalid' = 1 /\ arvalid' = 0
         \/ Reading /\ rvalid = 0 /\ arvalid' = 1 /\ awvalid' = 0
  BY DEF Issue
<1>2. HalType'
  <2>1. MasterTypeOK'
    BY <1>1 DEF Inv, HalType, MasterTypeOK, masterVars
  <2>2. Axi!AxiTypeOK'
    BY <1>1 DEF Inv, HalType, Axi!AxiTypeOK, axiVars
  <2>3. 0 \in 0..MaxGap
    BY HalAssumption
  <2>4. QED
    BY <1>1, <2>1, <2>2, <2>3 DEF Inv, HalType, histVars
<1>3. Handshakes'
  <2>1. /\ WriteOf' = WriteOf /\ ReadOf' = ReadOf /\ pc' = pc
        /\ (Writing' <=> Writing) /\ (Reading' <=> Reading) /\ ~(Writing /\ Reading)
    BY <1>1, Accesses DEF WriteOf, ReadOf, Writing, Reading
  <2>2. UNCHANGED <<awready, aw_en, awaddr, wready, bvalid, arready, araddr, rvalid>>
    BY <1>1 DEF axiVars
  <2>3. /\ bvalid \in Bit /\ rvalid \in Bit /\ awready \in Bit /\ arready \in Bit
    BY DEF Inv, HalType, Axi!AxiTypeOK, Axi!Flag
  <2>4. QED
    BY <1>1, <2>1, <2>2, <2>3 DEF Inv, Handshakes, WriteInv, ReadInv, GapInv
<1>4. RegInv'
  <2>1. start' = start
    BY <1>1 DEF start, axiVars
  <2>2. QED
    BY <1>1, <2>1 DEF Inv, RegInv, Started, axiVars, histVars
<1>5. SerialInv'
  BY <1>1 DEF Inv, SerialInv, masterVars
<1>6. QED
  BY <1>2, <1>3, <1>4, <1>5 DEF Inv

(* The peer changes its word, between frames. *)
LEMMA LoadKeeps ==
    ASSUME W = 8, Inv, NEW d \in Replies, LoadPeer(d)
    PROVE  Inv'
<1>1. busy = 0 /\ peer' \in Replies /\ UNCHANGED <<masterVars, axiVars, halVars, histVars>>
  BY DEF LoadPeer
<1>2. HalType'
  <2>1. MasterTypeOK'
    BY <1>1 DEF Inv, HalType, MasterTypeOK, masterVars
  <2>2. Axi!AxiTypeOK'
    BY <1>1 DEF Inv, HalType, Axi!AxiTypeOK, axiVars
  <2>3. QED
    BY <1>1, <2>1, <2>2 DEF Inv, HalType, halVars, histVars
<1>3. Handshakes'
  BY <1>1
  DEF Inv, Handshakes, WriteInv, ReadInv, GapInv, Waiting, Writing, Reading, WriteOf, ReadOf,
      axiVars, halVars
<1>4. RegInv'
  <2>1. start' = start
    BY <1>1 DEF start, axiVars
  <2>2. QED
    BY <1>1, <2>1 DEF Inv, RegInv, Started, axiVars, halVars, histVars
<1>5. SerialInv'
  BY <1>1 DEF Inv, SerialInv, masterVars
<1>6. QED
  BY <1>2, <1>3, <1>4, <1>5 DEF Inv

LEMMA InvNext ==
    ASSUME W = 8, Inv, [Next]_vars
    PROVE  Inv'
<1>1. CASE Clock
  BY <1>1, ClockType, ClockHandshakes, ClockRegInv, ClockSerial DEF Inv
<1>2. CASE UNCHANGED vars
  BY <1>2
  DEF Inv, HalType, MasterTypeOK, Axi!AxiTypeOK, Handshakes, WriteInv, ReadInv, GapInv,
      Waiting, Writing, Reading, WriteOf, ReadOf, RegInv, Started, start, SerialInv, vars,
      masterVars, axiVars, halVars, histVars
<1>3. QED
  BY <1>1, <1>2, CallKeeps, IssueKeeps, LoadKeeps DEF Next

(* The invariant holds throughout. *)
LEMMA InvAlways == W = 8 /\ Spec => []Inv
<1> SUFFICES ASSUME W = 8 PROVE Spec => []Inv
  OBVIOUS
<1>1. QED
  BY InvInit, InvNext, PTL DEF Spec

-----------------------------------------------------------------------------
(* Below the registers, the word-level transfer. *)

(* What it sees of the registers before and after a step. *)
Ports == start \in Bit /\ tx_data \in Word /\ BitsOf(peer) \in Word

LEMMA PortsInv == W = 8 /\ Inv => Ports
  BY PortTypes DEF Inv, Ports

LEMMA PortsNext ==
    ASSUME W = 8, Inv'
    PROVE  Ports'
<1>1. (W = 8 /\ Inv => Ports)'
  BY PortsInv, PTL
<1>2. QED
  BY <1>1

(* A clock edge is one of its steps, as in SPILink. *)
LEMMA ClockRefines ==
    ASSUME W = 8, Inv, Inv', Clock
    PROVE  Transfer!Next
<1> USE DEF Phase
<1>1. /\ Transfer!Inputs /\ peer' = peer /\ BitsOf(peer)' = BitsOf(peer)
      /\ BitsOf(peer) \in Word /\ start \in {0, 1}
      /\ state # "IDLE" => sent' = sent /\ done = 0
      /\ state = "IDLE" /\ start = 0 => sent' = sent
      /\ state = "IDLE" /\ start = 1 => sent' = tx_data
      /\ done \in {0, 1}
  <2>1. start' \in Bit /\ tx_data' \in Word
    BY PortsNext DEF Ports
  <2>2. QED
    BY <2>1, PortTypes, ClockFsm DEF Inv, SerialInv, Transfer!Inputs, HalType, MasterTypeOK
<1>2. Fsm(0, 0, tx_data, start, Miso)
  BY ClockFsm DEF Inv
<1>3. CASE IdleEdge(0, tx_data, start)
  <2>1. CASE start = 0
    BY <1>1, <1>3, <2>1 DEF IdleEdge, IdleOutputs, Transfer!Rest, Transfer!Next
  <2>2. CASE start = 1
    BY <1>1, <1>3, <2>2 DEF IdleEdge, IdleOutputs, Transfer!Accept, Transfer!Next
  <2>3. QED
    BY <1>1, <2>1, <2>2
<1>4. CASE LastEdge(0, Miso)
  <2>1. rx_data' = BitsOf(peer)
    BY <1>4, WordReceived DEF Inv
  <2>2. QED
    BY <1>1, <1>4, <2>1 DEF LastEdge, Transfer!Deliver, Transfer!Next
<1>5. CASE StopEdge(0)
  BY <1>1, <1>5 DEF StopEdge, StopOutputs, Transfer!Finish, Transfer!Next
<1>6. CASE StartEdge(0) \/ WaitEdge \/ LeadingEdge(0, Miso) \/ TrailingEdge(0, Miso)
  <2>1. state # "IDLE" /\ Phase[state'] = Phase[state] /\ done' = 0 /\ rx_data' = rx_data
    BY <1>6 DEF StartEdge, WaitEdge, LeadingEdge, TrailingEdge
  <2>2. QED
    BY <1>1, <1>6, <2>1 DEF Transfer!Command, Transfer!Next
<1>7. QED
  BY <1>2, <1>3, <1>4, <1>5, <1>6 DEF Fsm

(* Every behaviour of driver and peripheral is, seen from the registers,    *)
(* one of the word-level transfer that the board model puts in its place:   *)
(* what the master receives is the peer's word, once and as a whole.        *)
THEOREM TransferCorrect == W = 8 /\ Spec => TransferSpec
<1> SUFFICES ASSUME W = 8 PROVE Spec => TransferSpec
  OBVIOUS
<1>1. Init => Transfer!Init
  <2> SUFFICES ASSUME Init PROVE Transfer!Init
    OBVIOUS
  <2>1. Inv
    BY InvInit
  <2>2. start = 0
    BY <2>1 DEF Inv, RegInv, Started, Init
  <2>3. tx_data = Zero
    <3>1. slv_reg[1][0] = 0
      BY DEF Init, PeripheralInit, Axi!AxiInit, Axi!Cleared, Axi!Regs
    <3>2. \A i \in 1..8 : (0 \div 2^(W - i)) % 2 = 0
      <4>1. \A i \in 1..8 : 2^(W - i) \in {128, 64, 32, 16, 8, 4, 2, 1}
        BY Place
      <4>2. \A x \in {128, 64, 32, 16, 8, 4, 2, 1} : (0 \div x) % 2 = 0
        OBVIOUS
      <4>3. QED
        BY <4>1, <4>2
    <3>3. QED
      BY <3>1, <3>2 DEF tx_data, BitsOf, Zero
  <2>4. QED
    BY <2>1, <2>2, <2>3, PortTypes, ZeroWord
    DEF Inv, Init, PeripheralInit, MasterInit, Phase, Transfer!Init
<1>2. Inv /\ Inv' /\ [Next]_vars => [Transfer!Next]_(Transfer!vars)
  <2> SUFFICES ASSUME Inv, Inv', [Next]_vars
               PROVE  Transfer!Next \/ UNCHANGED Transfer!vars
    OBVIOUS
  <2>1. CASE Clock
    BY <2>1, ClockRefines
  <2>2. ASSUME NEW d \in Replies, LoadPeer(d) PROVE Transfer!Next
    <3>1. start' \in Bit /\ tx_data' \in Word /\ BitsOf(peer)' \in Word
      BY PortsNext DEF Ports
    <3>2. Phase[state] = "idle" /\ Phase[state]' = "idle"
      BY <2>2 DEF LoadPeer, Inv, SerialInv, masterVars, Phase, HalType, MasterTypeOK
    <3>3. QED
      BY <2>2, <3>1, <3>2
      DEF LoadPeer, masterVars, histVars, Transfer!Inputs, Transfer!Rest, Transfer!Next
  <2>3. CASE UNCHANGED <<masterVars, axiVars, peer, sent>>
    BY <2>3 DEF masterVars, axiVars, start, tx_data, Transfer!vars
  <2>4. QED
    BY <2>1, <2>2, <2>3 DEF Next, SPI_Init, SPI_Excute, Issue, vars, histVars
<1>3. QED
  BY <1>1, <1>2, InvAlways, PTL DEF Spec, TransferSpec, Transfer!Spec

-----------------------------------------------------------------------------
(* The race between the frame and the clearing of the start bit. *)
Race == DividerInv /\ TimeInv /\ CallInv

(* The divider at a clock edge: it is reset by its match, a frame ends one  *)
(* clock after one, and only with divider 0 is there another in that clock. *)
LEMMA ClockDivider ==
    ASSUME W = 8, Inv, DividerInv, CallInv, Clock
    PROVE  DividerInv'
<1>1. Fsm(0, 0, tx_data, start, Miso) /\ Divider(clk_div)
  BY ClockFsm DEF Inv
<1>2. div_cnt \in 0..255 /\ DivMax = 255 /\ state \in {"IDLE", "START", "DATA", "STOP"}
  BY Bytes DEF Inv, HalType, MasterTypeOK
<1>3. half_tick' = 1 => div_cnt' = 0
  BY <1>1 DEF Divider, DividerInv
<1>4. ASSUME state' # "DATA" PROVE div_cnt' <= 1 /\ (half_tick' = 1 => 0 \in Divs)
  <2>1. CASE state = "DATA"
    <3>1. LastEdge(0, Miso)
      BY <1>1, <1>4, <2>1
      DEF Fsm, IdleEdge, StartEdge, WaitEdge, LeadingEdge, TrailingEdge, StopEdge
    <3>2. div_cnt = 0
      BY <3>1 DEF LastEdge, DividerInv
    <3>3. clk_div \in Divs
      BY <2>1 DEF CallInv
    <3>4. half_tick' = 1 => clk_div = 0
      BY <1>1, <2>1, <3>2 DEF Divider, Divides, DivMatch
    <3>5. QED
      BY <1>1, <1>2, <3>2, <3>3, <3>4 DEF Divider
  <2>2. CASE state # "DATA"
    BY <1>1, <2>2 DEF Divider, Divides, DividerInv
  <2>3. QED
    BY <2>1, <2>2
<1>5. QED
  BY <1>3, <1>4 DEF DividerInv

(* The clocks since the start bit was set, counted and bounded. *)
LEMMA SinceBound ==
    ASSUME Inv, Started
    PROVE  Since \in 0..(5 + 2 * MaxGap)
<1>1. MaxGap \in Nat /\ gap \in 0..MaxGap
  BY HalAssumption DEF Inv, HalType
<1>2. arready \in {0, 1} /\ awready \in {0, 1}
  BY DEF Inv, HalType, Axi!AxiTypeOK, Axi!Flag
<1>3. CASE pc = "get2"
  BY <1>1, <1>2, <1>3 DEF Since
<1>4. CASE pc = "clear"
  BY <1>1, <1>2, <1>4 DEF Since
<1>5. CASE pc = "set"
  BY <1>1, <1>5 DEF Since
<1>6. QED
  BY <1>3, <1>4, <1>5 DEF Started

LEMMA SinceClock ==
    ASSUME W = 8, Inv, Inv', Clock, Started, Started'
    PROVE  Since' = Since + 1
<1>0. /\ gap \in Nat /\ MaxGap \in Nat
      /\ awvalid \in Bit /\ awready \in Bit /\ bvalid \in Bit
      /\ arvalid \in Bit /\ arready \in Bit /\ rvalid \in Bit
  BY HalAssumption DEF Inv, HalType, Axi!AxiTypeOK, Axi!Flag
<1>1. WriteSteps /\ ReadSteps /\ WriteInv /\ ReadInv /\ GapInv
  BY ClockWrite, ClockRead DEF Inv, Handshakes
<1>2. Waiting => gap' = gap + 1
  BY DEF Clock, Pace
<1>3. Answered => gap' = 0
  BY <1>0, <1>1 DEF Clock, Pace, Waiting, GapInv, Answered, WriteAnswered, ReadAnswered
<1> USE DEF WriteSteps, ReadSteps, NoWrite, WriteAsked, WriteTaken, WriteAnswered, NoRead,
            ReadAsked, ReadTaken, ReadAnswered
<1>4. CASE Answered
  <2>1. pc = "set" \/ pc = "get2" \/ pc = "clear"
    BY DEF Started
  <2>2. CASE pc = "set"
    <3>1. pc' = "get2" /\ NoRead
      BY <1>4, <2>2, MovesOn, Accesses DEF Inv, Handshakes, ReadInv, HalType, Axi!AxiTypeOK,
                                          Axi!Flag
    <3>2. QED
      BY <1>1, <1>3, <1>4, <2>2, <3>1 DEF Since
  <2>3. CASE pc = "get2"
    <3>1. pc' = "clear" /\ NoWrite /\ rvalid = 1
      BY <1>0, <1>1, <1>4, <2>3, MovesOn, Accesses
      DEF Inv, Handshakes, Answered, WriteInv
    <3>2. arvalid = 0 /\ awvalid' = 0
      BY <1>1, <3>1 DEF ReadInv
    <3>3. QED
      BY <1>0, <1>3, <1>4, <2>3, <3>1, <3>2 DEF Since
  <2>4. CASE pc = "clear"
    BY <1>0, <1>1, <1>4, <2>4, Accesses DEF Started, Answered, ReadInv
  <2>5. QED
    BY <2>1, <2>2, <2>3, <2>4
<1>5. CASE ~Answered
  <2>1. pc' = pc /\ rvalid = 0 /\ bvalid = 0
    BY <1>0, <1>5, Held DEF Answered
  <2>2. CASE pc = "get2"
    <3>1. CASE NoRead
      <4>1. Waiting
        BY <1>0, <1>1, <2>1, <2>2, <3>1, Accesses DEF Waiting, WriteInv
      <4>2. QED
        BY <1>0, <1>1, <1>2, <2>1, <2>2, <3>1, <4>1 DEF Since
    <3>2. CASE ReadAsked
      BY <1>0, <1>1, <2>1, <2>2, <3>2 DEF Since
    <3>3. CASE ReadTaken
      BY <1>0, <1>1, <2>1, <2>2, <3>3 DEF Since, ReadInv
    <3>4. QED
      BY <1>0, <2>1, <3>1, <3>2, <3>3
  <2>3. CASE pc = "clear"
    <3>1. CASE NoWrite
      <4>1. Waiting
        BY <1>0, <1>1, <2>1, <2>3, <3>1, Accesses DEF Waiting, ReadInv
      <4>2. QED
        BY <1>0, <1>1, <1>2, <2>1, <2>3, <3>1, <4>1 DEF Since
    <3>2. CASE WriteAsked
      BY <1>0, <1>1, <2>1, <2>3, <3>2 DEF Since
    <3>3. CASE WriteTaken
      BY <1>1, <2>1, <2>3, <3>3 DEF Started
    <3>4. QED
      BY <1>0, <2>1, <3>1, <3>2, <3>3
  <2>4. QED
    BY <2>1, <2>2, <2>3 DEF Started
<1>6. QED
  BY <1>4, <1>5

(* The progress of a frame: one at most per clock. *)
LEMMA Progress ==
    ASSUME W = 8, Inv, DividerInv, Fsm(0, 0, tx_data, start, Miso), Divider(div),
           div' = div, state = "DATA", state' = "DATA"
    PROVE  Counted \in Nat /\ Counted' \in Nat /\ Counted' <= Counted + 1
<1>1. /\ div \in 0..255 /\ div_cnt \in 0..255 /\ DivMax = 255
      /\ bit_cnt \in Nat /\ step \in Bit /\ half_tick \in Bit
  BY Bytes DEF Inv, HalType, MasterTypeOK
<1>2. 2 * bit_cnt' + step' = Halves
  <2>1. WaitEdge \/ LeadingEdge(0, Miso) \/ TrailingEdge(0, Miso)
    BY DEF Fsm, IdleEdge, StartEdge, LastEdge, StopEdge
  <2>2. QED
    BY <1>1, <2>1 DEF WaitEdge, LeadingEdge, TrailingEdge, Halves
<1> DEFINE h == Halves
           d == div + 1
<1>3. h \in Nat /\ d \in Nat
  BY <1>1 DEF Halves
<1>4. (h + 1) * d = h * d + d
  <2> HIDE DEF h, d
  <2>1. QED
    BY <1>3
<1>5. h * d \in Nat
  <2> HIDE DEF h, d
  <2>1. QED
    BY <1>3
<1>6. Counted = h * d + div_cnt /\ Counted' = Halves' * d + div_cnt'
  BY DEF Counted
<1>7. CASE DivMatch(div)
  <2>1. div_cnt = div /\ div_cnt' = 0 /\ half_tick' = 1
    BY <1>7 DEF Divider, Divides, DivMatch
  <2>2. Halves' = h + 1
    BY <1>2, <2>1 DEF Halves
  <2>3. Halves' * d = h * d + d
    BY <1>4, <2>2
  <2> HIDE DEF h
  <2>4. QED
    BY <1>1, <1>5, <1>6, <2>1, <2>3
<1>8. CASE ~DivMatch(div)
  <2>1. half_tick' = 0 /\ div_cnt' <= div_cnt + 1 /\ div_cnt' \in Nat
    BY <1>1, <1>8 DEF Divider, Divides
  <2>2. Halves' = h
    BY <1>2, <1>3, <2>1 DEF Halves
  <2>3. Halves' * d = h * d
    BY <2>2
  <2> HIDE DEF h
  <2>4. QED
    BY <1>1, <1>5, <1>6, <2>1, <2>3
<1>9. QED
  BY <1>7, <1>8

-----------------------------------------------------------------------------
(* What the start bit has to do with a clock edge: it is seen while it is   *)
(* up, and it comes up with no frame taken yet.                             *)
LEMMA StartSeen ==
    ASSUME W = 8, Inv, CallInv, Clock
    PROVE  /\ start = (IF Started THEN 1 ELSE 0)
           /\ Started => pc \in {"set", "get2", "clear"} /\ tx_data = BitsOf(arg) /\ clk_div = div
           /\ Started' /\ ~Started => pc = "set" /\ frames = 0
           /\ arg' = arg /\ div' = div
<1>1. /\ start = (IF Started THEN 1 ELSE 0)
      /\ Started => pc \in {"set", "get2", "clear"} /\ tx_data = BitsOf(arg) /\ clk_div = div
  BY DEF Inv, RegInv, Started, tx_data, clk_div
<1>2. ASSUME Started', ~Started PROVE pc = "set"
  <2>1. CASE Answered
    <3>1. bvalid' = 0
      BY <2>1, MovesOn, ClockWrite
      DEF Answered, WriteAnswered, ReadAnswered, Inv, Handshakes, WriteSteps, WriteInv, ReadInv,
          NoWrite, NoRead, HalType, Axi!AxiTypeOK, Axi!Flag
    <3>2. pc' \in {"get2", "clear"}
      BY <1>2, <3>1 DEF Started
    <3>3. QED
      BY <1>2, <2>1, <3>2, MovesOn DEF Inv, Handshakes, Started
  <2>2. CASE ~Answered
    <3>1. pc' = pc /\ bvalid = 0
      BY <2>2, Held DEF Answered, WriteAnswered, Inv, HalType, Axi!AxiTypeOK, Axi!Flag
    <3>2. QED
      BY <1>2, <3>1 DEF Started
  <2>3. QED
    BY <2>1, <2>2
<1>3. arg' = arg /\ div' = div
  BY DEF Clock, Processor
<1>4. QED
  BY <1>1, <1>2, <1>3 DEF CallInv

(* A processor that keeps pace with a frame of divider 0 keeps pace with    *)
(* any other, also when it begins with a half tick.                         *)
LEMMA PacedAhead ==
    ASSUME W = 8, Paced, div \in Divs, div \in 0..255
    PROVE  2 * W * (div + 1) > 2 * MaxGap + Ahead + 2
<1>1. MaxGap \in Nat
  BY HalAssumption
<1>2. 8 * (div + 1) > MaxGap + 1
  BY DEF Paced
<1>3. CASE 0 \in Divs
  <2>1. 8 * (0 + 1) > MaxGap + 1
    BY <1>3 DEF Paced
  <2>2. QED
    BY <1>1, <1>3, <2>1 DEF Ahead
<1>4. CASE 0 \notin Divs
  BY <1>1, <1>2, <1>4 DEF Ahead
<1>5. QED
  BY <1>3, <1>4

(* While the start bit is up the frame goes on. *)
LEMMA ClockTime ==
    ASSUME W = 8, Paced, Inv, Inv', Race, Clock
    PROVE  TimeInv'
<1> SUFFICES ASSUME frames' = 1, Started'
             PROVE  /\ state' # "IDLE"
                    /\ state' = "START" => Since' >= 1
                    /\ state' = "DATA" => Since' >= 2 /\ Counted' <= Since' + Ahead' - 1
                    /\ state' = "STOP" => 2 * W * (div' + 1) <= Since' + Ahead' - 2
  BY DEF TimeInv
<1>1. /\ Fsm(0, 0, tx_data, start, Miso) /\ Divider(clk_div)
      /\ IF state = "IDLE" /\ start = 1 THEN frames' = frames + 1 ELSE frames' = frames
  BY ClockFsm DEF Inv
<1>2. Started /\ start = 1 /\ clk_div = div /\ div' = div
  BY <1>1, StartSeen DEF Race
<1>3. Since' = Since + 1 /\ Since \in Nat /\ Since' <= 5 + 2 * MaxGap /\ MaxGap \in Nat
  <2>1. Since \in 0..(5 + 2 * MaxGap) /\ MaxGap \in Nat
    BY <1>2, SinceBound, HalAssumption
  <2>2. Since' = Since + 1
    BY <1>2, SinceClock
  <2>3. (Inv /\ Started => Since \in 0..(5 + 2 * MaxGap))'
    BY SinceBound, PTL
  <2>4. QED
    BY <2>1, <2>2, <2>3
<1>4. /\ div \in 0..255 /\ div_cnt \in 0..255 /\ half_tick \in Bit /\ step \in Bit
      /\ state \in {"IDLE", "START", "DATA", "STOP"}
      /\ Ahead \in Nat /\ Ahead' = Ahead
  BY <1>2, Bytes DEF Inv, HalType, MasterTypeOK, Ahead
<1>5. CASE state = "IDLE"
  <2>1. state' = "START"
    BY <1>1, <1>2, <1>5
    DEF Fsm, IdleEdge, StartEdge, WaitEdge, LeadingEdge, TrailingEdge, LastEdge, StopEdge
  <2>2. QED
    BY <1>3, <2>1
<1>6. CASE state # "IDLE"
  <2>0. frames = 1 /\ TimeInv
    BY <1>1, <1>6 DEF Race
  <2>1. CASE StartEdge(0)
    <3>1. /\ state = "START" /\ state' = "DATA" /\ Halves' = half_tick /\ div_cnt' = div_cnt
      <4>1. /\ state = "START" /\ state' = "DATA" /\ bit_cnt' = 0 /\ step' = 0
        BY <2>1 DEF StartEdge, Inv, SerialInv
      <4>2. half_tick' = half_tick /\ div_cnt' = div_cnt
        BY <1>1, <4>1 DEF Divider, Divides
      <4>3. QED
        BY <1>4, <4>1, <4>2 DEF Halves
    <3>2. Counted' <= Ahead + 1
      BY <1>2, <1>4, <3>1 DEF Race, DividerInv, Counted, Ahead
    <3>3. Counted' \in Int
      BY <1>2, <1>4, <3>1 DEF Counted
    <3>4. QED
      BY <1>2, <1>3, <1>4, <2>0, <3>1, <3>2, <3>3 DEF TimeInv
  <2>2. CASE state = "DATA" /\ state' = "DATA"
    <3>1. Counted \in Nat /\ Counted' \in Nat /\ Counted' <= Counted + 1
      BY <1>1, <1>2, <2>2, Progress DEF Race
    <3>2. Since >= 2 /\ Counted <= Since + Ahead - 1
      BY <1>2, <2>0, <2>2 DEF TimeInv
    <3>3. QED
      BY <1>2, <1>3, <1>4, <2>2, <3>1, <3>2
  <2>3. CASE LastEdge(0, Miso)
    <3>1. state = "DATA" /\ state' = "STOP" /\ Halves = 2 * W /\ div_cnt = 0
      BY <1>4, <2>3 DEF LastEdge, LastBit, Halves, Race, DividerInv
    <3>2. 2 * W * (div + 1) + 0 <= Since + Ahead - 1
      BY <1>2, <2>0, <3>1 DEF TimeInv, Counted
    <3>3. QED
      BY <1>2, <1>3, <1>4, <3>1, <3>2
  <2>4. CASE StopEdge(0)
    <3>1. 2 * W * (div + 1) <= Since + Ahead - 2
      BY <1>2, <2>0, <2>4 DEF StopEdge, TimeInv
    <3>2. 2 * W * (div + 1) > 2 * MaxGap + Ahead + 2
      BY <1>2, <1>3, <1>4, PacedAhead DEF Race, CallInv, Started
    <3>3. QED
      BY <1>3, <1>4, <3>1, <3>2
  <2>5. QED
    BY <1>1, <1>6, <2>1, <2>2, <2>3, <2>4
    DEF Fsm, IdleEdge, WaitEdge, LeadingEdge, TrailingEdge
<1>7. QED
  BY <1>5, <1>6

(* A call has its frame once, and the word in it is its argument. *)
LEMMA ClockCall ==
    ASSUME W = 8, Inv, Inv', Race, Clock
    PROVE  CallInv'
<1>1. /\ Fsm(0, 0, tx_data, start, Miso) /\ call' = call
      /\ IF state = "IDLE" /\ start = 1
         THEN sent' = tx_data /\ frames' = frames + 1
         ELSE sent' = sent /\ frames' = frames
  BY ClockFsm DEF Inv
<1>2. /\ start = (IF Started THEN 1 ELSE 0) /\ arg' = arg /\ div' = div
      /\ Started => pc \in {"set", "get2", "clear"} /\ tx_data = BitsOf(arg)
  BY StartSeen DEF Race
<1>3. BitsOf(arg)' = BitsOf(arg)
  BY <1>2 DEF BitsOf
<1>4. Started /\ state = "IDLE" => frames = 0
  BY DEF Race, TimeInv, CallInv
<1>5. \/ pc' = pc
      \/ /\ <<pc, pc'>> \in {<<"init", "ready">>, <<"tx", "get1">>, <<"set", "get2">>,
                            <<"clear", "poll">>, <<"get1", "set">>, <<"get2", "clear">>,
                            <<"poll", "poll">>, <<"poll", "read">>, <<"read", "ready">>}
         /\ pc = "set" => Started
  <2>1. CASE Answered
    <3>1. pc = "set" => Started
      BY <2>1, Accesses
      DEF Answered, WriteAnswered, ReadAnswered, Started, Inv, Handshakes, ReadInv
    <3>2. QED
      BY <2>1, <3>1, MovesOn DEF Inv, Handshakes
  <2>2. CASE ~Answered
    BY <2>2, Held
  <2>3. QED
    BY <2>1, <2>2
<1>6. frames' \in {0, 1} /\ (frames' = 1 => sent' = BitsOf(arg)')
  BY <1>1, <1>2, <1>3, <1>4 DEF Race, CallInv
<1>7. pc' \in {"init", "tx", "get1", "set"} => frames' = 0
  <2>1. CASE Started
    <3>1. CASE pc' = pc
      <4>1. pc = "set" => bvalid = 1 /\ Answered
        BY <2>1 DEF Started, Answered, WriteAnswered
      <4>2. pc # "set"
        BY <3>1, <4>1, MovesOn DEF Inv, Handshakes
      <4>3. QED
        BY <1>2, <2>1, <3>1, <4>2
    <3>2. CASE pc' # pc
      BY <1>2, <1>5, <2>1, <3>2
    <3>3. QED
      BY <3>1, <3>2
  <2>2. CASE ~Started
    BY <1>1, <1>2, <1>5, <2>2 DEF Race, CallInv
  <2>3. QED
    BY <2>1, <2>2
<1>8. ASSUME call' = "onIdle"
      PROVE  IF pc' \in {"tx", "get1", "set"} THEN state' = "IDLE" ELSE frames' = 1
  <2>1. CASE pc \in {"tx", "get1", "set"}
    <3>1. state = "IDLE" /\ frames = 0
      BY <1>1, <1>8, <2>1 DEF Race, CallInv
    <3>2. CASE Started
      <4>1. frames' = 1
        BY <1>1, <1>2, <3>1, <3>2
      <4>2. QED
        BY <1>7, <4>1
    <3>3. CASE ~Started
      <4>1. pc' \in {"tx", "get1", "set"}
        BY <1>5, <2>1, <3>3
      <4>2. state' = "IDLE"
        BY <1>1, <1>2, <3>1, <3>3
        DEF Fsm, IdleEdge, StartEdge, WaitEdge, LeadingEdge, TrailingEdge, LastEdge, StopEdge
      <4>3. QED
        BY <4>1, <4>2
    <3>4. QED
      BY <3>2, <3>3
  <2>2. CASE pc \notin {"tx", "get1", "set"}
    <3>1. frames = 1
      BY <1>1, <1>8, <2>2 DEF Race, CallInv
    <3>2. frames' = 1
      BY <1>1, <1>2, <1>4, <3>1
    <3>3. QED
      BY <1>7, <3>2
  <2>3. QED
    BY <2>1, <2>2
<1>9. /\ pc' # "ready" \/ state' # "IDLE" => div' \in Divs
      /\ pc' = "init" => call' = "none"
  <2>1. ASSUME state = "IDLE", ~Started PROVE state' = "IDLE"
    BY <1>1, <1>2, <2>1
    DEF Fsm, IdleEdge, StartEdge, WaitEdge, LeadingEdge, TrailingEdge, LastEdge, StopEdge
  <2>2. QED
    BY <1>1, <1>2, <1>5, <2>1 DEF Race, CallInv
<1>10. ASSUME state' # "IDLE" PROVE clk_div' \in Divs
  <2>1. CASE pc' # "init" \/ bvalid' = 1
    <3>1. slv_reg'[0][1] = div'
      BY <2>1 DEF Inv, RegInv
    <3>2. QED
      BY <1>9, <1>10, <3>1 DEF clk_div
  <2>2. CASE pc' = "init" /\ bvalid' # 1
    <3>1. pc = "init" /\ ~WriteTaken
      BY <1>5, <2>2, ClockWrite DEF Inv, Handshakes, WriteSteps
    <3>2. slv_reg' = slv_reg
      BY <3>1, ClockWrite DEF Inv, Handshakes, WriteSteps
    <3>3. state # "IDLE"
      BY <1>1, <1>2, <1>10, <3>1
      DEF Started, Fsm, IdleEdge, StartEdge, WaitEdge, LeadingEdge, TrailingEdge, LastEdge,
          StopEdge
    <3>4. QED
      BY <3>2, <3>3 DEF Race, CallInv, clk_div
  <2>3. QED
    BY <2>1, <2>2
<1>11. QED
  BY <1>6, <1>7, <1>8, <1>9, <1>10 DEF CallInv

-----------------------------------------------------------------------------
(* The steps between clock edges. *)

(* A new call starts the count of frames afresh. *)
LEMMA CallRace ==
    ASSUME W = 8, Inv, Race,
           (\E d \in Divs : SPI_Init(d)) \/ (\E d \in Data : SPI_Excute(d))
    PROVE  Race'
<1>1. /\ frames' = 0 /\ pc' \in {"init", "tx"} /\ div' \in Divs
      /\ pc' = "init" => call' = "none"
      /\ call' = "onIdle" => pc' = "tx" /\ busy = 0
      /\ UNCHANGED masterVars /\ clk_div' = clk_div
  BY DEF SPI_Init, SPI_Excute, axiVars, clk_div
<1>2. busy = 0 => state = "IDLE"
  BY DEF Inv, SerialInv
<1>3. DividerInv'
  BY <1>1 DEF Race, DividerInv, masterVars
<1>4. TimeInv'
  BY <1>1 DEF TimeInv
<1>5. CallInv'
  BY <1>1, <1>2 DEF Race, CallInv, masterVars
<1>6. QED
  BY <1>3, <1>4, <1>5 DEF Race

(* An access that is put on the bus late has used up its gap. *)
LEMMA IssueRace ==
    ASSUME W = 8, Inv, Race, Issue
    PROVE  Race'
<1>1. /\ UNCHANGED <<masterVars, axiVars, pc, arg, div, call, frames, sent>>
      /\ awvalid = 0 /\ arvalid = 0
      /\ \/ Writing /\ bvalid = 0 /\ awvalid' = 1 /\ arvalid' = 0
         \/ Reading /\ rvalid = 0 /\ arvalid' = 1 /\ awvalid' = 0
  BY DEF Issue, histVars
<1>2. BitsOf(arg)' = BitsOf(arg) /\ (Started' <=> Started) /\ Counted' = Counted
  BY <1>1 DEF BitsOf, Started, Counted, Halves, masterVars, axiVars
<1>3. Started => Since' >= Since /\ Since \in Int /\ Since' \in Int
  <2>1. /\ gap \in 0..MaxGap /\ MaxGap \in Nat /\ arready = 0 /\ awready = 0
        /\ UNCHANGED <<pc, arready, awready, rvalid, bvalid>>
    BY <1>1, HalAssumption
    DEF Inv, HalType, Axi!AxiTypeOK, Axi!Flag, Handshakes, WriteInv, ReadInv, axiVars
  <2>2. CASE pc = "get2"
    BY <1>1, <2>1, <2>2, Accesses DEF Since
  <2>3. CASE pc = "clear"
    BY <1>1, <2>1, <2>3, Accesses DEF Since
  <2>4. CASE pc = "set"
    BY <2>1, <2>4 DEF Since
  <2>5. QED
    BY <2>2, <2>3, <2>4 DEF Started
<1>4. DividerInv'
  BY <1>1 DEF Race, DividerInv, masterVars
<1>5. TimeInv'
  <2> SUFFICES ASSUME frames' = 1, Started'
               PROVE  /\ state' # "IDLE"
                      /\ state' = "START" => Since' >= 1
                      /\ state' = "DATA" => Since' >= 2 /\ Counted' <= Since' + Ahead' - 1
                      /\ state' = "STOP" => 2 * W * (div' + 1) <= Since' + Ahead' - 2
    BY DEF TimeInv
  <2>1. /\ state # "IDLE"
        /\ state = "START" => Since >= 1
        /\ state = "DATA" => Since >= 2 /\ Counted <= Since + Ahead - 1
        /\ state = "STOP" => 2 * W * (div + 1) <= Since + Ahead - 2
    BY <1>1, <1>2 DEF Race, TimeInv
  <2>2. /\ state' = state /\ div' = div /\ Counted' = Counted /\ div \in Int
        /\ Ahead' = Ahead /\ Ahead \in Int
    BY <1>1, <1>2, Bytes DEF masterVars, Inv, HalType, Ahead
  <2>3. Counted \in Int /\ 2 * W * (div + 1) \in Int
    <3>1. /\ div_cnt \in Int /\ bit_cnt \in Int /\ step \in Int /\ half_tick \in Int
      BY Bytes DEF Inv, HalType, MasterTypeOK
    <3>2. Halves \in Int
      BY <3>1 DEF Halves
    <3>3. QED
      BY <2>2, <3>1, <3>2 DEF Counted
  <2>4. QED
    BY <1>2, <1>3, <2>1, <2>2, <2>3
<1>6. CallInv'
  BY <1>1, <1>2 DEF Race, CallInv, masterVars, axiVars, clk_div
<1>7. QED
  BY <1>4, <1>5, <1>6 DEF Race

(* Nothing that the race depends on changes. *)
LEMMA StillRace ==
    ASSUME Race, UNCHANGED <<masterVars, axiVars, halVars, histVars>>
    PROVE  Race'
<1>1. /\ BitsOf(arg)' = BitsOf(arg) /\ (Started' <=> Started) /\ Counted' = Counted
      /\ Since' = Since /\ Ahead' = Ahead /\ clk_div' = clk_div
  BY DEF BitsOf, Started, Counted, Halves, Since, Ahead, clk_div, masterVars, axiVars, halVars, histVars
<1>2. QED
  BY <1>1
  DEF Race, DividerInv, TimeInv, CallInv, masterVars, axiVars, halVars, histVars

LEMMA RaceNext ==
    ASSUME W = 8, Paced, Inv, Inv', Race, [Next]_vars
    PROVE  Race'
<1>1. CASE Clock
  BY <1>1, ClockDivider, ClockTime, ClockCall DEF Race
<1>2. ASSUME NEW d \in Replies, LoadPeer(d) PROVE Race'
  BY <1>2, StillRace DEF LoadPeer
<1>3. CASE UNCHANGED vars
  BY <1>3, StillRace DEF vars
<1>4. QED
  BY <1>1, <1>2, <1>3, CallRace, IssueRace DEF Next

(* Nothing has been called after reset. *)
LEMMA RaceInit == Init => Race
  BY DEF Init, PeripheralInit, MasterInit, Race, DividerInv, TimeInv, CallInv

(* The race is never lost. *)
LEMMA RaceAlways == W = 8 /\ Paced /\ Spec => [](Inv /\ Race)
<1> SUFFICES ASSUME W = 8, Paced PROVE Spec => [](Inv /\ Race)
  OBVIOUS
<1>1. Init => Inv /\ Race
  BY InvInit, RaceInit
<1>2. Inv /\ Race /\ [Next]_vars => (Inv /\ Race)'
  BY InvNext, RaceNext
<1>3. QED
  BY <1>1, <1>2, PTL DEF Spec

(* A call that finds the master idle sends its argument in exactly one       *)
(* frame: the start bit is cleared before that frame ends, and its word is   *)
(* not another's.                                                            *)
THEOREM SendsOnce == W = 8 /\ Paced /\ Spec => []CallSendsOnce
<1>1. Inv /\ Race => CallSendsOnce
  BY DEF Race, CallInv, CallSendsOnce
<1>2. QED
  BY <1>1, RaceAlways, PTL

(* Everything stays in its range, the number of frames of a call included:   *)
(* no call has more than one, whatever state it found the master in.         *)
THEOREM TypeCorrect == W = 8 /\ Paced /\ Spec => []TypeOK
<1>1. Inv /\ Race => TypeOK
  BY Accesses DEF Inv, HalType, Race, CallInv, TypeOK
<1>2. QED
  BY <1>1, RaceAlways, PTL

=============================================================================
