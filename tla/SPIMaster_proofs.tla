-------------------------- MODULE SPIMaster_proofs --------------------------
(***************************************************************************)
(* TLAPS lemmas about spi_master that hold whatever its ports are wired    *)
(* to: a clock edge keeps every register in the range of its declaration,  *)
(* and a word shifted out or in keeps its bits in order.                   *)
(***************************************************************************)
EXTENDS SPIMaster, TLAPS

USE DEF Bit

(* Shifting a bit into a word gives a word; every word has a first bit. *)
LEMMA ShiftInWord ==
    ASSUME NEW w \in Word, NEW b \in Bit
    PROVE  ShiftIn(w, b) \in Word /\ Msb(w) \in Bit
<1>1. \A i \in 1..W : i < W => i + 1 \in 1..W
  BY WidthAssumption
<1>2. \A i \in 1..W : (IF i < W THEN w[i + 1] ELSE b) \in Bit
  BY <1>1 DEF Word
<1>3. 1 \in 1..W
  BY WidthAssumption
<1>4. QED
  BY <1>2, <1>3 DEF ShiftIn, Msb, Word

(* The reset value of the data registers is a word. *)
LEMMA ZeroWord == Zero \in Word
  BY DEF Zero, Word

(* The counter wraps at its width, whatever the divider is. *)
LEMMA DividerType ==
    ASSUME MasterTypeOK, NEW div, Divider(div)
    PROVE  div_cnt' \in 0..DivMax /\ half_tick' \in Bit
<1>1. (div_cnt + 1) % (DivMax + 1) \in 0..DivMax
  BY DivMaxAssumption DEF MasterTypeOK
<1>2. QED
  BY <1>1, DivMaxAssumption DEF Divider, Divides, DivMatch, MasterTypeOK

(* Every branch of the state machine keeps the registers in range. *)
LEMMA FsmType ==
    ASSUME MasterTypeOK, NEW pol_in \in Bit, NEW pha_in, NEW data_in \in Word,
           NEW start_in, NEW miso_in \in Bit,
           Fsm(pol_in, pha_in, data_in, start_in, miso_in)
    PROVE  /\ state' \in {"IDLE", "START", "DATA", "STOP"}
           /\ tx_shift_reg' \in Word /\ rx_shift_reg' \in Word /\ rx_data' \in Word
           /\ bit_cnt' \in 0..(W - 1) /\ step' \in Bit
           /\ sclk_r' \in Bit /\ mosi' \in Bit /\ cs_n' \in Bit
           /\ done' \in Bit /\ busy' \in Bit
<1> USE DEF MasterTypeOK
<1>0. 0 \in 0..(W - 1) /\ 1 - sclk_r \in Bit
  BY WidthAssumption
<1>1. Drive => mosi' \in Bit /\ tx_shift_reg' \in Word /\ rx_shift_reg' \in Word
  BY ShiftInWord DEF Drive
<1>2. Sample(miso_in) => mosi' \in Bit /\ tx_shift_reg' \in Word /\ rx_shift_reg' \in Word
  BY ShiftInWord DEF Sample
<1>3. CASE IdleEdge(pol_in, data_in, start_in)
  BY <1>0, <1>3 DEF IdleEdge, IdleOutputs
<1>4. CASE StartEdge(pha_in)
  BY <1>1, <1>4 DEF StartEdge
<1>5. CASE WaitEdge
  BY <1>5 DEF WaitEdge
<1>6. CASE LeadingEdge(pha_in, miso_in)
  BY <1>0, <1>1, <1>2, <1>6 DEF LeadingEdge
<1>7. CASE TrailingEdge(pha_in, miso_in)
  <2>1. bit_cnt' \in 0..(W - 1)
    BY <1>7, WidthAssumption DEF TrailingEdge, LastBit
  <2>2. QED
    BY <1>0, <1>1, <1>2, <1>7, <2>1 DEF TrailingEdge
<1>8. CASE LastEdge(pha_in, miso_in)
  <2>1. Received(pha_in, miso_in) \in Word
    BY ShiftInWord DEF Received
  <2>2. QED
    BY <1>0, <1>2, <1>8, <2>1 DEF LastEdge
<1>9. CASE StopEdge(pol_in)
  BY <1>9 DEF StopEdge, StopOutputs
<1>10. QED
  BY <1>3, <1>4, <1>5, <1>6, <1>7, <1>8, <1>9 DEF Fsm

(* A clock edge of the whole master. *)
LEMMA EdgeType ==
    ASSUME MasterTypeOK, NEW pol_in \in Bit, NEW pha_in, NEW div,
           NEW data_in \in Word, NEW start_in, NEW miso_in \in Bit,
           MasterEdge(pol_in, pha_in, div, data_in, start_in, miso_in)
    PROVE  MasterTypeOK'
<1>1. Divider(div) /\ Fsm(pol_in, pha_in, data_in, start_in, miso_in)
  BY DEF MasterEdge
<1>2. div_cnt' \in 0..DivMax /\ half_tick' \in Bit
  BY <1>1, DividerType
<1>3. QED
  BY <1>1, <1>2, FsmType DEF MasterTypeOK

(* Reset values are in range. *)
LEMMA ResetType ==
    ASSUME NEW pol_in \in Bit
    PROVE  /\ MasterInit(pol_in) => MasterTypeOK
           /\ MasterReset(pol_in) => MasterTypeOK'
<1>1. 0 \in 0..(W - 1) /\ 0 \in 0..DivMax
  BY WidthAssumption, DivMaxAssumption
<1>2. QED
  BY <1>1, ZeroWord DEF MasterInit, MasterReset, MasterTypeOK

-----------------------------------------------------------------------------
(* What a clock edge does, told apart no more than the proofs need.         *)

(* The divider of a master that keeps its divider below the match. *)
LEMMA DividerSteps ==
    ASSUME MasterTypeOK, NEW div \in 0..DivMax, Divider(div), div_cnt <= div
    PROVE  /\ state # "DATA" => UNCHANGED <<div_cnt, half_tick>>
           /\ state = "DATA" => IF div_cnt = div THEN div_cnt' = 0 /\ half_tick' = 1
                                ELSE div_cnt' = div_cnt + 1 /\ half_tick' = 0
<1>1. div_cnt \in Nat /\ div \in Nat /\ div <= DivMax
  BY DivMaxAssumption DEF MasterTypeOK
<1>2. div_cnt < div => (div_cnt + 1) % (DivMax + 1) = div_cnt + 1
  BY <1>1, DivMaxAssumption
<1>3. QED
  BY <1>1, <1>2 DEF Divider, Divides, DivMatch

(* The state machine in phase 0. *)
Phase0(pol_in, data_in, start_in, miso_in) ==
    /\ state # "STOP" => done' = 0
    /\ state = "IDLE" =>
         /\ sclk_r' = pol_in /\ UNCHANGED rx_data
         /\ IF start_in = 0 THEN state' = "IDLE" /\ cs_n' = 1 /\ busy' = busy
            ELSE /\ state' = "START" /\ cs_n' = 0 /\ busy' = 1
                 /\ tx_shift_reg' = data_in /\ bit_cnt' = 0 /\ step' = 0
    /\ state = "START" =>
         /\ state' = "DATA" /\ mosi' = Msb(tx_shift_reg)
         /\ tx_shift_reg' = ShiftIn(tx_shift_reg, 0)
         /\ UNCHANGED <<bit_cnt, step, sclk_r, busy, cs_n, rx_shift_reg>>
    /\ state = "DATA" => UNCHANGED <<busy, cs_n>>
    /\ state = "DATA" /\ half_tick = 0 =>
         UNCHANGED <<state, tx_shift_reg, rx_shift_reg, bit_cnt, step, sclk_r, mosi>>
    /\ state = "DATA" /\ half_tick = 1 => sclk_r' = 1 - sclk_r /\ step' = 1 - step
    /\ state = "DATA" /\ half_tick = 1 /\ step = 0 =>
         /\ rx_shift_reg' = ShiftIn(rx_shift_reg, miso_in)
         /\ UNCHANGED <<state, bit_cnt, mosi, tx_shift_reg>>
    /\ state = "DATA" /\ half_tick = 1 /\ step = 1 =>
         IF bit_cnt = W - 1 THEN state' = "STOP" /\ rx_data' = rx_shift_reg
         ELSE /\ UNCHANGED <<state, rx_shift_reg>> /\ bit_cnt' = bit_cnt + 1
              /\ mosi' = Msb(tx_shift_reg) /\ tx_shift_reg' = ShiftIn(tx_shift_reg, 0)
    /\ state = "STOP" =>
         state' = "IDLE" /\ sclk_r' = pol_in /\ cs_n' = 1 /\ busy' = 0 /\ UNCHANGED rx_data

(* Its cases are those. *)
LEMMA Phase0Steps ==
    ASSUME NEW pol_in, NEW pha_in, NEW data_in, NEW start_in \in {0, 1}, NEW miso_in,
           state # "IDLE" => pha_in = 0,
           Fsm(pol_in, pha_in, data_in, start_in, miso_in)
    PROVE  Phase0(pol_in, data_in, start_in, miso_in)
<1> USE DEF Phase0
<1>1. CASE IdleEdge(pol_in, data_in, start_in)
  BY <1>1 DEF IdleEdge, IdleOutputs
<1>2. CASE StartEdge(pha_in)
  BY <1>2 DEF StartEdge, Drive
<1>3. CASE WaitEdge
  BY <1>3 DEF WaitEdge
<1>4. CASE LeadingEdge(pha_in, miso_in)
  BY <1>4 DEF LeadingEdge, Sample
<1>5. CASE TrailingEdge(pha_in, miso_in)
  BY <1>5 DEF TrailingEdge, LastBit, Drive
<1>6. CASE LastEdge(pha_in, miso_in)
  BY <1>6 DEF LastEdge, LastBit, Received
<1>7. CASE StopEdge(pol_in)
  BY <1>7 DEF StopEdge, StopOutputs
<1>8. QED
  BY <1>1, <1>2, <1>3, <1>4, <1>5, <1>6, <1>7 DEF Fsm

-----------------------------------------------------------------------------
(* A word s on its way: register r still holds the bits after the n-th in   *)
(* its upper places, or already holds the first n in its lower ones.        *)
RestOf(r, s, n) == \A i \in 1..W : i > n => r[i - n] = s[i]
FrontOf(r, s, n) == \A i \in 1..W : i <= n => r[W - n + i] = s[i]

(* The next bit leaves: it is the (n+1)-th of the word. *)
LEMMA BitLeaves ==
    ASSUME NEW r \in Word, NEW s \in Word, NEW b, NEW n \in 0..(W - 1), RestOf(r, s, n)
    PROVE  Msb(r) = s[n + 1] /\ RestOf(ShiftIn(r, b), s, n + 1)
<1>1. Msb(r) = s[n + 1]
  <2>1. n + 1 \in 1..W /\ n + 1 > n /\ (n + 1) - n = 1
    BY WidthAssumption
  <2>2. QED
    BY <2>1 DEF Msb, RestOf
<1>2. ASSUME NEW i \in 1..W, i > n + 1
      PROVE  ShiftIn(r, b)[i - (n + 1)] = s[i]
  <2>1. i - (n + 1) \in 1..W /\ i - (n + 1) < W /\ (i - (n + 1)) + 1 = i - n
    BY <1>2, WidthAssumption
  <2>2. ShiftIn(r, b)[i - (n + 1)] = r[i - n]
    BY <2>1 DEF ShiftIn
  <2>3. QED
    BY <1>2, <2>2 DEF RestOf
<1>3. QED
  BY <1>1, <1>2 DEF RestOf

(* The next bit arrives. *)
LEMMA BitArrives ==
    ASSUME NEW r \in Word, NEW s \in Word, NEW n \in 0..(W - 1), FrontOf(r, s, n)
    PROVE  FrontOf(ShiftIn(r, s[n + 1]), s, n + 1)
<1> SUFFICES ASSUME NEW i \in 1..W, i <= n + 1
             PROVE  ShiftIn(r, s[n + 1])[W - (n + 1) + i] = s[i]
  BY DEF FrontOf
<1>1. W - (n + 1) + i \in 1..W
  BY WidthAssumption
<1>2. CASE i = n + 1
  <2>1. W - (n + 1) + i = W
    BY <1>2, WidthAssumption
  <2>2. QED
    BY <1>2, <1>1, <2>1 DEF ShiftIn
<1>3. CASE i < n + 1
  <2>1. W - (n + 1) + i < W /\ i <= n /\ (W - (n + 1) + i) + 1 = W - n + i
    BY <1>3, WidthAssumption
  <2>2. ShiftIn(r, s[n + 1])[W - (n + 1) + i] = r[W - n + i]
    BY <1>1, <2>1 DEF ShiftIn
  <2>3. QED
    BY <2>1, <2>2 DEF FrontOf
<1>4. QED
  BY <1>2, <1>3

(* Nothing has left yet; everything has arrived. *)
LEMMA WordEnds ==
    ASSUME NEW r \in Word, NEW s \in Word
    PROVE  RestOf(r, r, 0) /\ FrontOf(r, s, 0) /\ (FrontOf(r, s, W) => r = s)
<1>1. RestOf(r, r, 0) /\ FrontOf(r, s, 0)
  BY WidthAssumption DEF RestOf, FrontOf
<1>2. FrontOf(r, s, W) => \A i \in 1..W : r[i] = s[i]
  BY WidthAssumption DEF FrontOf
<1>3. r = [i \in 1..W |-> r[i]] /\ s = [i \in 1..W |-> s[i]]
  BY DEF Word
<1>4. QED
  BY <1>1, <1>2, <1>3

-----------------------------------------------------------------------------
(* On the bus side a word is a number.  The provers know powers of two only *)
(* one by one, so what follows is for the width of the source.              *)
LEMMA Powers ==
    ASSUME W = 8
    PROVE  /\ 2^W = 256
           /\ 2^(W - 1) = 128 /\ 2^(W - 2) = 64 /\ 2^(W - 3) = 32 /\ 2^(W - 4) = 16
           /\ 2^(W - 5) = 8 /\ 2^(W - 6) = 4 /\ 2^(W - 7) = 2 /\ 2^(W - 8) = 1
  OBVIOUS

(* The weight of each bit. *)
LEMMA Place ==
    ASSUME W = 8, NEW i \in 1..8
    PROVE  <<i, 2^(W - i)>> \in {<<1, 128>>, <<2, 64>>, <<3, 32>>, <<4, 16>>,
                                 <<5, 8>>, <<6, 4>>, <<7, 2>>, <<8, 1>>}
<1>1. CASE i = 1
  BY <1>1, Powers
<1>2. CASE i = 2
  BY <1>2, Powers
<1>3. CASE i = 3
  BY <1>3, Powers
<1>4. CASE i = 4
  BY <1>4, Powers
<1>5. CASE i = 5
  BY <1>5, Powers
<1>6. CASE i = 6
  BY <1>6, Powers
<1>7. CASE i = 7
  BY <1>7, Powers
<1>8. CASE i = 8
  BY <1>8, Powers
<1>9. QED
  BY <1>1, <1>2, <1>3, <1>4, <1>5, <1>6, <1>7, <1>8

(* The bits of a number are a word. *)
LEMMA BitsOfWord ==
    ASSUME W = 8, NEW n \in Nat
    PROVE  BitsOf(n) \in Word
<1>1. \A i \in 1..8 : 2^(W - i) \in {128, 64, 32, 16, 8, 4, 2, 1}
  BY Place
<1>2. \A i \in 1..8 : (n \div 2^(W - i)) % 2 \in Bit
  BY <1>1
<1>3. QED
  BY <1>2 DEF BitsOf, Word

(* Every word is the bits of a byte. *)
LEMMA WordHasNumber ==
    ASSUME W = 8, NEW b \in Word
    PROVE  \E n \in ByteValues : BitsOf(n) = b
<1> DEFINE n == 128 * b[1] + 64 * b[2] + 32 * b[3] + 16 * b[4]
                + 8 * b[5] + 4 * b[6] + 2 * b[7] + b[8]
<1>1. /\ b[1] \in Bit /\ b[2] \in Bit /\ b[3] \in Bit /\ b[4] \in Bit
      /\ b[5] \in Bit /\ b[6] \in Bit /\ b[7] \in Bit /\ b[8] \in Bit
  BY DEF Word
<1>2. n \in ByteValues
  BY <1>1, Powers DEF ByteValues
<1>3. /\ (n \div 128) % 2 = b[1] /\ (n \div 64) % 2 = b[2] /\ (n \div 32) % 2 = b[3]
      /\ (n \div 16) % 2 = b[4] /\ (n \div 8) % 2 = b[5] /\ (n \div 4) % 2 = b[6]
      /\ (n \div 2) % 2 = b[7] /\ (n \div 1) % 2 = b[8]
  BY <1>1
<1> HIDE DEF n
<1>4. \A i \in 1..8 : (n \div 2^(W - i)) % 2 = b[i]
  BY <1>3, Place
<1>5. BitsOf(n) = b
  BY <1>4 DEF BitsOf, Word
<1>6. QED
  BY <1>2, <1>5

(* So the byte a received word reads as exists, and is that word. *)
LEMMA NumberOfByte ==
    ASSUME W = 8, NEW b \in Word
    PROVE  NumberOf(b) \in ByteValues /\ BitsOf(NumberOf(b)) = b
  BY WordHasNumber DEF NumberOf

(* And a byte survives the way to the line and back. *)
LEMMA NumberOfBits ==
    ASSUME W = 8, NEW n \in ByteValues
    PROVE  NumberOf(BitsOf(n)) = n
<1> DEFINE k == NumberOf(BitsOf(n))
<1>1. n \in 0..255 /\ ByteValues = 0..255
  BY Powers DEF ByteValues
<1>2. BitsOf(n) \in Word
  BY <1>1, BitsOfWord
<1>3. k \in 0..255 /\ BitsOf(k) = BitsOf(n)
  BY <1>1, <1>2, NumberOfByte
<1> HIDE DEF k
<1>4. ASSUME NEW i \in 1..8
      PROVE  (k \div 2^(W - i)) % 2 = (n \div 2^(W - i)) % 2
  <2>1. \A m : BitsOf(m)[i] = (m \div 2^(W - i)) % 2
    BY DEF BitsOf
  <2>2. QED
    BY <1>3, <2>1
<1>5. /\ (k \div 128) % 2 = (n \div 128) % 2
      /\ (k \div 64) % 2 = (n \div 64) % 2
      /\ (k \div 32) % 2 = (n \div 32) % 2
      /\ (k \div 16) % 2 = (n \div 16) % 2
      /\ (k \div 8) % 2 = (n \div 8) % 2
      /\ (k \div 4) % 2 = (n \div 4) % 2
      /\ (k \div 2) % 2 = (n \div 2) % 2
      /\ (k \div 1) % 2 = (n \div 1) % 2
  <2>1. 2^(W - 1) = 128 /\ 1 \in 1..8
    BY Powers
  <2>2. 2^(W - 2) = 64 /\ 2 \in 1..8
    BY Powers
  <2>3. 2^(W - 3) = 32 /\ 3 \in 1..8
    BY Powers
  <2>4. 2^(W - 4) = 16 /\ 4 \in 1..8
    BY Powers
  <2>5. 2^(W - 5) = 8 /\ 5 \in 1..8
    BY Powers
  <2>6. 2^(W - 6) = 4 /\ 6 \in 1..8
    BY Powers
  <2>7. 2^(W - 7) = 2 /\ 7 \in 1..8
    BY Powers
  <2>8. 2^(W - 8) = 1 /\ 8 \in 1..8
    BY Powers
  <2>9. QED
    BY <1>4, <2>1, <2>2, <2>3, <2>4, <2>5, <2>6, <2>7, <2>8
<1>6. k = n
  <2>1. k \div 128 = n \div 128
    BY <1>1, <1>3, <1>5
  <2>2. k \div 64 = n \div 64
    BY <1>1, <1>3, <1>5, <2>1
  <2>3. k \div 32 = n \div 32
    BY <1>1, <1>3, <1>5, <2>2
  <2>4. k \div 16 = n \div 16
    BY <1>1, <1>3, <1>5, <2>3
  <2>5. k \div 8 = n \div 8
    BY <1>1, <1>3, <1>5, <2>4
  <2>6. k \div 4 = n \div 4
    BY <1>1, <1>3, <1>5, <2>5
  <2>7. k \div 2 = n \div 2
    BY <1>1, <1>3, <1>5, <2>6
  <2>8. k % 2 = n % 2
    BY <1>1, <1>3, <1>5
  <2>9. QED
    BY <1>1, <1>3, <2>7, <2>8
<1>7. QED
  BY <1>6 DEF k

=============================================================================
