----------------------------- MODULE SPITiming -----------------------------
(***************************************************************************)
(* How long the bits of spi_master last.  The divider's registers live on  *)
(* between frames, so the lengths depend on the past: this module adds a   *)
(* clock count to SPILoopback, where software writes the registers at any  *)
(* time, except that the divider is left alone once it is set.             *)
(***************************************************************************)
EXTENDS SPILoopback

CONSTANT Reprogram      \* TRUE: SPI_Init may be called again after a frame

ASSUME TimingAssumption == Reprogram \in BOOLEAN

VARIABLES
    used,               \* history: a frame has been started since reset
    gap,                \* history: DATA cycles since sclk last moved
    age                 \* history: cycles since the frame was accepted

history == <<used, gap, age>>
timedVars == <<vars, history>>

HalfPeriod == clk_div + 1

(* Three cycles of START, STOP and divider start-up around 2W half periods. *)
FrameMax == 2 * W * HalfPeriod + 3

(* Registers and wires hold values of their widths; history stays in bounds. *)
TimingTypeOK == TypeOK /\ used \in BOOLEAN /\ gap \in Nat /\ age \in Nat

TimingInit == Init /\ used = FALSE /\ gap = 0 /\ age = 0

-----------------------------------------------------------------------------
(* The application calls SPI_Init once, before any transfer; the start bit  *)
(* and the mode bits share the register with the divider.                   *)
TimedControl(c) ==
    /\ c.clk_div # clk_div => busy = 0 /\ start = 0 /\ (Reprogram \/ ~used)
    /\ WriteControl(c) /\ UNCHANGED history

(* gap counts the edge at which sclk moves; it restarts there and at START. *)
Measure ==
    /\ gap' = IF state = "DATA" /\ sclk_r' = sclk_r THEN gap + 1 ELSE 0
    /\ age' = IF state = "IDLE" THEN 0 ELSE age + 1
    /\ used' = (used \/ state = "START")

TimedClock == Clock /\ Measure

TimedReset == Reset /\ used' = FALSE /\ gap' = 0 /\ age' = 0

TimingNext ==
    \/ TimedClock
    \/ \E c \in Controls : TimedControl(c)
    \/ \E d \in TxWords : WriteTx(d) /\ UNCHANGED history
    \/ TimedReset

TimingSpec == TimingInit /\ [][TimingNext]_timedVars

-----------------------------------------------------------------------------
(* sclk moves within a frame; a reset that ends the frame is no such move. *)
SclkMoves == state = "DATA" /\ state' # "IDLE" /\ sclk_r' # sclk_r

(* Between two moves of sclk in one frame pass clk_div + 1 cycles. *)
HalfPeriodsExact ==
    [][SclkMoves /\ (bit_cnt > 0 \/ step = 1) => gap + 1 = HalfPeriod]_timedVars

(* The first half period, in which the first bit settles, is as long as the *)
(* others, or a cycle longer: the divider takes one to start.               *)
FirstHalfExact ==
    [][SclkMoves /\ bit_cnt = 0 /\ step = 0
          => gap + 1 \in {HalfPeriod, HalfPeriod + 1}]_timedVars

(* A frame keeps busy up for at most FrameMax cycles. *)
FrameBounded == busy = 1 => age < FrameMax

=============================================================================
