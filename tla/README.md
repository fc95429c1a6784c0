# TLA+ verification of the AXI4-Lite SPI master

The repository is an FPGA peripheral, an SPI master behind an AXI4-Lite register
file, with the firmware that drives it on a board and two UVM benches that test
it. This directory holds the TLA+ models of it, the TLC configurations that check
them, and TLAPS proofs. Names in the modules are the source's wherever TLA+
allows it.

## 1. The system

| Component | Source (under `src/`) | State | Operations |
|---|---|---|---|
| `spi_master` | `AXI_SPI_GPIO/rtl/AXI_SPI_v1_0.v:123-256` | divider (`div_cnt`, `half_tick`), FSM `IDLE/START/DATA/STOP`, two shift registers, `bit_cnt`, `step`, outputs | one clock edge of two processes; asynchronous reset |
| AXI4-Lite slave and registers | `AXI_SPI_GPIO/rtl/AXI_SPI_v1_0_S00_AXI.v` | handshake flags, `aw_en`, latched addresses, `slv_reg0..3`, `rdata` | eight clocked processes |
| Top level | `AXI_SPI_GPIO/rtl/AXI_SPI_v1_0.v:4-118` | none | wires |
| `spi_slave` (bench) | `Verifi/UVM_AXI_SPI/rtl/spi_slave.sv` | synchronisers, FSM, shift registers | one clocked process |
| SPI driver | `AXI_SPI_GPIO/C_src/HAL/SPI` | none (registers) | `SPI_Init`, `SPI_Excute`, `SPI_Receive` |
| Application | `AXI_SPI_GPIO/C_src/ap_main`, `main.c` | button handles, `sw_state` | `ap_init`, `ap_excute` |
| GPIO HAL | `AXI_SPI_GPIO/C_src/HAL/GPIO` | none (registers of four ports) | set mode, write and read a pin or a port |
| Board drivers | `AXI_SPI_GPIO/C_src/driver` | `prevState` of buttons; number, decimal points and digit of the display | debounced button, switch read, LED patterns and status, display multiplexing |
| Timer HAL, `common` | `C_src/HAL/TMR`, `C_src/common` | `millis_tick` | unused but for `delay_ms` |
| UVM bench | `Verifi/UVM_AXI_SPI/tb/tb_AXI_SPI.sv` | item of the driver, words caught by the monitor, verdict of the scoreboard | driver with timeouts, monitor, scoreboard, coverage |
| Loopback bench | `Verifi/tb/tb_AXI_SPI.sv` | the same | the same without timeouts, with miso tied to mosi |
| Generated files | `Verifi/UVM_AXI_SPI/{csrc,simv.daidir,*.vdb,vdCovLog}` | | simulator output, not modelled |

The RTL is present three times with the same text (`AXI_SPI_GPIO/rtl`,
`Verifi/rtl`, `Verifi/UVM_AXI_SPI/rtl`); the models refer to the first copy.

How they interact: the processor (or a bench) reads and writes four registers
over AXI. `slv_reg0` and `slv_reg1` are wires into the master: `cpol`, `cpha`,
`clk_div`, `start` and `tx_data` take effect at the next clock, also in the middle
of a frame. Registers 2 and 3 read back `{busy, done}` and `rx_data`. The master
drives `sclk`, `mosi` and `cs_n`; the peer answers on `miso`. All RTL runs on one
clock; the concurrency is between the bus and the serial side, between the two
AXI channels, between the two ends of the serial line (the slave sees the line
two clocks late), and between firmware, which is slow, and hardware.

What is hard, and what makes each part correct:

* **`spi_master`**: the same FSM serves both clock phases, which drive and sample
  on different edges; the word returned must be whole whenever software sees
  `busy` low; registers change under it; the divider keeps its state between
  frames; `start` is a level; `done` is a one-clock pulse.
* **AXI slave**: address, data and response come on independent channels;
  `aw_en` must fall and rise once per write; a read must not be dropped.
* **Serial line**: the reply must settle before the next sample although the slave
  oversamples; reset may come in mid frame and does not clear the synchronisers.
* **Firmware**: polls a status bit and must neither hang nor return too early;
  sets and clears `start` by read-modify-write.
* **Benches**: driver and monitor look at the bus and the line at the same clock
  edges as the peripheral; a handshake must not run into its timeout, `busy` must not
  be read low before the frame began, and every item must be compared once, with its
  own words.
* **Application, display, buttons**: one thread makes several register writes for
  one change that is seen; a contact bounces while `Button_GetState` waits; LED and
  decimal point share a port; the status that `LED_State_blink` reads twice changes in
  between; the LEDs are to show that a transfer is running.

## 2. The modules

Each layer is a module of its own; the ones below it in the table build on it.

| Module | What it is |
|---|---|
| `SPIBits` | bits, W-bit words, shifting, and the number a word stands for |
| `SPITransfer` | abstract: a word is accepted, delivered as a whole, finished |
| `SPIMaster` | `spi_master`: one action per branch of the FSM, and the divider; ports are parameters |
| `SPILoopback` | `SPIMaster` with `miso = mosi` and software that rewrites the registers at any time |
| `SPISlave` | `spi_slave`: operators with ports as parameters |
| `SPILink` | `SPIMaster` and `SPISlave` on one line, as in `tb_spi` |
| `SPITiming` | `SPILoopback` with history variables that count clocks; software leaves the divider alone once a frame was started |
| `RegisterFile` | abstract: atomic registers with one read and one write in progress |
| `AXILite` | the AXI slave: one operator per clocked process |
| `AXIBus` | `AXILite` with a bus master that keeps the protocol |
| `AXISPI` | the peripheral: `AXILite` (instance) and `SPIMaster`, with the wires |
| `AXISPIBus` | `AXISPI` in loopback under the bus master of `AXIBus`: any write at any time, up to two reads outstanding, resets included |
| `SPIHal` | `SPI.c`, one bus access per step, over `AXISPI`; implements `SPITransfer` |
| `SPIBench` | what the two benches share: `AXISPI` as device under test, the driver's sequence of accesses for one item, the scoreboard |
| `UVMBench` | `Verifi/UVM_AXI_SPI`: handshakes polled at clock edges with a timeout, the two halves of a write in parallel; `SPISlave` as peer |
| `LoopbackBench` | `Verifi/tb`: handshakes waited for as levels, without a timeout; `miso = mosi` |
| `Benches` | one of the two benches is simulated; their properties |
| `GPIO` | `HAL/GPIO`: ports as sets of pins, one action per function |
| `FND` | `driver/FND` as sequences of GPIO calls, and what they light |
| `Display` | abstract: a multiplexed display, one digit at a time, each with its shape |
| `Firmware` | the processor: pending GPIO calls made one at a time, and `SPI_Excute` one access at a time, over `SPITransfer` |
| `Board` | `main.c`, `ap_main.c`, the button driver, the user and the contacts, over `Firmware` |
| `Panel` | every function of the drivers, in any order, over `Firmware` |
| `SPIMaster_proofs` | lemmas about `SPIMaster` for any wiring, and about words as numbers |
| `SPILoopback_proofs`, `SPILink_proofs`, `AXIBus_proofs`, `AXISPIBus_proofs`, `SPIHal_proofs`, `Benches_proofs` | the theorems about the module of that name; `SPILoopback_proofs` also those about `SPITiming` |
| `Board_proofs` | the theorems about `Board` and `Panel` |
| `MC*` | instances for TLC |

Five refinements tie the layers together: `SPILoopback`, `SPILink` and `SPIHal` implement
`SPITransfer`, `AXIBus` implements `RegisterFile`, and `Board` implements `Display`. All
five are checked by TLC and proved.
`Firmware` then uses `SPITransfer` in place of the clocked peripheral, which keeps the
application within TLC's reach.

**Clock and software.** A non-blocking assignment at a clock edge is a primed
variable computed from unprimed ones, so `MasterEdge` and `AxiEdge` are
conjunctions of their processes. In `SPILoopback` and `SPILink` a register write
is a step of its own between two clock edges. In the RTL it happens *at* an edge;
since everything at that edge reads the old value, that is the same as a write
immediately after it. In `SPIHal`, `AXISPIBus` and the benches writes go through the
AXI slave, at the edge. The asynchronous reset is a step that may come between any two
edges. Outside the firmware, software may write whatever its set of values
allows at any moment. `SPILoopback` leaves CPHA alone while a frame is on the line
(`WriteControl`), because a bit is then lost by design; `AXISPIBus` does rewrite it
there, and the run `axispi` checks that the damage stays in that word (`DamageContained`).

**Threads of the benches.** A driver or monitor that waits for `posedge clk` reads the
signals as they are before the edge. A wait for a level (`LoopbackBench`) ends in the
step that raises it, after all non-blocking assignments of that edge; a simulator
may also wake it between two of them, which the models leave out (see the hazard at
`src/Verifi/tb/tb_AXI_SPI.sv:68`).

**Software.** A function of a driver is the sequence of register writes it makes
(`todo`), so that hardware, user and eye can see the state between two of them. A status
read that decides the next step is a step of its own.

**Data.** A word is a function on `1..W`, index 1 being the bit that leaves first.
`W` is 8 in the source and a parameter here: `DivMax` is the largest value of the
divider (255). The registers are four byte lanes; above the serial line a byte is a
number. A port is the set of its pins that are 1, a digit the set of its lit segments.
`bresp`, `rresp`, `awprot` and `arprot` carry no information and are left out. The case
of `default:` branches of two-bit state registers whose four values are all used does
not exist.

**Outside the repository** are the processor's bus interface (`AXIBus` and `SPIHal`:
VALID and payload held until the handshake, responses taken at some time; in `SPIHal`
both READYs are up), the SPI device on the board (`SPIHal`: a mode 0 device that
presents the bit the master will sample; `Firmware`: any byte), the GPIO block (`GPIO`:
a pin is driven from `ODR` when `CR` makes it an output), and the contacts of the
buttons (`Board`).

**Assumptions of `Firmware` and `Board`.** Three facts about speed are taken over from
`SPIHal`, where they come from the clock counts: an idle master accepts a start level
before software clears it, a frame is longer than the start pulse, `done` is a pulse.
The delay of 50 ms in `Button_GetState` outlasts the bouncing that began before it
and a frame (`DelayOver`, `Quiet`); a frame is 2W half periods and three cycles at most
(`FrameTimeCorrect`), 83 clocks at the divider the firmware sets.

Operators whose comment begins "Slip" are variants of the definition after them
with a plausible coding error; each property was seen to fail with one of them.

## 3. The runs

| Run | Instance | Shows |
|---|---|---|
| `loopback` | W = 3, all 16 control words of a 1-bit divider, two bytes, resets anywhere | `EchoIntegrity`, `FrameClocking`, the inductive `FrameInv`, refinement of `SPITransfer`, and that frames end |
| `link` | W = 8, CPHA 0, both polarities, dividers 2 and 4, two words each way, resets in mid frame | both words arrive (`MasterGotReply`, `SlaveGotWord`); refinement of `SPITransfer` with the slave's reply as the peer's word |
| `timing` | W = 3, every control word with `DivMax` = 3 (dividers 0..3, all modes), one word, resets anywhere | half periods as programmed, bounded frames, with one `SPI_Init` before the first frame |
| `timing_reprogram` | dividers 0 and 4 of 255 | **violation**, see below |
| `bus` | two lanes, three writes (full, partial, to a shadowed register), reads of three registers, status changing at every clock | atomic registers (`RegisterFile`), responses match requests, no read lost, everyone answered |
| `axispi` | W = 2, `DivMax` = 3; start in mode 0 with divider 0, stop with divider 1 and the other phase and polarity, a write of the word by one lane, status reads (up to two outstanding), resets, all at any time | a poll never says "not busy" before the frame that was started has ended (`PollTellsTheTruth`); a change of phase under a frame costs bits of its word and nothing else (`DamageContained`); an answer that waits for RREADY stands (`AnswerStands`) |
| `hal` | W = 8, `DivMax` = 255, divider 4, two bytes, two replies, up to 3 clocks between accesses, `SPI_Init` at any time between calls, also under a frame | one frame per call on an idle master, the word-level transfer implemented, calls return |
| `hal_reply` | the same | **violation** |
| `benches` | either bench; W = 8, `DivMax` = 255, timeout 200, four words by three replies, in any order | the scoreboard never reports a mismatch (`ScoreboardPasses`), no timeout (`NoTimeout`), every item is compared once by its own words (`EveryItemChecked`), items follow each other |
| `board` | bytes 0 and 205, reply 205, both buttons, bounces anywhere | a press acts once, a call sends one frame with its byte, `Display` implemented, a button held or released is noticed in the end, every digit has its turn |
| `board_leds_dark` | the same | **violation** |
| `panel` | byte 0, numbers 0 and 5205, the point at digit 0 | `LED_State_blink` never shows done and busy together; the display rests readable |

*Bounds.* The master treats every middle bit alike, so W = 3 has a first, a middle
and a last bit; the proofs then hold for every W. With `DivMax` = 1 the divider has
both the case "half tick in every clock" and the case that counts, and a change in
mid frame can put it past its match so that it must wrap. The link needs W = 8
nowhere, but is small enough to be run at it. Dividers 2 and 4 are the smallest one
at which the oversampling slave answers in time and the one firmware and bench use
(at 0 and 1 the slave's answer is late, a limit of the design that nothing in the
repository contradicts). Two lanes are enough for a strobe to split a word. In
`axispi` two bits (a first and a last) and one word whose bits differ tell a whole word
from a torn one, and the divider that drops from 1 to 0 under a frame must wrap; every
mode and word in a frame that is left alone is `loopback`'s. `hal` has the one
divider of the firmware; that `SPI_Init` may ask for another one while a frame is on the line is
covered by the proofs, for every set of dividers. Three clocks between two accesses of the firmware let the status poll
fall before, on and after the `done` pulse; the longest pulse of `start` then is still
shorter than the 83 clocks of a frame, which is what `CallSendsOnce` depends on.
`MaxGap` is that bound; how large it may be is worked out in `SPIHal_proofs` (`Paced`, section
4): 38 for this divider. The benches have no free timing: only the items vary, so the
words are chosen for their bits (all ones, all zeros, alternating, asymmetric), and each
may follow each; the two halves of a write and the wait after reset are the source's, as
is `TimeoutLimit`. 205 has three digits that differ, so that a digit shown at another's
place is seen, 5205 has four places in use. On the board the switches send 0 or 205,
which is what tells the byte of one button from that of the other; that a reply may
differ from the one before is `hal`'s matter. `frames` in `Firmware` stops at 2: one too
many is enough.

*Fairness.* `WF(Clock)`: the clock runs. `FrameEnds` assumes in addition that the
divider is eventually left alone, since a writer that keeps moving it past the
counter can delay a half tick for ever. In `AXIBus` a master that has
asked puts both halves of its write on the bus and takes its answer (`WF` of those steps):
the AXI protocol obliges it. In `SPIHal` the processor executes (`WF(Issue)`). In
`Board` processor and peripheral run and a contact comes to rest (`WF` of `Program`,
`Hardware` and `Settle`); nothing is assumed of the user, and `ButtonsFollow` is about a
button that is left alone in the end. The benches need the clock only.

*Deadlock* is checked in every run: the clock can always tick, and the program never
ends.

### What the violations show

* **`hal_reply`**: `SPI_Excute` polls bit 0 (`done`) of the status, which is 0 during the
  transfer; it should poll bit 1 (`busy`). It returns the byte of the transfer before:
  the display shows the reply of the last press. Two things follow from the early
  return: the LEDs of the write button go off while the byte is still on the line, and a
  call made right after another would find the master busy and lose its start pulse (on
  the board the 50 ms of the next button keep calls apart: `EveryPressSends` holds).
* **`timing_reprogram`**: `div_cnt` and `half_tick` survive the frame and mistime the first
  half bit of the next when the divider was reprogrammed.
* **`board_leds_dark`**: the decimal point is written to the port of the LEDs, so LED 7
  is lit although nothing is transferred.

Two limits lie outside the runs. With `CPHA` = 1 in `MCSPILink.cfg` both properties fail:
`spi_slave` loses the first bit of its reply, and samples the last bit of the master
after `mosi` was released; the bench straps CPHA 0. With `MaxReads` = 2 in `MCAXIBus.cfg`
`ReadsAnswered` fails: a read accepted while the answer before it waits for RREADY is
never answered; neither the firmware nor the benches have two reads outstanding. What
the slave does guarantee then, that the answer which waits is neither withdrawn nor
overwritten, is `AnswerStands` in the run `axispi`, where two reads may be outstanding.

## 4. The proofs

**The master in loopback** (`SPILoopback_proofs`), for every `W` \in Nat \ {0}, `DivMax`
\in Nat and all sets of control words and bytes (`WidthAssumption`, `DivMaxAssumption`,
`SoftwareAssumption`):

* `TypeCorrect`: `Spec => []TypeOK`, one step per action;
* `EchoCorrect`, `FrameCorrect`: `Spec => []EchoIntegrity`, `Spec => []FrameInv`;
* `ClockingCorrect`: `Spec => []FrameClocking`;
* `TransferCorrect`: `Spec => TransferSpec`, that is, refinement of `SPITransfer`.

`EchoIntegrity` speaks only of the end of a frame and is not inductive. `FrameInv` says
where each bit of the word is in the middle of one: with `Driven` bits put on the wire
and `Sampled` bits back, `tx_shift_reg` holds the rest of the word in its upper bits, `mosi`
the last driven bit and `rx_shift_reg` the first `Sampled` bits in its lower ones.
`DriveStep` and `SampleStep` are the two lemmas that move a bit; each branch of the FSM
has a lemma that puts them together (in CPHA 0 a bit is driven one step before it is
sampled, in CPHA 1 in the step before, and at the last edge the word is complete either
way, `LastWord`). `Inv` (`TypeOK /\ FrameInv /\ FrameClocking`) is inductive, and the
refinement needs of it that `rx_data` receives exactly `sent` at the last edge and that
`done` is low during a frame.

**The two ends of the line** (`SPILink_proofs`), for all sets of dividers, words and
replies, either polarity, registers rewritten between frames and resets anywhere:

* `TypeCorrect`: `Spec => []TypeOK`;
* `ReplyCorrect`, `WordCorrect`: `Spec => []MasterGotReply`, `Spec => []SlaveGotWord`;
* `TransferCorrect`: `Spec => TransferSpec`, refinement of `SPITransfer`.

The last three have the hypothesis `Mode0`: more than one bit, `CPHA` = 0, dividers above 1.
Each part is needed: for `CPHA` = 1 and for dividers 0 and 1 TLC has counterexamples (see
Bounds and the end of section 3), and after a reset in mid frame the slave may still
take one edge of the old frame, which for W = 1 is a whole word. Between the two ends lie
two flip-flops. The divider's count says how far an edge has come through them: one
clock after `sclk` moved the first has it, two clocks after the second, and with a
divider above 1 it is through before the next edge (`LineInv`). So the slave is behind
the master by at most the edge under way, which `Got` and `Put` account for: it has
`Got` bits of the word and has put out bit `Put + 1` of the reply (`SlaveInv`), while the
master's registers hold what they hold in loopback, with the reply in place of the echo
(`MasterInv`). `DividerInv`: a frame begins with the counter at most one ahead, which
leaves the slave the clocks to see chip select. `AsleepInv` is what resets and the end of
a frame need: until it sees chip select the slave takes at most one edge and finishes no
word.

**Timing** (`SPITiming`, proved in `SPILoopback_proofs`), for every width, divider range and
set of control words, resets included:

* `TimingTypeCorrect`: `TimingSpec => []TimingTypeOK`, which the run therefore leaves out (its
  registers by `TimedIsLoopback`: a timed master is a master in loopback);
* `HalfPeriodsCorrect`: `TimingSpec => HalfPeriodsExact`;
* `FirstHalfCorrect`, `FrameTimeCorrect`: `TimingSpec => FirstHalfExact` and
  `TimingSpec => []FrameBounded` when `Reprogram = FALSE` (otherwise `timing_reprogram` is a
  counterexample).

The invariant relates the divider's counter to the clocks since `sclk` moved: once it
has moved in this frame the counter is one ahead of `gap` (`HalfInv`); before that it is
level with it or one ahead, depending on what the last frame left in the divider
(`FirstInv`, for which the divider must not have been changed since). `AgeInv` adds the
halves up; `NextHalf` is its only nonlinear step.

**The bus** (`AXIBus_proofs`), for any number of lanes and any sets of writes, addresses
and status words (`LanesAssumption`, `BusAssumption`):

* `TypeCorrect`, `WriteAnswersCorrect`: `Spec => []TypeOK`, `Spec => []WriteAnswersMatch`;
* `ReadsCorrect`: `Spec => []ReadsAnswered` when `MaxReads = 1`;
* `RegistersCorrect`: `Spec => RegistersSpec`, refinement of `RegisterFile`, when
  `MaxReads = 1` (with two there is a counterexample, see above).

`WriteInv` places `aw_en`, the READYs and the response between request and answer: the
two halves are taken in the same clock, from the write under way, and `aw_en` is down from
then until the response is taken. `ReadInv` says that an address latched is the one asked.
With these every clock edge is one of the abstract steps: it applies a write, serves a
read, ends either, any of these together, or none. `Handshakes` is the part of the
invariant that does not depend on what the registers hold, so that the next layer
can use it.

**The peripheral under the bus** (`AXISPIBus_proofs`), for every width, divider range and
set of writes and addresses, resets included (`DividerIsAByte`, `BusAssumption`):

* `PollCorrect`: `Spec => []PollTellsTheTruth`;
* `AnswerCorrect`: `Spec => AnswerStands`;
* `FrameCorrect`: `Spec => []DamageContained`, for W = 8;
* `TypeCorrect`: `Spec => []TypeOK`, for W = 8.

The lemmas of `AXIBus_proofs` are taken over by instance, with the master's outputs as the
status the bus reads; the serial side adds `EdgesInv`, the count of edges by state and bit,
which no change of phase disturbs, since both phases move `sclk` and count alike.
`WordInv` is the place of each bit of the word (`Placed`) in a frame that is not torn: the
phase is then the one its bits were placed with, and `LastWord` completes the word at the last
edge. In the clock that tears the word `WordInv` becomes void until the next frame, which
starts from `tx_data` again: nothing of the torn word is left in it.
`PollTellsTheTruth` rests on two facts about the clocks between the two: a start that was
written and not yet accepted has its response just raised (`OwedInv`: the master takes
it at the very next edge), and a read asked after that response is not overtaken
by a later write (`FairInv`).

**The SPI driver** (`SPIHal_proofs`), for W = 8 and all sets of dividers, arguments and
replies (`HalAssumption`):

* `TransferCorrect`: `Spec => TransferSpec`, refinement of `SPITransfer`;
* `SendsOnce`: `Spec => []CallSendsOnce` when `Paced`;
* `TypeCorrect`: `Spec => []TypeOK` when `Paced` (its part `frames \in {0, 1}` is that no call
  starts a second frame).

The first holds however slow the processor is. `start` is a level, so the others
do not: the start bit must fall before its frame is over. It is up for at most
`2 * MaxGap + 5` clocks, two gaps, a read and a write; the frame takes `2 * W` half periods
of `d + 1` clocks and three clocks around them, but for the clock by which the divider may
be ahead. `Paced` is the inequality between the two, `W * (d + 1) > MaxGap + 1` for every
divider `d` in use, and it is tight: with the largest `MaxGap` it allows for `d` = 0, 1, 2, 4
(6, 14, 22, 38) TLC finds nothing wrong, with the next one a call that sends twice. The
argument goes from the bus inwards. `WriteInv` and `ReadInv` place the one access under way
between request and response; `RegInv` says what the two registers hold at each
point of the program, and that the copy a read-modify-write works on is not stale;
`SerialInv` is the frame. Then the race: `Since` bounds the clocks since the start bit
was written from above, by the program point, `Counted` is what the divider has counted of
the frame. At a clock the first grows by at least one and the second by at most one, so
that `Counted <= Since + Ahead - 1` (`TimeInv`) is kept, and with `Paced` the frame cannot
end while the bit is up. `Ahead` is the half period that is over at once when a frame with
divider 0 came before and left its half tick behind (`DividerInv`); then `Paced` holds for
divider 0, and `PacedAhead` shows that to be enough for any other.
`SPI_Init` may come while the frame of an earlier call is on the line and change its
divider, as nothing in `SPI.c` prevents it; of such a frame `CallInv` keeps only that its divider is one
of `Divs`, and `TimeInv` speaks of the frame of the running call, under which no other call is made.

W is 8 in this module, and in `TypeCorrect` and `FrameCorrect` of the one before, because a byte is a number
on the bus and a word of bits on the line: that the two correspond for every width is an
induction over the bits, out of the provers' reach, while eight powers of two can be
listed (`Powers`, `BitsOfWord`, `WordHasNumber`, `NumberOfByte` in `SPIMaster_proofs`).

**The application** (`Board_proofs`), for every set of bytes that contains 0:

* `PressCorrect`: `Spec => PressActsOnce`;
* `SendCorrect`: `Spec => []EveryPressSends`;
* `TypeCorrect`: `Spec => []TypeOK`;
* `DisplayCorrect`: `Spec => DisplaySpec`, refinement of `Display`.

`ContactInv`: a contact at rest shows the finger; a button that was used up has no finger
on it, and after the delay no bounce from before is left, so that what the second read
of the pin sees is a press not used up. `CallInv`: when a call begins the line is quiet
(the delay), its start level is accepted once before it is cleared and not again.
The display is refined one pending HAL call at a time. `SetUpInv`: what is pending before
the first turn of the loop is the end of `ap_init`, and nothing is lit until the commons
become outputs. `DigitInv`: afterwards it is the end of the calls of one digit, all from
the digit whose turn it is, with at most the write to the LEDs behind them; all is dark
while the segments change, and when the common is switched on the port holds the
segments of that digit. That `fndFont` has the shapes the eye expects is a lemma, digit by
digit.

**The drivers under any application** (`Panel`, proved in `Board_proofs`), for every set of
numbers and of decimal points (`PanelAssumption`):

* `PanelTypeCorrect`: `PanelSpec => []PanelTypeOK`;
* `BlinkCorrect`: `PanelSpec => []BlinkConsistent`;
* `RestsCorrect`: `PanelSpec => []RestsReadable`.

`PanelRanges` also bounds what is pending. `BlinkInv` follows `LED_State_blink` through its
two reads: when the first gives `done` the line is idle (`PanelCallInv`), and nothing can
start a frame before the second, which therefore gives "not busy". `RestInv` says what the
end of a function has left to do: the last m of the four calls that light a digit
(`ShowsDigit`, with the segments of that digit already on the port when only the common
is left), or of the two that switch everything off or on (`GoesDark`, `GoesBright`). With
nothing left, each of them is one of the ways to rest.

**The benches** (`Benches_proofs`), for every set of items, at the width of the source and
with a timeout above one clock (`Source`; in the UVM driver it is 200):

* `TimeoutCorrect`: `Spec => []NoTimeout`;
* `CheckedCorrect`: `Spec => []EveryItemChecked`;
* `ScoreCorrect`: `Spec => []ScoreboardPasses`;
* `TypeCorrect`: `Spec => []TypeOK`.

None of the first three is inductive: the comparison is made two accesses after the word
was written and a frame after it was put on the line. `AccessInv` is everything but the
data on the line. `Beat` reads off the signals of the bus where the access stands;
`BusInv` says which signals are up at each beat, and `UvmInv` and `LoopbackInv` where
the driver's threads wait there and for how long, of which `NoTimeout` is a consequence.
`RegInv` is the control register and the word to send at each access of the item,
`FrameInv` and `DividerInv` that the frame begins with the start bit, is in its first
clocks when the bit falls, and is over when the driver stops polling. `UvmMonitorInv` and
`LoopbackMonitorInv`: what the monitor caught on the bus is what the driver put there, and
the scoreboard was given nothing else, which is `EveryItemChecked`. `ScoreInv` adds the
line. For the UVM bench it is the invariant of `SPILink_proofs`, whose lemmas are
taken over by instance (`Line`) with the item's words in place of what `SPILink`
remembers; for the loopback bench `EchoInv`, the place of each bit of the word. With
`NumberOfBits`, the word that comes off the line is the byte that went on it.

`SPIMaster_proofs` holds the lemmas about `spi_master` that all modules on it use: what
each branch of the FSM does to the registers, what the divider counts, the edges of a
frame with `CPHA` 0, and the bytes as words (`Powers`, `NumberOfBits`).

With these, every invariant and every refinement the passing runs check is also a theorem.

**Only model-checked** is liveness (`FrameEnds`, `Answered`, `CallReturns`,
`ItemsComplete`, `ButtonsFollow`, `AllDigitsShown`): it needs ENABLED, which is out of the
prover's reach.

## 5. Plan

Done: the serial side, the bus side, the peripheral, the SPI driver, the application with
its drivers, both benches; every safety property and refinement proved. What could
still be added: the theorems about words as numbers hold for W = 8, where the powers of
two can be listed; for every width they need an induction over the bits.

### Not modelled

* **Timer HAL, `millis`, `delay_us`**: no file calls them, and the timer block they are
  for is not in the repository. `delay_ms` is `DelayOver`.
* **`SPI_Receive`**: not called; it is one read of `RX_DATA`.
* **UVM bench**: coverage, report formatting, construction and phasing of the components.
* **Linker script**: static memory layout.
* **Simulator output** (`csrc`, `simv.daidir`, `vc_hdrs.h`, `*.vdb`, `vdCovLog`): generated from
  the benches. It is about 6000 of the 7150 lines of C in the repository and holds none
  of its logic. The logic is in some 1000 lines of hand-written C, which are modelled
  apart from the items above, and in the Verilog and SystemVerilog sources.
