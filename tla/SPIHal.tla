------------------------------- MODULE SPIHal -------------------------------
(***************************************************************************)
(* SPI.c on the processor, one bus access at a time, over the peripheral.  *)
(* Each access of a function is a program point; between two accesses the  *)
(* processor spends up to MaxGap clocks on other instructions, and when no *)
(* function runs the application calls the next one whenever it likes.     *)
(* The SPI peer is outside the repository: a mode 0 device that presents   *)
(* the bit the master samples next, and may load another word while the    *)
(* master is idle.                                                         *)
(***************************************************************************)
EXTENDS AXISPI

CONSTANTS Divs,         \* arguments of SPI_Init
          Data,         \* arguments of SPI_Excute
          Replies,      \* words of the peer
          MaxGap        \* clocks between two bus accesses of one function

ASSUME HalAssumption ==
    /\ Divs \subseteq ByteValues /\ Data \subseteq ByteValues
    /\ Replies \subseteq ByteValues /\ MaxGap \in Nat

VARIABLES
    pc,                 \* the access under way, or "ready" between calls
    awvalid, arvalid,   \* the access is on the bus
    gap,                \* clocks since the last access
    arg, tmp, ret,      \* argument, the word a |= reads, value returned
    peer,               \* the word the peer shifts out
    div,                \* history: argument of the last SPI_Init
    call, frames,       \* history of SPI_Excute: "onIdle" or "onBusy" as it finds
                        \* the master ("none": another call), frames accepted since
    sent, reply         \* history: words of the last frame

halVars == <<pc, awvalid, arvalid, gap, arg, tmp, ret>>
histVars == <<div, call, frames, sent, reply>>
vars == <<masterVars, axiVars, halVars, peer, histVars>>

(* Slip: the start bit is not cleared. *)
ClearStartMissed(word) == word

(* |= (1<<31) and &= ~(1<<31). *)
SetStart(word) == [word EXCEPT ![3] = 2^(W - 1) + (@ % 2^(W - 1))]
ClearStart(word) == [word EXCEPT ![3] = @ % 2^(W - 1)]

WriteOf ==
    [init  |-> [addr |-> 0, data |-> Reg(0, arg, 0, 0)],
     tx    |-> [addr |-> 1, data |-> Reg(arg, 0, 0, 0)],
     set   |-> [addr |-> 0, data |-> SetStart(tmp)],
     clear |-> [addr |-> 0, data |-> ClearStart(tmp)]]

ReadOf == [get1 |-> 0, get2 |-> 0, poll |-> 2, read |-> 3]

Writing == pc \in DOMAIN WriteOf
Reading == pc \in DOMAIN ReadOf

(* The driver, its locals and the peripheral below stay in their ranges. *)
TypeOK ==
    /\ MasterTypeOK /\ Axi!AxiTypeOK
    /\ pc \in {"ready"} \cup DOMAIN WriteOf \cup DOMAIN ReadOf
    /\ awvalid \in Bit /\ arvalid \in Bit /\ gap \in 0..MaxGap
    /\ arg \in ByteValues /\ ret \in ByteValues /\ tmp \in Axi!RegWord
    /\ peer \in Replies /\ div \in ByteValues
    /\ call \in {"none", "onIdle", "onBusy"} /\ frames \in {0, 1}
    /\ sent \in Word /\ reply \in ByteValues

Init ==
    /\ PeripheralInit
    /\ pc = "ready" /\ awvalid = 0 /\ arvalid = 0 /\ gap = 0
    /\ arg = 0 /\ tmp = Reg(0, 0, 0, 0) /\ ret = 0
    /\ peer \in Replies
    /\ div = 0 /\ call = "none" /\ frames = 0 /\ sent = Zero /\ reply = 0

-----------------------------------------------------------------------------
(* The application calls a function, whatever the master is doing: a call   *)
(* of SPI_Init may change the divider under a frame.                        *)
SPI_Init(d) ==
    /\ pc = "ready"
    /\ pc' = "init" /\ arg' = d /\ gap' = 0
    /\ div' = d /\ call' = "none" /\ frames' = 0
    /\ UNCHANGED <<masterVars, axiVars, awvalid, arvalid, tmp, ret, peer,
                   sent, reply>>

SPI_Excute(d) ==
    /\ pc = "ready" /\ div \in Divs
    /\ pc' = "tx" /\ arg' = d /\ gap' = 0
    /\ call' = (IF busy = 0 THEN "onIdle" ELSE "onBusy") /\ frames' = 0
    /\ UNCHANGED <<masterVars, axiVars, awvalid, arvalid, tmp, ret, peer,
                   div, sent, reply>>

(* The processor puts the access of its program point on the bus. *)
Issue ==
    /\ awvalid = 0 /\ arvalid = 0
    /\ \/ Writing /\ bvalid = 0 /\ awvalid' = 1 /\ UNCHANGED arvalid
       \/ Reading /\ rvalid = 0 /\ arvalid' = 1 /\ UNCHANGED awvalid
    /\ gap' = 0
    /\ UNCHANGED <<masterVars, axiVars, pc, arg, tmp, ret, peer, histVars>>

LoadPeer(d) ==
    /\ busy = 0
    /\ peer' = d
    /\ UNCHANGED <<masterVars, axiVars, halVars, histVars>>

-----------------------------------------------------------------------------
(* The access ends with the response; its effect in the function. *)
WriteDone ==
    /\ Writing /\ bvalid = 1
    /\ pc' = CASE pc = "init" -> "ready" [] pc = "tx" -> "get1"
               [] pc = "set" -> "get2"   [] pc = "clear" -> "poll"
    /\ UNCHANGED <<tmp, ret>>

ReadDone ==
    /\ Reading /\ rvalid = 1
    /\ \/ pc = "get1" /\ pc' = "set" /\ tmp' = rdata /\ UNCHANGED ret
       \/ pc = "get2" /\ pc' = "clear" /\ tmp' = rdata /\ UNCHANGED ret
       \/ /\ pc = "poll"         \* while (STATE_REG & (1<<0));
          /\ pc' = IF rdata[0] % 2 = 1 THEN "poll" ELSE "read"
          /\ UNCHANGED <<tmp, ret>>
       \/ pc = "read" /\ pc' = "ready" /\ ret' = rdata[0] /\ UNCHANGED tmp

Processor ==
    /\ \/ WriteDone
       \/ ReadDone
       \/ /\ ~(Writing /\ bvalid = 1) /\ ~(Reading /\ rvalid = 1)
          /\ UNCHANGED <<pc, tmp, ret>>
    /\ awvalid' = IF awready = 1 THEN 0 ELSE awvalid
    /\ arvalid' = IF arready = 1 THEN 0 ELSE arvalid
    /\ UNCHANGED arg

(* Between accesses the processor idles for at most MaxGap clocks. *)
Waiting == pc # "ready" /\ awvalid = 0 /\ arvalid = 0 /\ bvalid = 0 /\ rvalid = 0

Pace ==
    \/ Waiting /\ gap < MaxGap /\ gap' = gap + 1
    \/ ~Waiting /\ UNCHANGED gap

Clock ==
    /\ Pace
    /\ LET op == IF Writing THEN WriteOf[pc] ELSE WriteOf["tx"] IN
       PeripheralEdge([valid |-> awvalid, addr |-> op.addr],
                      [valid |-> awvalid, data |-> op.data, strb |-> 0..3], 1,
                      [valid |-> arvalid, addr |-> IF Reading THEN ReadOf[pc] ELSE 0], 1,
                      BitsOf(peer)[bit_cnt + 1])
    /\ Processor
    /\ IF state = "IDLE" /\ start = 1
       THEN sent' = tx_data /\ reply' = peer /\ frames' = frames + 1
       ELSE UNCHANGED <<sent, reply, frames>>
    /\ UNCHANGED <<peer, div, call>>

Next ==
    \/ Clock
    \/ \E d \in Divs : SPI_Init(d)
    \/ \E d \in Data : SPI_Excute(d)
    \/ Issue
    \/ \E d \in Replies : LoadPeer(d)

Spec == Init /\ [][Next]_vars

(* The clock runs and the processor executes. *)
FairSpec == Spec /\ WF_vars(Clock) /\ WF_vars(Issue)

-----------------------------------------------------------------------------
(* A call made while the master is idle puts its argument on the line, in   *)
(* exactly one frame, however slowly the processor gets to clear the start  *)
(* bit (within MaxGap).                                                     *)
CallSendsOnce == pc = "ready" /\ call = "onIdle" => frames = 1 /\ sent = BitsOf(arg)

(* A call always returns: the poll loop does not hang. *)
CallReturns == pc # "ready" ~> pc = "ready"

(* Seen from the driver, everything below the registers is the word-level   *)
(* transfer: what Board puts in its place.                                  *)
Phase == [IDLE |-> "idle", START |-> "busy", DATA |-> "busy", STOP |-> "ending"]

Transfer == INSTANCE SPITransfer WITH
    Words <- Word, ResetWord <- Zero, tx <- tx_data, phase <- Phase[state],
    out <- sent, peer <- BitsOf(peer), rx <- rx_data

TransferSpec == Transfer!Spec

(* What the read button shows: SPI_Excute returns the byte the peer sent    *)
(* in the transfer the call made.                                           *)
ExecuteReturnsReply == pc = "ready" /\ call = "onIdle" => ret = reply

=============================================================================
