----------------------------- MODULE AXISPIBus -----------------------------
(***************************************************************************)
(* The whole peripheral under any bus master that keeps the protocol, with *)
(* miso tied to mosi: AXISPI joined to the master of AXIBus.  Nothing else *)
(* is assumed of the software: registers are written in mid frame, CPHA    *)
(* included, with any strobes, reads and writes overlap, and a read may be *)
(* asked while the answer to the one before waits for RREADY.              *)
(***************************************************************************)
EXTENDS AXISPI

CONSTANTS Writes, ReadAddrs

VARIABLES
    wop, writing, aw, w, bready, araddr_in, arvalid, rready, reads,
    owed,               \* history: a start level was written while the master
                        \* was idle, and its frame has not ended
    fair,               \* history: the read whose address is on the bus, if any,
                        \* was asked with no write unanswered
    told,               \* history: such a read was answered "not busy" while a
                        \* frame was owed
    edges,              \* history: changes of sclk in the frame
    sent,               \* history: the word latched when the frame began
    torn                \* history: CPHA was changed while it was shifted

busVars == <<wop, writing, aw, w, bready, araddr_in, arvalid, rready, reads>>
histVars == <<owed, fair, told, edges, sent, torn>>
vars == <<masterVars, axiVars, busVars, histVars>>

B == INSTANCE AXIBus WITH
    Lanes <- 0..3, Bytes <- ByteValues, MaxReads <- 2,
    Statuses <- Axi!RegWord, RxWords <- Axi!RegWord,
    status <- STATE_REG, rx <- RX_REG

ASSUME BusAssumption == Writes \subseteq B!WriteOp /\ ReadAddrs \subseteq B!Regs

(* Both halves of the peripheral and the bus stay in range. *)
TypeOK ==
    /\ MasterTypeOK /\ B!TypeOK
    /\ owed \in BOOLEAN /\ fair \in BOOLEAN /\ told \in BOOLEAN
    /\ edges \in 0..2*W /\ sent \in Word /\ torn \in BOOLEAN

Init ==
    /\ PeripheralInit
    /\ wop \in Writes /\ writing = 0 /\ aw = "done" /\ w = "done"
    /\ bready \in Bit
    /\ araddr_in \in ReadAddrs /\ arvalid = 0 /\ rready \in Bit /\ reads = 0
    /\ owed = FALSE /\ fair = TRUE /\ told = FALSE
    /\ edges = 0 /\ sent = Zero /\ torn = FALSE

-----------------------------------------------------------------------------
Clock ==
    /\ MasterEdge(cpol, cpha, clk_div, tx_data, start, mosi)
    /\ B!Clock
    /\ owed' = (state # "STOP" /\ (owed \/ (busy = 0 /\ start = 0 /\ start' = 1)))
    /\ told' = IF rvalid = 0 /\ rvalid' = 1
               THEN araddr = 2 /\ rdata'[0] < 2 /\ fair /\ owed
               ELSE told
    /\ edges' = CASE state = "IDLE" -> 0
                  [] state = "DATA" /\ sclk_r' # sclk_r -> edges + 1
                  [] OTHER -> edges
    /\ sent' = IF state = "IDLE" /\ start = 1 THEN tx_data ELSE sent
    /\ torn' = CASE state = "IDLE" /\ start = 1 -> FALSE
                 [] state' = "DATA" /\ cpha' # cpha -> TRUE
                 [] OTHER -> torn
    /\ fair' = (fair \/ arvalid' = 0)

Reset ==
    /\ MasterReset(0) /\ B!Reset
    /\ owed' = FALSE /\ edges' = 0 /\ sent' = Zero /\ torn' = FALSE
    /\ fair' = TRUE /\ UNCHANGED told

AskWrite(op) == UNCHANGED <<masterVars, histVars>> /\ B!AskWrite(op)

AskRead(a) ==
    /\ fair' = (writing = 0)
    /\ UNCHANGED <<masterVars, owed, told, edges, sent, torn>>
    /\ B!AskRead(a)

BusStep ==
    /\ UNCHANGED <<masterVars, histVars>>
    /\ B!PresentAddress \/ B!PresentData \/ B!OfferBReady \/ B!OfferRReady

Next ==
    \/ Clock
    \/ \E op \in Writes : AskWrite(op)
    \/ \E a \in ReadAddrs : AskRead(a)
    \/ BusStep
    \/ Reset

Spec == Init /\ [][Next]_vars

-----------------------------------------------------------------------------
(* What both benches rely on: after a start level was written to an idle    *)
(* master, a status read asked once that write was answered never says "not *)
(* busy" before the frame it started has ended.                             *)
PollTellsTheTruth == ~told

(* A change of CPHA under a frame costs bits of that frame's word and harms *)
(* nothing else.  The frame still has the edges of W bits; and once busy is *)
(* low, rx_data is the whole word of every frame whose own shifting saw no  *)
(* such change: rewrites of the other fields, of CPHA before its first edge *)
(* or after its last, and torn frames before it leave no trace in it.       *)
DamageContained ==
    /\ state = "STOP" => edges = 2 * W /\ bit_cnt = W - 1
    /\ busy = 0 /\ ~torn => rx_data = sent

(* An answer that waits for RREADY is not disturbed, not even by a second   *)
(* read whose address the slave accepts meanwhile.                          *)
AnswerStands ==
    [][rvalid = 1 /\ rready = 0 /\ ~Reset => rvalid' = 1 /\ UNCHANGED rdata]_vars

=============================================================================
