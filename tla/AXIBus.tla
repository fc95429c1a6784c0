------------------------------- MODULE AXIBus -------------------------------
(***************************************************************************)
(* The AXI4-Lite slave and a bus master that keeps the protocol: VALID and *)
(* its payload stay until the handshake, write address and write data may  *)
(* come in either order, responses may be taken late.  The master acts     *)
(* between clock edges; a handshake happens at an edge at which VALID and  *)
(* READY are both up.  The source expects no outstanding transactions:     *)
(* one write, and MaxReads reads, may be unanswered at a time.             *)
(***************************************************************************)
EXTENDS AXILite

CONSTANTS Writes,       \* the writes the master performs
          ReadAddrs,    \* the registers it reads
          Statuses,     \* what the SPI side shows in register 2 ...
          RxWords,      \* ... and in register 3
          MaxReads      \* reads the master leaves unanswered before the next

WriteOp == [addr : Regs, data : RegWord, strb : SUBSET Lanes]

ASSUME BusAssumption ==
    /\ Writes \subseteq WriteOp /\ ReadAddrs \subseteq Regs
    /\ Statuses \subseteq RegWord /\ RxWords \subseteq RegWord
    /\ MaxReads \in Nat \ {0}

VARIABLES
    wop, writing,       \* the current write, and whether it is unanswered
    aw, w,              \* its two halves: "todo", "valid" (on the bus), "done"
    bready,
    araddr_in, arvalid, rready,
    reads,              \* reads asked and not answered
    status, rx          \* busy/done and rx_data of spi_master

busVars == <<wop, writing, aw, w, bready, araddr_in, arvalid, rready, reads>>
sideVars == <<status, rx>>
vars == <<axiVars, busVars, sideVars>>

(* The registers, flags and channel wires stay in their declared ranges. *)
TypeOK ==
    /\ AxiTypeOK
    /\ wop \in WriteOp /\ writing \in Flag
    /\ aw \in {"todo", "valid", "done"} /\ w \in {"todo", "valid", "done"}
    /\ bready \in Flag /\ arvalid \in Flag /\ rready \in Flag
    /\ araddr_in \in Regs /\ reads \in 0..MaxReads
    /\ status \in RegWord /\ rx \in RegWord

Init ==
    /\ AxiInit
    /\ wop \in Writes /\ writing = 0 /\ aw = "done" /\ w = "done"
    /\ bready \in Flag
    /\ araddr_in \in ReadAddrs /\ arvalid = 0 /\ rready \in Flag /\ reads = 0
    /\ status \in Statuses /\ rx \in RxWords

-----------------------------------------------------------------------------
(* The master. *)
AskWrite(op) ==
    /\ writing = 0
    /\ writing' = 1 /\ wop' = op /\ aw' = "todo" /\ w' = "todo"
    /\ UNCHANGED <<axiVars, sideVars, bready, araddr_in, arvalid, rready, reads>>

PresentAddress ==
    /\ aw = "todo" /\ aw' = "valid"
    /\ UNCHANGED <<axiVars, sideVars, wop, writing, w, bready,
                   araddr_in, arvalid, rready, reads>>

PresentData ==
    /\ w = "todo" /\ w' = "valid"
    /\ UNCHANGED <<axiVars, sideVars, wop, writing, aw, bready,
                   araddr_in, arvalid, rready, reads>>

OfferBReady ==
    /\ bready = 0 /\ bready' = 1
    /\ UNCHANGED <<axiVars, sideVars, wop, writing, aw, w,
                   araddr_in, arvalid, rready, reads>>

AskRead(a) ==
    /\ arvalid = 0 /\ reads < MaxReads
    /\ arvalid' = 1 /\ araddr_in' = a /\ reads' = reads + 1
    /\ UNCHANGED <<axiVars, sideVars, wop, writing, aw, w, bready, rready>>

OfferRReady ==
    /\ rready = 0 /\ rready' = 1
    /\ UNCHANGED <<axiVars, sideVars, wop, writing, aw, w, bready,
                   araddr_in, arvalid, reads>>

(* The master's half of the edge: what was shaken hands on is withdrawn,    *)
(* and after a response the READY of the next one may come late.            *)
Valid(half) == IF half = "valid" THEN 1 ELSE 0

TakeWriteAnswer ==
    \/ bvalid = 1 /\ bready = 1 /\ writing' = 0 /\ bready' \in Flag
    \/ ~(bvalid = 1 /\ bready = 1) /\ UNCHANGED <<writing, bready>>

TakeReadAnswer ==
    \/ rvalid = 1 /\ rready = 1 /\ reads' = reads - 1 /\ rready' \in Flag
    \/ ~(rvalid = 1 /\ rready = 1) /\ UNCHANGED <<reads, rready>>

MasterEdge ==
    /\ aw' = IF aw = "valid" /\ awready = 1 THEN "done" ELSE aw
    /\ w' = IF w = "valid" /\ wready = 1 THEN "done" ELSE w
    /\ arvalid' = IF arvalid = 1 /\ arready = 1 THEN 0 ELSE arvalid
    /\ TakeWriteAnswer /\ TakeReadAnswer
    /\ UNCHANGED <<wop, araddr_in>>

Clock ==
    /\ AxiEdge([valid |-> Valid(aw), addr |-> wop.addr],
               [valid |-> Valid(w), data |-> wop.data, strb |-> wop.strb],
               bready, [valid |-> arvalid, addr |-> araddr_in], rready, status, rx)
    /\ MasterEdge
    /\ status' \in Statuses /\ rx' \in RxWords

Reset ==
    /\ AxiReset
    /\ writing' = 0 /\ aw' = "done" /\ w' = "done" /\ arvalid' = 0 /\ reads' = 0
    /\ status' \in Statuses /\ rx' \in RxWords
    /\ UNCHANGED <<wop, araddr_in, bready, rready>>

Next ==
    \/ Clock
    \/ \E op \in Writes : AskWrite(op)
    \/ PresentAddress \/ PresentData \/ OfferBReady
    \/ \E a \in ReadAddrs : AskRead(a)
    \/ OfferRReady
    \/ Reset

Spec == Init /\ [][Next]_vars

(* The clock runs, and a master that asked follows through. *)
FairSpec ==
    /\ Spec /\ WF_vars(Clock)
    /\ WF_vars(PresentAddress) /\ WF_vars(PresentData)
    /\ WF_vars(OfferBReady) /\ WF_vars(OfferRReady)

-----------------------------------------------------------------------------
(* A write response stands only for a write whose address and data were     *)
(* both taken and which nobody has answered yet; while none stands and none *)
(* is asked the slave is ready to take the next.                            *)
WriteAnswersMatch ==
    /\ bvalid = 1 => writing = 1 /\ aw = "done" /\ w = "done"
    /\ writing = 0 => aw_en = 1 /\ awready = 0 /\ wready = 0

(* Every read whose address was taken has its answer standing until the     *)
(* master takes it: none is dropped, none is answered twice.                *)
ReadsAnswered == reads = arvalid + rvalid

(* Whoever asks is answered. *)
Answered == (writing = 1 ~> writing = 0) /\ (reads > 0 ~> reads = 0)

(* The slave and its handshakes seen as registers and one request of each kind. *)
Registers == INSTANCE RegisterFile WITH
    reg <- slv_reg,
    wstate <- IF writing = 0 THEN "none" ELSE IF bvalid = 1 THEN "applied" ELSE "asked",
    rop <- araddr_in, val <- rdata,
    rstate <- IF reads = 0 THEN "none" ELSE IF rvalid = 1 THEN "served" ELSE "asked"

(* The five-channel slave implements a plain register file. *)
RegistersSpec == Registers!Spec

=============================================================================
