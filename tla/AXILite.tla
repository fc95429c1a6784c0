------------------------------ MODULE AXILite ------------------------------
(***************************************************************************)
(* AXI_SPI_v1_0_S00_AXI.v: the AXI4-Lite slave in front of spi_master, one *)
(* operator per clocked process.  Its ports are parameters; an operator    *)
(* reads the values before the clock edge.  A 32-bit register or bus word  *)
(* is a function from its byte lanes to byte values, which is as much of   *)
(* it as write strobes and the register fields tell apart.  Names are the  *)
(* source's without the prefix axi_; addresses are word addresses.         *)
(***************************************************************************)
EXTENDS Integers

CONSTANTS Lanes,        \* byte lanes of a register, 0..3 in the source
          Bytes         \* values of a byte lane

ASSUME LanesAssumption == Lanes # {} /\ 0 \in Bytes

VARIABLES
    awready, aw_en, awaddr, wready, bvalid,     \* write channels
    arready, araddr, rvalid, rdata,             \* read channels
    slv_reg                                     \* slv_reg0 .. slv_reg3

axiVars == <<awready, aw_en, awaddr, wready, bvalid,
             arready, araddr, rvalid, rdata, slv_reg>>

Flag == {0, 1}
Regs == 0..3
RegWord == [Lanes -> Bytes]
Cleared == [l \in Lanes |-> 0]

AxiTypeOK ==
    /\ awready \in Flag /\ aw_en \in Flag /\ wready \in Flag /\ bvalid \in Flag
    /\ arready \in Flag /\ rvalid \in Flag
    /\ awaddr \in Regs /\ araddr \in Regs /\ rdata \in RegWord
    /\ slv_reg \in [Regs -> RegWord]

AxiInit ==
    /\ awready = 0 /\ aw_en = 1 /\ awaddr = 0 /\ wready = 0 /\ bvalid = 0
    /\ arready = 0 /\ araddr = 0 /\ rvalid = 0 /\ rdata = Cleared
    /\ slv_reg = [r \in Regs |-> Cleared]

AxiReset ==
    /\ awready' = 0 /\ aw_en' = 1 /\ awaddr' = 0 /\ wready' = 0 /\ bvalid' = 0
    /\ arready' = 0 /\ araddr' = 0 /\ rvalid' = 0 /\ rdata' = Cleared
    /\ slv_reg' = [r \in Regs |-> Cleared]

-----------------------------------------------------------------------------
(* Address and data are taken together, and only when the previous write   *)
(* has been answered: aw_en falls here and rises with the response.        *)
TakesWrite(awvalid, wvalid) ==
    awready = 0 /\ awvalid = 1 /\ wvalid = 1 /\ aw_en = 1

(* Slip: the response does not allow the next write. *)
AwReadyNotRearmed(awvalid, wvalid, bready) ==
    \/ TakesWrite(awvalid, wvalid) /\ awready' = 1 /\ aw_en' = 0
    \/ ~TakesWrite(awvalid, wvalid) /\ awready' = 0 /\ UNCHANGED aw_en

AwReady(awvalid, wvalid, bready) ==
    \/ /\ TakesWrite(awvalid, wvalid)
       /\ awready' = 1 /\ aw_en' = 0
    \/ /\ ~TakesWrite(awvalid, wvalid)
       /\ awready' = 0
       /\ aw_en' = IF bready = 1 /\ bvalid = 1 THEN 1 ELSE aw_en

AwAddr(awvalid, wvalid, addr) ==
    awaddr' = IF TakesWrite(awvalid, wvalid) THEN addr ELSE awaddr

WReady(awvalid, wvalid) ==
    wready' = IF wready = 0 /\ wvalid = 1 /\ awvalid = 1 /\ aw_en = 1 THEN 1 ELSE 0

slv_reg_wren(awvalid, wvalid) ==
    wready = 1 /\ wvalid = 1 /\ awready = 1 /\ awvalid = 1

(* Slip: strobes ignored. *)
StrobesIgnored(old, data, strb) == data

(* A write replaces the strobed lanes of the addressed register. *)
Strobed(old, data, strb) == [l \in Lanes |-> IF l \in strb THEN data[l] ELSE old[l]]

RegisterWrite(awvalid, wvalid, data, strb) ==
    slv_reg' = IF slv_reg_wren(awvalid, wvalid)
               THEN [slv_reg EXCEPT ![awaddr] = Strobed(@, data, strb)]
               ELSE slv_reg

(* Slip: the response comes with the address handshake, not after it. *)
BValidEarly(awvalid, wvalid, bready) ==
    bvalid' = IF bvalid = 0
              THEN IF TakesWrite(awvalid, wvalid) THEN 1 ELSE 0
              ELSE IF bready = 1 THEN 0 ELSE 1

BValid(awvalid, wvalid, bready) ==
    bvalid' = IF bvalid = 0
              THEN IF slv_reg_wren(awvalid, wvalid) THEN 1 ELSE 0
              ELSE IF bready = 1 THEN 0 ELSE 1

-----------------------------------------------------------------------------
ArReady(arvalid, addr) ==
    \/ /\ arready = 0 /\ arvalid = 1
       /\ arready' = 1 /\ araddr' = addr
    \/ /\ ~(arready = 0 /\ arvalid = 1)
       /\ arready' = 0 /\ UNCHANGED araddr

(* Slip: a read is served although the answer before it waits. *)
slv_reg_rdenWaiting(arvalid) == arready = 1 /\ arvalid = 1

slv_reg_rden(arvalid) == arready = 1 /\ arvalid = 1 /\ rvalid = 0

(* Slips: the answer is never withdrawn; READY wins over a new answer. *)
RValidSticky(arvalid, rready) ==
    rvalid' = IF rvalid = 0 /\ ~slv_reg_rden(arvalid) THEN 0 ELSE 1

RValidReadyFirst(arvalid, rready) ==
    rvalid' = IF rready = 1 THEN 0
              ELSE IF rvalid = 1 \/ slv_reg_rden(arvalid) THEN 1 ELSE 0

RValid(arvalid, rready) ==
    rvalid' = IF rvalid = 0
              THEN IF slv_reg_rden(arvalid) THEN 1 ELSE 0
              ELSE IF rready = 1 THEN 0 ELSE 1

(* Registers 2 and 3 read as the status and the received byte, whatever    *)
(* was written to them.                                                    *)
reg_data_out(status, rx) ==
    CASE araddr = 2 -> status
      [] araddr = 3 -> rx
      [] OTHER      -> slv_reg[araddr]

RData(arvalid, status, rx) ==
    rdata' = IF slv_reg_rden(arvalid) THEN reg_data_out(status, rx) ELSE rdata

(* One posedge of S_AXI_ACLK: aw, w, b, ar and r are the master's signals. *)
AxiEdge(aw, w, bready, ar, rready, status, rx) ==
    /\ AwReady(aw.valid, w.valid, bready)
    /\ AwAddr(aw.valid, w.valid, aw.addr)
    /\ WReady(aw.valid, w.valid)
    /\ RegisterWrite(aw.valid, w.valid, w.data, w.strb)
    /\ BValid(aw.valid, w.valid, bready)
    /\ ArReady(ar.valid, ar.addr)
    /\ RValid(ar.valid, rready)
    /\ RData(ar.valid, status, rx)

=============================================================================
