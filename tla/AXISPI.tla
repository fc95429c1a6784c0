------------------------------- MODULE AXISPI -------------------------------
(***************************************************************************)
(* AXI_SPI_v1_0: the AXI4-Lite slave and spi_master, joined by the wires   *)
(* of AXI_SPI_v1_0_S00_AXI's user logic.  A register is four byte lanes,   *)
(* least significant first; a byte is a number, and on the serial side the *)
(* word of its bits.                                                       *)
(***************************************************************************)
EXTENDS SPIMaster

VARIABLES awready, aw_en, awaddr, wready, bvalid,
          arready, araddr, rvalid, rdata, slv_reg

axiVars == <<awready, aw_en, awaddr, wready, bvalid,
             arready, araddr, rvalid, rdata, slv_reg>>

Axi == INSTANCE AXILite WITH Lanes <- 0..3, Bytes <- ByteValues

ASSUME DividerIsAByte == DivMax = 2^W - 1

Reg(b0, b1, b2, b3) == [lane \in 0..3 |-> <<b0, b1, b2, b3>>[lane + 1]]

cpol    == slv_reg[0][0] % 2
cpha    == (slv_reg[0][0] \div 2) % 2
clk_div == slv_reg[0][1]
start   == slv_reg[0][3] \div 2^(W - 1)
tx_data == BitsOf(slv_reg[1][0])

(* Slip: the two status bits change places. *)
StateRegSwapped == Reg(2 * done + busy, 0, 0, 0)

STATE_REG == Reg(2 * busy + done, 0, 0, 0)
RX_REG == Reg(NumberOf(rx_data), 0, 0, 0)

PeripheralInit == Axi!AxiInit /\ MasterInit(0)

PeripheralReset == Axi!AxiReset /\ MasterReset(0)

(* One clock edge of the peripheral: both halves read the old values. *)
PeripheralEdge(aw, w, bready, ar, rready, miso) ==
    /\ Axi!AxiEdge(aw, w, bready, ar, rready, STATE_REG, RX_REG)
    /\ MasterEdge(cpol, cpha, clk_div, tx_data, start, miso)

=============================================================================
