------------------------------ MODULE Benches ------------------------------
(***************************************************************************)
(* The two UVM benches, of which one is simulated: UVMBench or             *)
(* LoopbackBench.  They share the device under test and the items.         *)
(***************************************************************************)
EXTENDS SPIBench

CONSTANT TimeoutLimit   \* clocks a handshake may take, 200 in the source

ASSUME TimeoutAssumption == TimeoutLimit \in Nat

VARIABLES
    bench,              \* which of the two
    stage, warm, hand, waited, s_tx_data, temp_m_tx, temp_s_tx, cur_araddr,
    s_state, s_bit_cnt, s_tx_shift_reg, s_rx_shift_reg, s_rx_data, miso,
    s_busy, s_done, sclk_0, sclk_1, cs_n_0, cs_n_1,
    l_stage, temp_tx    \* driver and monitor of the loopback bench

U == INSTANCE UVMBench
L == INSTANCE LoopbackBench WITH stage <- l_stage

uvmVars == <<stage, warm, hand, waited, s_tx_data, temp_m_tx, temp_s_tx,
             cur_araddr, s_state, s_bit_cnt, s_tx_shift_reg, s_rx_shift_reg,
             s_rx_data, miso, s_busy, s_done, sclk_0, sclk_1, cs_n_0, cs_n_1>>
loopbackVars == <<l_stage, temp_tx>>
vars == <<masterVars, axiVars, benchVars, uvmVars, loopbackVars, bench>>

Init == U!Init /\ L!Init /\ bench \in {"uvm", "loopback"}

UVMClock ==
    /\ bench = "uvm" /\ U!Clock
    /\ UNCHANGED <<loopbackVars, bench>>

LoopbackClock ==
    /\ bench = "loopback" /\ L!Clock
    /\ UNCHANGED <<uvmVars, bench>>

Clock == UVMClock \/ LoopbackClock

Spec == Init /\ [][Clock]_vars

(* The clock never stops. *)
FairSpec == Spec /\ WF_vars(Clock)

-----------------------------------------------------------------------------
(* Benches, slave and peripheral stay in their ranges. *)
TypeOK == U!TypeOK /\ L!TypeOK

(* No handshake of the UVM bench runs into its timeout, so uvm_fatal never  *)
(* ends the test (TIMEOUT in Verifi/README.md).                             *)
NoTimeout == ~U!TimedOut

(* Every item the driver finishes was compared once, by its own words: none *)
(* is skipped, counted twice or mixed up with the one before.               *)
EveryItemChecked ==
    IF bench = "uvm" THEN U!ItemCompared ELSE L!ItemCompared

(* The polls of busy, and in the loopback bench the waits without timeout,  *)
(* all end: items follow each other for ever.                               *)
ItemsComplete ==
    []<>(IF bench = "uvm" THEN U!ItemBegins ELSE L!ItemBegins)

=============================================================================
