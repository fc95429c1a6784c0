---------------------------- MODULE AXIBus_proofs ----------------------------
(***************************************************************************)
(* TLAPS proofs about AXIBus, for every number of byte lanes and every set *)
(* of writes, read addresses and status words.                             *)
(***************************************************************************)
EXTENDS AXIBus, TLAPS

(* Where a write stands between its request and its response: aw_en is up   *)
(* exactly until address and data are taken, they are taken together and    *)
(* from the write under way, and the response comes when both are.          *)
WriteInv ==
    /\ awready = wready
    /\ awready = 1 => /\ aw_en = 0 /\ bvalid = 0 /\ awaddr = wop.addr
                      /\ aw = "valid" /\ w = "valid"
    /\ bvalid = 1 => aw_en = 0 /\ writing = 1 /\ aw = "done" /\ w = "done"
    /\ writing = 0 => aw_en = 1 /\ aw = "done" /\ w = "done"
    /\ writing = 1 /\ aw_en = 1 => aw # "done" /\ w # "done"

(* Where a read stands.  With MaxReads > 1 a read may have been dropped, so *)
(* that only "at least" holds.                                              *)
ReadInv ==
    /\ arready = 1 => arvalid = 1 /\ araddr = araddr_in
    /\ arvalid + rvalid <= reads

(* Everything but what a read returns, so that the lemmas also serve where  *)
(* the status side is not known in detail.                                  *)
HandshakeType ==
    /\ awready \in Flag /\ aw_en \in Flag /\ wready \in Flag /\ bvalid \in Flag
    /\ arready \in Flag /\ rvalid \in Flag
    /\ awaddr \in Regs /\ araddr \in Regs /\ slv_reg \in [Regs -> RegWord]
    /\ wop \in WriteOp /\ writing \in Flag
    /\ aw \in {"todo", "valid", "done"} /\ w \in {"todo", "valid", "done"}
    /\ bready \in Flag /\ arvalid \in Flag /\ rready \in Flag
    /\ araddr_in \in Regs /\ reads \in 0..MaxReads

Handshakes == HandshakeType /\ WriteInv /\ ReadInv

DataType == rdata \in RegWord /\ status \in RegWord /\ rx \in RegWord

Inv == TypeOK /\ WriteInv /\ ReadInv

(* The type invariant is the two together. *)
LEMMA InvParts == Inv <=> Handshakes /\ DataType
  BY DEF Inv, Handshakes, HandshakeType, DataType, TypeOK, AxiTypeOK

-----------------------------------------------------------------------------
(* A register stays a word when the strobed lanes are replaced. *)
LEMMA StrobedWord ==
    ASSUME NEW old \in RegWord, NEW data \in RegWord, NEW strb
    PROVE  Strobed(old, data, strb) \in RegWord
  BY DEF Strobed, RegWord

(* A cleared register is a word. *)
LEMMA ClearedWord == Cleared \in RegWord
  BY LanesAssumption DEF Cleared, RegWord

(* After reset nothing is asked and nothing is accepted. *)
LEMMA HandshakesInit ==
    ASSUME AxiInit, wop \in Writes, writing = 0, aw = "done", w = "done", bready \in Flag,
           araddr_in \in ReadAddrs, arvalid = 0, rready \in Flag, reads = 0
    PROVE  Handshakes
  BY ClearedWord, BusAssumption
  DEF AxiInit, Handshakes, HandshakeType, WriteInv, ReadInv, Flag, Regs

-----------------------------------------------------------------------------
(* A clock edge, by its halves. *)
LEMMA ClockType == Handshakes /\ Clock => HandshakeType'
<1> SUFFICES ASSUME Handshakes, Clock PROVE HandshakeType'
  OBVIOUS
<1> USE DEF Handshakes, HandshakeType, Clock, AxiEdge, MasterEdge, Flag
<1>1. wop \in WriteOp /\ wop.addr \in Regs /\ wop.data \in RegWord
  BY DEF WriteOp
<1>2. awready' \in Flag /\ aw_en' \in Flag /\ awaddr' \in Regs /\ wready' \in Flag
  BY <1>1 DEF AwReady, AwAddr, WReady
<1>3. bvalid' \in Flag /\ rvalid' \in Flag
  BY DEF BValid, RValid
<1>4. slv_reg' \in [Regs -> RegWord]
  BY <1>1, StrobedWord DEF RegisterWrite
<1>5. arready' \in Flag /\ araddr' \in Regs
  BY DEF ArReady
<1>6. reads' \in 0..MaxReads /\ rready' \in Flag
  BY BusAssumption DEF TakeReadAnswer, ReadInv
<1>7. writing' \in Flag /\ bready' \in Flag
  BY DEF TakeWriteAnswer
<1>8. /\ wop' \in WriteOp /\ araddr_in' \in Regs /\ arvalid' \in Flag
      /\ aw' \in {"todo", "valid", "done"} /\ w' \in {"todo", "valid", "done"}
  BY <1>1
<1>9. QED
  BY <1>2, <1>3, <1>4, <1>5, <1>6, <1>7, <1>8

(* The write side of the slave and of its master at a clock edge. *)
LEMMA ClockWrite == Handshakes /\ Clock => WriteInv'
<1> SUFFICES ASSUME Handshakes, Clock PROVE WriteInv'
  OBVIOUS
<1> USE DEF Handshakes, HandshakeType, WriteInv, Clock, AxiEdge, MasterEdge, Flag,
        AwReady, AwAddr, WReady, BValid, TakeWriteAnswer, slv_reg_wren
<1>1. CASE awready = 1
  BY <1>1 DEF TakesWrite, Valid
<1>2. CASE bvalid = 1
  BY <1>2 DEF TakesWrite, Valid
<1>3. CASE awready = 0 /\ bvalid = 0
  <2>1. CASE TakesWrite(Valid(aw), Valid(w))
    BY <1>3, <2>1 DEF TakesWrite, Valid
  <2>2. CASE ~TakesWrite(Valid(aw), Valid(w))
    BY <1>3, <2>2 DEF TakesWrite, Valid
  <2>3. QED
    BY <2>1, <2>2
<1>4. QED
  BY <1>1, <1>2, <1>3

(* The read side: an address taken becomes an answer standing. *)
LEMMA ClockRead == Handshakes /\ Clock => ReadInv'
<1> SUFFICES ASSUME Handshakes, Clock PROVE ReadInv'
  OBVIOUS
<1> USE DEF Handshakes, HandshakeType, ReadInv, Clock, AxiEdge, MasterEdge, Flag,
        ArReady, RValid, TakeReadAnswer, slv_reg_rden
<1>1. arready' = 1 => arvalid' = 1 /\ araddr' = araddr_in'
  OBVIOUS
<1>2. arvalid' + rvalid' <= reads'
  <2>1. CASE arvalid = 1 /\ arready = 1
    BY <2>1
  <2>2. CASE ~(arvalid = 1 /\ arready = 1)
    BY <2>2
  <2>3. QED
    BY <2>1, <2>2
<1>3. QED
  BY <1>1, <1>2

-----------------------------------------------------------------------------
(* Every step keeps the handshakes in order. *)
LEMMA HandshakesNext == Handshakes /\ [Next]_vars => Handshakes'
<1> SUFFICES ASSUME Handshakes, [Next]_vars PROVE Handshakes'
  OBVIOUS
<1> USE DEF Handshakes, HandshakeType, WriteInv, ReadInv, Flag
<1>1. CASE Clock
  BY <1>1, ClockType, ClockWrite, ClockRead
<1>2. ASSUME NEW op \in Writes, AskWrite(op) PROVE Handshakes'
  BY <1>2, BusAssumption DEF AskWrite, axiVars
<1>3. CASE PresentAddress
  BY <1>3 DEF PresentAddress, axiVars
<1>4. CASE PresentData
  BY <1>4 DEF PresentData, axiVars
<1>5. CASE OfferBReady
  BY <1>5 DEF OfferBReady, axiVars
<1>6. ASSUME NEW a \in ReadAddrs, AskRead(a) PROVE Handshakes'
  <2>1. reads' \in 0..MaxReads /\ arvalid' + rvalid' <= reads'
    BY <1>6, BusAssumption DEF AskRead, axiVars
  <2>2. QED
    BY <1>6, <2>1, BusAssumption DEF AskRead, axiVars
<1>7. CASE OfferRReady
  BY <1>7 DEF OfferRReady, axiVars
<1>8. CASE Reset
  BY <1>8, ClearedWord, BusAssumption DEF Reset, AxiReset, Regs
<1>9. CASE UNCHANGED vars
  BY <1>9 DEF vars, axiVars, busVars
<1>10. QED
  BY <1>1, <1>2, <1>3, <1>4, <1>5, <1>6, <1>7, <1>8, <1>9 DEF Next

(* What is read is a word, whichever register it comes from. *)
LEMMA DataNext == Inv /\ [Next]_vars => DataType'
<1> SUFFICES ASSUME Inv, [Next]_vars PROVE DataType'
  OBVIOUS
<1> USE DEF Inv, TypeOK, AxiTypeOK, DataType
<1>1. CASE Clock
  BY <1>1, BusAssumption DEF Clock, AxiEdge, RData, reg_data_out
<1>2. CASE Reset
  BY <1>2, ClearedWord, BusAssumption DEF Reset, AxiReset
<1>3. CASE UNCHANGED <<axiVars, sideVars>>
  BY <1>3 DEF axiVars, sideVars
<1>4. QED
  BY <1>1, <1>2, <1>3 DEF Next, AskWrite, PresentAddress, PresentData, OfferBReady, AskRead,
     OfferRReady, vars

(* The invariant holds in every reachable state. *)
LEMMA InvAlways == Spec => []Inv
<1>1. Init => Inv
  BY HandshakesInit, InvParts, ClearedWord, BusAssumption DEF Init, AxiInit, DataType
<1>2. Inv /\ [Next]_vars => Inv'
  <2> SUFFICES ASSUME Inv, [Next]_vars PROVE Inv'
    OBVIOUS
  <2>1. Handshakes' /\ DataType'
    BY HandshakesNext, DataNext, InvParts
  <2>2. QED
    BY <2>1 DEF Inv, Handshakes, HandshakeType, DataType, TypeOK, AxiTypeOK
<1>3. QED
  BY <1>1, <1>2, PTL DEF Spec

(* All registers, flags and channel wires stay in range, also with several  *)
(* reads outstanding.                                                       *)
THEOREM TypeCorrect == Spec => []TypeOK
<1>1. Inv => TypeOK
  BY DEF Inv
<1>2. QED
  BY <1>1, InvAlways, PTL

(* A write response stands only for a write that was taken whole, and the   *)
(* write channel is open again when nobody is being served.                 *)
THEOREM WriteAnswersCorrect == Spec => []WriteAnswersMatch
<1>1. Inv => WriteAnswersMatch
  BY DEF Inv, TypeOK, AxiTypeOK, WriteInv, WriteAnswersMatch, Flag
<1>2. QED
  BY <1>1, InvAlways, PTL

-----------------------------------------------------------------------------
(* One read at a time: no answer can stand when an address is taken.        *)
LEMMA OneRead ==
    ASSUME MaxReads = 1, Inv, ReadsAnswered, [Next]_vars
    PROVE  ReadsAnswered'
<1> USE DEF Inv, TypeOK, AxiTypeOK, ReadInv, ReadsAnswered, Flag
<1>1. CASE Clock
  <2> USE DEF Clock, AxiEdge, MasterEdge, RValid, TakeReadAnswer, slv_reg_rden
  <2>1. CASE arvalid = 1 /\ arready = 1
    BY <1>1, <2>1
  <2>2. CASE ~(arvalid = 1 /\ arready = 1)
    BY <1>1, <2>2
  <2>3. QED
    BY <2>1, <2>2
<1>2. ASSUME NEW a \in ReadAddrs, AskRead(a) PROVE ReadsAnswered'
  BY <1>2 DEF AskRead, axiVars
<1>3. CASE Reset
  BY <1>3 DEF Reset, AxiReset
<1>4. CASE UNCHANGED <<rvalid, arvalid, reads>>
  BY <1>4
<1>5. QED
  BY <1>1, <1>2, <1>3, <1>4 DEF Next, AskWrite, PresentAddress, PresentData,
     OfferBReady, OfferRReady, vars, axiVars, busVars

(* A master with one read at a time loses none and gets none twice. *)
THEOREM ReadsCorrect ==
    ASSUME MaxReads = 1
    PROVE  Spec => []ReadsAnswered
<1>1. Init => ReadsAnswered
  BY DEF Init, AxiInit, ReadsAnswered
<1>2. Inv /\ ReadsAnswered /\ [Next]_vars => ReadsAnswered'
  BY OneRead
<1>3. QED
  BY <1>1, <1>2, InvAlways, PTL DEF Spec

-----------------------------------------------------------------------------
(* The write channels implement the write side of the register file ...     *)
LEMMA ClockWriteSide == Inv /\ Clock => Registers!WriteSide
<1> SUFFICES ASSUME Inv, Clock PROVE Registers!WriteSide
  OBVIOUS
<1> USE DEF Inv, TypeOK, AxiTypeOK, WriteInv, Clock, AxiEdge, MasterEdge, Flag,
        TakeWriteAnswer, BValid, slv_reg_wren, RegisterWrite, Registers!WriteSide
<1>1. CASE awready = 1
  <2>1. writing = 1 /\ writing' = 1 /\ bvalid = 0 /\ bvalid' = 1
    BY <1>1 DEF Valid
  <2>2. slv_reg' = [slv_reg EXCEPT ![wop.addr] =
                     [l \in Lanes |-> IF l \in wop.strb THEN wop.data[l] ELSE @[l]]]
    BY <1>1 DEF Valid, Strobed
  <2>3. QED
    BY <2>1, <2>2
<1>2. CASE bvalid = 1
  BY <1>2
<1>3. CASE awready = 0 /\ bvalid = 0
  BY <1>3
<1>4. QED
  BY <1>1, <1>2, <1>3

(* ... and the read channels its read side. *)
LEMMA ClockReadSide ==
    ASSUME MaxReads = 1, Inv, ReadsAnswered, Clock
    PROVE  Registers!ReadSide
<1> USE DEF Inv, TypeOK, AxiTypeOK, ReadInv, ReadsAnswered, Clock, AxiEdge, MasterEdge,
        Flag, TakeReadAnswer, RValid, RData, slv_reg_rden, Registers!ReadSide
<1>1. CASE arvalid = 1 /\ arready = 1
  <2>1. reads = 1 /\ reads' = 1 /\ rvalid = 0 /\ rvalid' = 1
    BY <1>1
  <2>2. rdata' = Registers!Contents(araddr_in)
    BY <1>1, <2>1 DEF reg_data_out, Registers!Contents
  <2>3. QED
    BY <2>1, <2>2
<1>2. CASE rvalid = 1
  BY <1>2
<1>3. CASE rvalid = 0 /\ ~(arvalid = 1 /\ arready = 1)
  BY <1>3
<1>4. QED
  BY <1>1, <1>2, <1>3

(* Every behaviour of the five channels is one of atomic registers. *)
THEOREM RegistersCorrect ==
    ASSUME MaxReads = 1
    PROVE  Spec => RegistersSpec
<1>1. Init => Registers!Init
  BY BusAssumption DEF Init, AxiInit, WriteOp, Cleared, RegWord, Regs, Registers!Init,
     Registers!WriteOps, Registers!Cleared, Registers!RegWord, Registers!Regs
<1>2. Inv /\ Inv' /\ ReadsAnswered /\ ReadsAnswered' /\ [Next]_vars
        => [Registers!Next]_(Registers!vars)
  <2> SUFFICES ASSUME Inv, Inv', ReadsAnswered, ReadsAnswered', [Next]_vars
               PROVE  Registers!Next \/ UNCHANGED Registers!vars
    OBVIOUS
  <2> USE DEF Registers!Next
  <2>1. /\ status' \in Registers!RegWord /\ rx' \in Registers!RegWord
        /\ wop' \in Registers!WriteOps /\ araddr_in' \in Registers!Regs
    BY DEF Inv, TypeOK, WriteOp, Regs, RegWord, Registers!WriteOps, Registers!RegWord,
       Registers!Regs
  <2>2. CASE Clock
    BY <2>1, <2>2, ClockWriteSide, ClockReadSide
  <2>3. ASSUME NEW op \in Writes, AskWrite(op) PROVE Registers!Next
    BY <2>1, <2>3 DEF AskWrite, axiVars, sideVars, Inv, WriteInv,
       Registers!WriteSide, Registers!ReadSide
  <2>4. ASSUME NEW a \in ReadAddrs, AskRead(a) PROVE Registers!Next
    BY <2>1, <2>4 DEF AskRead, axiVars, sideVars, Inv, TypeOK, AxiTypeOK, Flag,
       ReadsAnswered, Registers!WriteSide, Registers!ReadSide
  <2>5. CASE Reset
    BY <2>1, <2>5 DEF Reset, AxiReset, Cleared, Regs, Registers!Reset,
       Registers!Cleared, Registers!Regs
  <2>6. CASE UNCHANGED <<axiVars, sideVars, wop, writing, araddr_in, reads>>
    BY <2>6 DEF axiVars, sideVars, Registers!vars
  <2>7. QED
    BY <2>2, <2>3, <2>4, <2>5, <2>6 DEF Next, PresentAddress, PresentData,
       OfferBReady, OfferRReady, vars, busVars, axiVars, sideVars
<1>3. QED
  BY <1>1, <1>2, InvAlways, ReadsCorrect, PTL DEF Spec, RegistersSpec, Registers!Spec

=============================================================================
