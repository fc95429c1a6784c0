------------------------------- MODULE Panel -------------------------------
(***************************************************************************)
(* The driver functions under any application: one thread that calls them  *)
(* in any order with any arguments, those ap_main does not use included.   *)
(* SPI_Excute returns while its frame is on the line, so the status that   *)
(* LED_State_blink shows changes under it.                                 *)
(***************************************************************************)
EXTENDS Firmware

CONSTANTS Numbers,      \* arguments of FND_SetNum
          Points          \* digits whose decimal point is set or cleared

ASSUME PanelAssumption == Numbers \subseteq Nat /\ Points \subseteq Digits

VARIABLES
    panelPc,            \* "free", "sending", or the next access of a function
    sw,                 \* level of the switch pins in GPIOA's IDR
    swState, act,       \* the switch handle, and what Switch_Excute returned
    drawn               \* history: the number when digits were lit last

panelVars == <<panelPc, sw, swState, act, drawn>>
allVars == <<deviceVars, panelVars>>

(* Drivers and peripheral stay in range. *)
PanelTypeOK ==
    /\ DeviceTypeOK
    /\ panelPc \in {"free", "sending", "first", "second"}
    /\ sw \in {0, 1} /\ swState \in {0, 1}
    /\ act \in {"N_ACT", "ACT_UP", "ACT_DOWN"} /\ drawn \in Numbers \cup {0}

(* The ports are set up, and the display is dark. *)
PanelInit ==
    /\ cr = [p \in Ports |-> CASE p = "GPIOA" -> {} [] p = "GPIOD" -> Digits [] OTHER -> Pins]
    /\ odr = [p \in Ports |-> CASE p = "GPIOD" -> Digits [] p = "GPIOC" -> Pins [] OTHER -> {}]
    /\ FndVarInit /\ SpiInit /\ todo = <<>>
    /\ panelPc = "free" /\ sw \in {0, 1} /\ swState = 0 /\ act = "N_ACT" /\ drawn = 0

Idle == panelPc = "free" /\ Free

-----------------------------------------------------------------------------
Begin(calls) ==
    /\ Idle /\ todo' = calls
    /\ UNCHANGED <<gpioVars, access, spiVars, panelPc, sw, swState, act>>

CallDispDigit ==
    /\ Begin(FND_DispDigit) /\ fndDigState' = NextDigit /\ drawn' = fndNumData
    /\ UNCHANGED <<fndDpData, fndNumData>>

CallDispDigit_n(k) ==
    Begin(FND_DispDigit_n(k)) /\ drawn' = fndNumData /\ UNCHANGED fndVars

CallDispAll(on) ==
    /\ Begin(IF on THEN FND_DispAllOn ELSE FND_DispAllOff)
    /\ UNCHANGED <<fndVars, drawn>>

CallSetNum(n) == Begin(<<>>) /\ FND_SetNum(n) /\ UNCHANGED drawn

CallSetDp(k, on_off) == Begin(<<>>) /\ FND_SetDp(k, on_off) /\ UNCHANGED drawn

CallExcute(data) ==
    /\ Idle /\ SPI_Excute(data) /\ panelPc' = "sending"
    /\ UNCHANGED <<gpioVars, fndVars, todo, sw, swState, act, drawn>>

ExcuteReturns ==
    /\ panelPc = "sending" /\ Returns /\ panelPc' = "free"
    /\ UNCHANGED <<gpioVars, fndVars, todo, spiVars, sw, swState, act, drawn>>

(* LED_State_blink: dark, then one read of STATE_REG for each bit. *)
CallBlink ==
    /\ Idle /\ panelPc' = "first" /\ todo' = <<WritePort("GPIOB", {})>>
    /\ UNCHANGED <<gpioVars, fndVars, access, spiVars, sw, swState, act, drawn>>

(* 1 << LED_PIN_0 and 1 << LED_PIN_1 are pins 1 and 2. *)
BlinkPin == [done |-> 1, busy |-> 2]
STATE_REG == [done |-> done = 1, busy |-> phase # "idle"]

(* Slip: busy is looked at first. *)
BusyFirst == IF panelPc = "first" THEN "busy" ELSE "done"

BlinkBit == IF panelPc = "first" THEN "done" ELSE "busy"

BlinkStep ==
    /\ Free
    /\ \/ panelPc = "first" /\ panelPc' = "second"
       \/ panelPc = "second" /\ panelPc' = "free"
    /\ todo' = IF STATE_REG[BlinkBit] THEN <<WritePin("GPIOB", {BlinkPin[BlinkBit]}, TRUE)>>
                                      ELSE <<>>
    /\ UNCHANGED <<gpioVars, fndVars, access, spiVars, sw, swState, act, drawn>>

(* The user moves the switches. *)
Flip ==
    /\ sw' = 1 - sw
    /\ UNCHANGED <<deviceVars, panelPc, swState, act, drawn>>

Switch_Excute ==
    /\ Idle
    /\ swState' = sw
    /\ act' = IF swState = sw THEN "N_ACT" ELSE IF sw = 1 THEN "ACT_UP" ELSE "ACT_DOWN"
    /\ UNCHANGED <<deviceVars, panelPc, sw, drawn>>

PanelNext ==
    \/ (Execute \/ Peripheral) /\ UNCHANGED panelVars
    \/ CallDispDigit
    \/ \E k \in Digits : CallDispDigit_n(k)
    \/ \E on \in BOOLEAN : CallDispAll(on)
    \/ \E n \in Numbers : CallSetNum(n)
    \/ \E k \in Points, on_off \in {0, 1} : CallSetDp(k, on_off)
    \/ \E data \in Words : CallExcute(data)
    \/ ExcuteReturns
    \/ CallBlink \/ BlinkStep
    \/ Flip \/ Switch_Excute

PanelSpec == PanelInit /\ [][PanelNext]_allVars

-----------------------------------------------------------------------------
(* LED_State_blink reads the status twice, but never shows "done" and "busy" *)
(* together: no frame can begin between the two reads.                       *)
BlinkConsistent == Idle => ~ {BlinkPin[b] : b \in DOMAIN BlinkPin} \subseteq Level("GPIOB")

Eye == INSTANCE Display WITH
    Nums <- Numbers, num <- drawn, at <- Lit, segs <- LitSegments,
    last <- fndDigState, booting <- FALSE

(* In whatever order the functions of the display are called, it rests with *)
(* nothing lit, everything lit, or one digit with its shape of the number   *)
(* that was set then.                                                       *)
RestsReadable ==
    Free => \/ Lit = {}
            \/ Lit = Digits /\ LitSegments = Segments
            \/ \E k \in Digits :
                 Lit = {k} /\ LitSegments = Eye!Shape[(drawn \div 10^k) % 10]

=============================================================================
