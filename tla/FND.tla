-------------------------------- MODULE FND --------------------------------
(***************************************************************************)
(* driver/FND: the four-digit display.  GPIOC drives the segments and      *)
(* GPIOD pins 0..3 the commons of the digits, both active low; one digit   *)
(* is lit at a time, by FND_DispDigit, called in turn.                     *)
(***************************************************************************)
EXTENDS GPIO

VARIABLES
    fndDpData,          \* digits (0..3) whose decimal point is set
    fndNumData,         \* the number shown
    fndDigState         \* the digit FND_DispDigit lit last

fndVars == <<fndDpData, fndNumData, fndDigState>>

Digits == 0..3
Segments == 0..6        \* SEG_PIN_A .. SEG_PIN_G
DP == 7                 \* SEG_PIN_DP

FndTypeOK ==
    /\ fndDpData \subseteq Digits /\ fndNumData \in Nat /\ fndDigState \in Digits

FndVarInit == fndDpData = {} /\ fndNumData = 0 /\ fndDigState = 0

fndFont == <<192, 249, 164, 176, 153, 146, 130, 248, 128, 144,
             136, 131, 198, 161, 134, 142>>

-----------------------------------------------------------------------------
(* The calls each function makes, in order. *)
FND_init ==
    <<SetMode("GPIOD", Digits, TRUE), SetMode("GPIOC", Segments \cup {DP}, TRUE)>>

(* Slip: the digit lit before stays on. *)
DispAllOffMissed == <<WritePort("GPIOC", Pins)>>

FND_DispAllOff == <<WritePin("GPIOD", Digits, TRUE), WritePort("GPIOC", Pins)>>

FND_DispAllOn == <<WritePort("GPIOC", {}), WritePin("GPIOD", Digits, FALSE)>>

digitData(k) == (fndNumData \div 10^k) % 10

FND_DispDigit_n(k) ==
    FND_DispAllOff \o <<WritePort("GPIOC", PinsOf(fndFont[digitData(k) + 1])),
                        WritePin("GPIOD", {k}, FALSE)>>

(* The point goes to the port of the LEDs. *)
FND_DispDP(k) == <<WritePin("GPIOB", {DP}, k \notin fndDpData)>>

(* Slips: only three digits take turns; the counter does not wrap. *)
NextDigitOfThree == (fndDigState + 1) % 3
NextDigitNoWrap == fndDigState + 1

NextDigit == (fndDigState + 1) % 4

FND_DispDigit == FND_DispDigit_n(NextDigit) \o FND_DispDP(NextDigit)

FND_SetNum(n) == fndNumData' = n /\ UNCHANGED <<fndDpData, fndDigState>>

(* ON is 0 and sets the bit. *)
FND_SetDp(k, on_off) ==
    /\ fndDpData' = IF on_off = 0 THEN fndDpData \cup {k} ELSE fndDpData \ {k}
    /\ UNCHANGED <<fndNumData, fndDigState>>

-----------------------------------------------------------------------------
(* What can be seen: the digits that are lit, and with which segments. *)
Lit == {k \in Digits : k \in cr["GPIOD"] /\ k \notin odr["GPIOD"]}
LitSegments ==
    IF Lit = {} THEN {} ELSE {s \in Segments : s \in cr["GPIOC"] /\ s \notin odr["GPIOC"]}

=============================================================================
