------------------------------- MODULE Board -------------------------------
(***************************************************************************)
(* main.c and ap_main.c with the drivers on the board: ap_init, then       *)
(* ap_excute for ever.  The user moves the switches and presses and        *)
(* releases the buttons at any time; a contact bounces after each move,    *)
(* for less than the 50 ms of delay_ms in Button_GetState.                 *)
(***************************************************************************)
EXTENDS Firmware

VARIABLES
    pc, cur,            \* point of ap_excute, and the button it looks at
    sw_state,           \* local of ap_excute
    prevState,          \* of the two button handles
    level,              \* the button pins in GPIOD's IDR, 1 when pushed
    held, bounce,       \* the finger, and the contact: "still", bouncing
                        \* since before the delay ("old") or not ("new")
    pressed             \* history: pressed since the button last acted

fingerVars == <<level, held, bounce, pressed>>
appVars == <<pc, cur, sw_state, prevState>>
vars == <<deviceVars, appVars, fingerVars>>

Buttons == {"write", "read"}
GPIO_Pin == [write |-> 6, read |-> 7]
PUSHED == 1
RELEASED == 0

(* Registers, variables of the program and the buttons stay in range. *)
TypeOK ==
    /\ DeviceTypeOK
    /\ pc \in {"init", "check", "delay", "act", "send", "sending", "display"}
    /\ cur \in Buttons /\ sw_state \in Words
    /\ prevState \in [Buttons -> {RELEASED, PUSHED}]
    /\ level \in [Buttons -> {0, 1}] /\ held \in [Buttons -> {0, 1}]
    /\ bounce \in [Buttons -> {"still", "old", "new"}]
    /\ pressed \in [Buttons -> BOOLEAN]

Switch_init == <<SetMode("GPIOA", Pins, FALSE)>>
Button_Init(b) == <<SetMode("GPIOD", {GPIO_Pin[b]}, FALSE)>>
LED_Init == <<SetMode("GPIOB", Pins, TRUE), WritePort("GPIOB", {})>>

ap_init == Switch_init \o Button_Init("write") \o Button_Init("read")
           \o <<SPI_Init>> \o LED_Init \o FND_init

(* Power-up, with nobody at the buttons. *)
Init ==
    /\ DeviceInit /\ todo = ap_init
    /\ pc = "init" /\ cur = "write" /\ sw_state = 0
    /\ prevState = [b \in Buttons |-> RELEASED]
    /\ level = [b \in Buttons |-> 0] /\ held = [b \in Buttons |-> 0]
    /\ bounce = [b \in Buttons |-> "still"]
    /\ pressed = [b \in Buttons |-> FALSE]

-----------------------------------------------------------------------------
(* The user, and the contacts. *)
Move(b) ==
    /\ held' = [held EXCEPT ![b] = 1 - @]
    /\ bounce' = [bounce EXCEPT ![b] = "new"]
    /\ pressed' = [pressed EXCEPT ![b] = @ \/ held[b] = 0]
    /\ UNCHANGED <<deviceVars, appVars, level>>

Bounce(b) ==
    /\ bounce[b] # "still"
    /\ level' = [level EXCEPT ![b] = 1 - @]
    /\ UNCHANGED <<deviceVars, appVars, held, bounce, pressed>>

Settle(b) ==
    /\ bounce[b] # "still"
    /\ bounce' = [bounce EXCEPT ![b] = "still"]
    /\ level' = [level EXCEPT ![b] = held[b]]
    /\ UNCHANGED <<deviceVars, appVars, held, pressed>>

-----------------------------------------------------------------------------
(* The main program. *)
InitDone ==
    /\ pc = "init" /\ Free
    /\ pc' = "check" /\ FND_SetNum(0)
    /\ UNCHANGED <<gpioVars, codeVars, spiVars, cur, sw_state, prevState, fingerVars>>

(* What ap_excute does when Button_GetState gives nothing to do. *)
NextPart ==
    IF cur = "write" THEN pc' = "check" /\ cur' = "read"
                     ELSE pc' = "display" /\ UNCHANGED cur

(* Slip: a release is not followed. *)
ChangedToPushed(b) == prevState[b] = RELEASED /\ level[b] = PUSHED

Changed(b) == level[b] # prevState[b]

(* Button_GetState up to the delay. *)
Check ==
    /\ pc = "check" /\ Free
    /\ \/ /\ Changed(cur)
          /\ pc' = "delay" /\ UNCHANGED cur
          /\ bounce' = [b \in Buttons |-> IF bounce[b] = "new" THEN "old" ELSE bounce[b]]
       \/ /\ ~Changed(cur)
          /\ NextPart /\ UNCHANGED bounce
    /\ UNCHANGED <<deviceVars, sw_state, prevState, level, held, pressed>>

(* Slip: no delay. *)
DelayOverAtOnce == TRUE

(* delay_ms(50): whatever bounced before it has settled. *)
DelayOver == Quiet /\ \A b \in Buttons : bounce[b] # "old"

(* Slip: the pin is not read again. *)
ConfirmedAlways(b) == TRUE

Confirmed(b) == level[b] # prevState[b]

(* Button_GetState after the delay; ACT_PUSHED is acted upon. *)
Reread ==
    /\ pc = "delay" /\ DelayOver
    /\ \/ /\ Confirmed(cur) /\ prevState[cur] = RELEASED
          /\ prevState' = [prevState EXCEPT ![cur] = PUSHED]
          /\ pressed' = [pressed EXCEPT ![cur] = FALSE]
          /\ pc' = "act" /\ UNCHANGED cur
       \/ /\ Confirmed(cur) /\ prevState[cur] = PUSHED
          /\ prevState' = [prevState EXCEPT ![cur] = RELEASED]
          /\ NextPart /\ UNCHANGED pressed
       \/ /\ ~Confirmed(cur)
          /\ NextPart /\ UNCHANGED <<prevState, pressed>>
    /\ UNCHANGED <<deviceVars, sw_state, level, held, bounce>>

(* The write button: the switches are read and the LEDs go on ... *)
WriteAct(switches) ==
    /\ pc = "act" /\ cur = "write"
    /\ sw_state' = switches
    /\ todo' = <<WritePin("GPIOB", Pins, TRUE)>>
    /\ pc' = "send"
    /\ UNCHANGED <<gpioVars, fndVars, access, spiVars, cur, prevState, fingerVars>>

(* ... and SPI_Excute sends them.  The read button sends 0. *)
Send ==
    /\ Free
    /\ \/ pc = "send" /\ SPI_Excute(sw_state)
       \/ pc = "act" /\ cur = "read" /\ SPI_Excute(0)
    /\ pc' = "sending" /\ sw_state' = 0
    /\ UNCHANGED <<gpioVars, fndVars, todo, cur, prevState, fingerVars>>

(* SPI_Excute returns: the LEDs go off, or the byte is shown. *)
Sent ==
    /\ pc = "sending" /\ Returns
    /\ \/ /\ cur = "write"
          /\ todo' = <<WritePin("GPIOB", Pins, FALSE)>> /\ UNCHANGED fndVars
       \/ /\ cur = "read"
          /\ FND_SetNum(rx) /\ UNCHANGED todo
    /\ NextPart
    /\ UNCHANGED <<gpioVars, spiVars, sw_state, prevState, fingerVars>>

(* FND_DispDigit, and round again. *)
DispDigit ==
    /\ pc = "display" /\ Free
    /\ todo' = FND_DispDigit /\ fndDigState' = NextDigit
    /\ pc' = "check" /\ cur' = "write"
    /\ UNCHANGED <<gpioVars, fndDpData, fndNumData, access, spiVars,
                   sw_state, prevState, fingerVars>>

Program ==
    \/ Execute /\ UNCHANGED <<appVars, fingerVars>>
    \/ InitDone \/ Check \/ Reread
    \/ \E switches \in Words : WriteAct(switches)
    \/ Send \/ Sent \/ DispDigit

Hardware == Peripheral /\ UNCHANGED <<appVars, fingerVars>>

Next ==
    \/ Program \/ Hardware
    \/ \E b \in Buttons : Move(b) \/ Bounce(b) \/ Settle(b)

Spec == Init /\ [][Next]_vars

(* Processor and peripheral run; a contact comes to rest. *)
FairSpec ==
    /\ Spec /\ WF_vars(Program) /\ WF_vars(Hardware)
    /\ \A b \in Buttons : WF_vars(Settle(b))

-----------------------------------------------------------------------------
(* Every press that acts sends exactly one frame, with the byte it should:  *)
(* a call never finds the frame of the one before still on the line.        *)
EveryPressSends == access = "read" => frames = 1 /\ out = tx

(* One press acts once, however the contact bounces while it is pressed,    *)
(* held and released.                                                       *)
PressActsOnce ==
    [][\A b \in Buttons : prevState[b] = RELEASED /\ prevState'[b] = PUSHED
                            => pressed[b]]_vars

(* A button held, or let go, is noticed in the end. *)
ButtonsFollow ==
    \A b \in Buttons, v \in {RELEASED, PUSHED} :
        <>[](held[b] = v) => <>[](prevState[b] = v)

(* The display goes on, whatever is pressed: every digit has its turn.      *)
AllDigitsShown == \A k \in Digits : []<>(Lit = {k})

(* What the ports drive, seen as a multiplexed display. *)
ShowPending == \E i \in DOMAIN todo :
    todo[i].fn = "WritePin" /\ todo[i].port = "GPIOD" /\ ~todo[i].on

Shown == INSTANCE Display WITH
    Nums <- Words, num <- fndNumData, at <- Lit, segs <- LitSegments,
    last <- IF ShowPending THEN (fndDigState + 3) % 4 ELSE fndDigState,
    booting <- pc = "init"

(* The drivers implement the multiplexed display. *)
DisplaySpec == Shown!Spec

(* The LEDs are dark between two rounds of ap_excute with the line idle.   *)
LedsDarkAtRest ==
    pc = "check" /\ Free /\ phase = "idle" => Level("GPIOB") = {}

=============================================================================
